------------------------- MODULE ReceivePathProofs -------------------------
(***************************************************************************)
(* Proofs about ReceivePath, for every set of sessions and network threads *)
(* and any number of packets; and at the end about Packets, the bytes of a *)
(* packet: for every content, number and time it is read as it was written *)
(* as long as its size fits the header, and a packet cut short anywhere is *)
(* refused.                                                                *)
(***************************************************************************)
EXTENDS ReceivePath, Packets, SequenceTheorems, FiniteSetTheorems, FunctionTheorems, TLAPS

-----------------------------------------------------------------------------
(* Counting the places of a sequence, or of a function, that hold a member  *)
(* of a set.                                                                *)

Where(f, X) == {i \in DOMAIN f : f[i] \in X}
HowMany(f, X) == Cardinality(Where(f, X))

LEMMA HowManyBounds ==
  ASSUME NEW S, NEW q \in Seq(S), NEW X
  PROVE  /\ IsFiniteSet(Where(q, X))
         /\ HowMany(q, X) \in Nat
         /\ HowMany(q, X) <= Len(q)
         /\ \A i \in 1..Len(q) : q[i] \in X => HowMany(q, X) >= 1
<1>1. Len(q) \in Nat /\ DOMAIN q = 1..Len(q)
  BY LenProperties
<1>2. Where(q, X) \in SUBSET (1..Len(q))
  BY <1>1 DEF Where
<1>3. IsFiniteSet(1..Len(q)) /\ Cardinality(1..Len(q)) = Len(q)
  BY <1>1, FS_Interval, SMTT(30)
<1>4. IsFiniteSet(Where(q, X)) /\ Cardinality(Where(q, X)) <= Len(q)
  BY <1>2, <1>3, FS_Subset
<1>5. Cardinality(Where(q, X)) \in Nat
  BY <1>4, FS_CardinalityType
<1>6. ASSUME NEW i \in 1..Len(q), q[i] \in X PROVE Cardinality(Where(q, X)) # 0
  <2>1. i \in Where(q, X)
    BY <1>1, <1>6 DEF Where
  <2> QED BY <1>4, <2>1, FS_EmptySet
<1> QED BY <1>4, <1>5, <1>6 DEF HowMany

LEMMA HowManyEmpty == \A X : HowMany(<< >>, X) = 0
<1>1. \A X : Where(<< >>, X) = {}
  BY DEF Where
<1> QED BY <1>1, FS_EmptySet DEF HowMany

LEMMA HowManyAppend ==
  ASSUME NEW S, NEW q \in Seq(S), NEW e \in S, NEW X
  PROVE  HowMany(Append(q, e), X) = HowMany(q, X) + (IF e \in X THEN 1 ELSE 0)
<1> DEFINE r == Append(q, e)
<1>1. /\ Len(q) \in Nat /\ DOMAIN q = 1..Len(q)
      /\ r \in Seq(S) /\ Len(r) = Len(q) + 1
      /\ \A i \in 1..Len(q) : r[i] = q[i]
      /\ r[Len(q) + 1] = e
  BY LenProperties, AppendProperties
<1>2. DOMAIN r = 1..(Len(q) + 1)
  BY <1>1, LenProperties
<1> HIDE DEF r
<1>3. IsFiniteSet(Where(q, X)) /\ HowMany(q, X) \in Nat
  BY HowManyBounds
<1>4. CASE e \in X
  <2>1. Where(r, X) = Where(q, X) \cup {Len(q) + 1}
    BY <1>1, <1>2, <1>4 DEF Where
  <2>2. Len(q) + 1 \notin Where(q, X)
    BY <1>1 DEF Where
  <2>3. Cardinality(Where(r, X)) = Cardinality(Where(q, X)) + 1
    BY <1>3, <2>1, <2>2, FS_AddElement
  <2> QED BY <1>4, <2>3 DEF HowMany, r
<1>5. CASE e \notin X
  <2>1. Where(r, X) = Where(q, X)
    BY <1>1, <1>2, <1>5 DEF Where
  <2> QED BY <1>3, <1>5, <2>1 DEF HowMany, r
<1> QED BY <1>4, <1>5

LEMMA HowManyTail ==
  ASSUME NEW S, NEW q \in Seq(S), q # << >>, NEW X
  PROVE  HowMany(q, X) = HowMany(Tail(q), X) + (IF Head(q) \in X THEN 1 ELSE 0)
<1> DEFINE r == Tail(q)
<1>1. /\ Len(q) \in Nat \ {0} /\ DOMAIN q = 1..Len(q)
      /\ r \in Seq(S) /\ Len(r) = Len(q) - 1
      /\ \A i \in 1..Len(r) : r[i] = q[i + 1]
      /\ Head(q) = q[1]
  BY LenProperties, EmptySeq, HeadTailProperties
<1>2. DOMAIN r = 1..(Len(q) - 1)
  BY <1>1, LenProperties
<1> HIDE DEF r
<1>3. IsFiniteSet(Where(r, X)) /\ IsFiniteSet(Where(q, X)) /\ HowMany(r, X) \in Nat
  BY <1>1, HowManyBounds
<1> DEFINE T == Where(q, X) \ {1}
           f == [i \in Where(r, X) |-> i + 1]
<1>4. f \in Bijection(Where(r, X), T)
  <2>1. \A i \in Where(r, X) : i \in 1..(Len(q) - 1) /\ i + 1 \in T
    BY <1>1, <1>2 DEF Where
  <2>2. \A j \in T : j - 1 \in Where(r, X) /\ (j - 1) + 1 = j
    BY <1>1, <1>2 DEF Where
  <2>3. \A i, j \in Where(r, X) : f[i] = f[j] => i = j
    BY <2>1
  <2>4. f \in [Where(r, X) -> T]
    BY <2>1
  <2>5. \A j \in T : f[j - 1] = j
    BY <2>2
  <2> HIDE DEF f, T
  <2> QED BY <2>2, <2>3, <2>4, <2>5, Fun_IsBij
<1>5. Cardinality(T) = Cardinality(Where(r, X))
  <2> HIDE DEF f, T
  <2>1. ExistsBijection(Where(r, X), T)
    BY <1>4 DEF ExistsBijection
  <2> QED BY <1>3, <2>1, FS_Bijection
<1>6. Cardinality(T) = IF 1 \in Where(q, X) THEN Cardinality(Where(q, X)) - 1
                                             ELSE Cardinality(Where(q, X))
  BY <1>3, FS_RemoveElement
<1>7. Cardinality(Where(q, X)) \in Nat
  BY <1>3, FS_CardinalityType
<1>8. 1 \in Where(q, X) <=> Head(q) \in X
  BY <1>1 DEF Where
<1> HIDE DEF T
<1> QED BY <1>3, <1>5, <1>6, <1>7, <1>8 DEF HowMany, r

LEMMA HowManyOnce ==
  ASSUME NEW S, IsFiniteSet(S), NEW q \in SetToSeqs(S)
  PROVE  /\ q \in Seq(S)
         /\ \A x : HowMany(q, {x}) \in {0, 1} /\ (x \notin S => HowMany(q, {x}) = 0)
<1>1. Cardinality(S) \in Nat
  BY FS_CardinalityType
<1>2. /\ q \in [1..Cardinality(S) -> S]
      /\ \A i, j \in 1..Cardinality(S) : i # j => q[i] # q[j]
  BY DEF SetToSeqs
<1>3. q \in Seq(S)
  BY <1>1, <1>2
<1>4. DOMAIN q = 1..Len(q) /\ 1..Len(q) = 1..Cardinality(S)
  BY <1>2, <1>3, LenProperties
<1>5. ASSUME NEW x PROVE HowMany(q, {x}) \in {0, 1} /\ (x \notin S => HowMany(q, {x}) = 0)
  <2>1. CASE \E i \in 1..Len(q) : q[i] = x
    <3>1. PICK i \in 1..Len(q) : q[i] = x
      BY <2>1
    <3>2. Where(q, {x}) = {i}
      BY <1>2, <1>4, <3>1 DEF Where
    <3>3. Cardinality({i}) = 1
      BY FS_Singleton
    <3>4. x \in S
      BY <1>2, <1>4, <3>1
    <3> QED BY <3>2, <3>3, <3>4 DEF HowMany
  <2>2. CASE ~ \E i \in 1..Len(q) : q[i] = x
    <3>1. Where(q, {x}) = {}
      BY <1>4, <2>2 DEF Where
    <3> QED BY <3>1, FS_EmptySet DEF HowMany
  <2> QED BY <2>1, <2>2
<1> QED BY <1>3, <1>5

LEMMA HowManyThreads ==
  ASSUME NEW T, IsFiniteSet(T), NEW V, NEW f \in [T -> V], NEW X
  PROVE  /\ IsFiniteSet(Where(f, X))
         /\ HowMany(f, X) \in Nat
         /\ \A t \in T : f[t] \in X => HowMany(f, X) >= 1
<1>1. ASSUME NEW g \in [T -> V] PROVE IsFiniteSet(Where(g, X)) /\ Cardinality(Where(g, X)) \in Nat
  <2>1. Where(g, X) \in SUBSET T
    BY DEF Where
  <2>2. IsFiniteSet(Where(g, X))
    BY <2>1, FS_Subset
  <2> QED BY <2>2, FS_CardinalityType
<1>2. ASSUME NEW t \in T, f[t] \in X PROVE Cardinality(Where(f, X)) # 0
  <2>1. t \in Where(f, X)
    BY <1>2 DEF Where
  <2> QED BY <1>1, <2>1, FS_EmptySet
<1> QED BY <1>1, <1>2 DEF HowMany

\* f and g map the finite set T into V and differ at most in t.
DifferAt(t, T, V, f, g) ==
    /\ IsFiniteSet(T) /\ t \in T /\ f \in [T -> V] /\ g \in [T -> V]
    /\ \A u \in T : u # t => g[u] = f[u]

LEMMA HowManyChange ==
  ASSUME NEW T, NEW V, NEW f, NEW g, NEW t, NEW X, DifferAt(t, T, V, f, g)
  PROVE  HowMany(g, X)
            = HowMany(f, X) - (IF f[t] \in X THEN 1 ELSE 0) + (IF g[t] \in X THEN 1 ELSE 0)
<1>1. /\ IsFiniteSet(T) /\ t \in T /\ f \in [T -> V] /\ g \in [T -> V]
      /\ \A u \in T : u # t => g[u] = f[u]
  BY DEF DifferAt
<1>2. Where(g, X) \ {t} = Where(f, X) \ {t}
  BY <1>1 DEF Where
<1>3. Cardinality(Where(g, X) \ {t})
         = IF g[t] \in X THEN Cardinality(Where(g, X)) - 1 ELSE Cardinality(Where(g, X))
  <2>1. t \in Where(g, X) <=> g[t] \in X
    BY <1>1 DEF Where
  <2>2. IsFiniteSet(Where(g, X)) /\ Cardinality(Where(g, X)) \in Nat
    BY <1>1, HowManyThreads DEF HowMany
  <2> QED BY <2>1, <2>2, FS_RemoveElement
<1>4. Cardinality(Where(f, X) \ {t})
         = IF f[t] \in X THEN Cardinality(Where(f, X)) - 1 ELSE Cardinality(Where(f, X))
  <2>1. t \in Where(f, X) <=> f[t] \in X
    BY <1>1 DEF Where
  <2>2. IsFiniteSet(Where(f, X)) /\ Cardinality(Where(f, X)) \in Nat
    BY <1>1, HowManyThreads DEF HowMany
  <2> QED BY <2>1, <2>2, FS_RemoveElement
<1>5. Cardinality(Where(f, X)) \in Nat /\ Cardinality(Where(g, X)) \in Nat
  BY <1>1, HowManyThreads DEF HowMany
<1>6. Cardinality(Where(g, X))
         = Cardinality(Where(f, X)) - (IF f[t] \in X THEN 1 ELSE 0) + (IF g[t] \in X THEN 1 ELSE 0)
  <2>1. CASE f[t] \in X /\ g[t] \in X
    <3>1. Cardinality(Where(g, X)) - 1 = Cardinality(Where(f, X)) - 1
      BY <1>2, <1>3, <1>4, <2>1
    <3> QED BY <1>5, <2>1, <3>1
  <2>2. CASE f[t] \in X /\ g[t] \notin X
    <3>1. Cardinality(Where(g, X)) = Cardinality(Where(f, X)) - 1
      BY <1>2, <1>3, <1>4, <2>2
    <3> QED BY <1>5, <2>2, <3>1
  <2>3. CASE f[t] \notin X /\ g[t] \in X
    <3>1. Cardinality(Where(g, X)) - 1 = Cardinality(Where(f, X))
      BY <1>2, <1>3, <1>4, <2>3
    <3> QED BY <1>5, <2>3, <3>1
  <2>4. CASE f[t] \notin X /\ g[t] \notin X
    <3>1. Cardinality(Where(g, X)) = Cardinality(Where(f, X))
      BY <1>2, <1>3, <1>4, <2>4
    <3> QED BY <1>5, <2>4, <3>1
  <2> QED BY <2>1, <2>2, <2>3, <2>4
<1> QED BY <1>6 DEF HowMany

-----------------------------------------------------------------------------
(* Types.                                                                   *)

Whole(n, op) == Bytes(n, op, "whole")
First(n, op) == Bytes(n, op, "first")
Rest(n) == Bytes(n, "rest", "last")
Pieces == {Fin} \cup {Rest(n) : n \in 0..MaxPackets}
           \cup {Whole(n, op) : n \in 1..MaxPackets, op \in Ops}
           \cup {First(n, op) : n \in 1..MaxPackets, op \in Ops}

Off == [at |-> "off"]
Receive(s) == At("receive", s)
Queue(s, p) == With("queue", s, p)
Handle(s, p) == With("handle", s, p)
NetStates == {Idle, Off} \cup {Receive(s) : s \in Sessions}
              \cup {Queue(s, p) : s \in Sessions, p \in Packets}
WorkStates == {Idle} \cup {Handle(s, p) : s \in Sessions, p \in Packets}
MainStates == WorkStates \cup {At("other", None)}
               \cup {At(at, s) : at \in {"insert", "erase"}, s \in Sessions}

Events == {"hasty", "split", "halfway", "hungup", "missed", "garbled", "kicked",
           "malformed", "timeout", "unsent"}

Logins == {"connected", "begun", "done"}

Types ==
    /\ sent \in [Sessions -> 0..MaxPackets]
    /\ wire \in [Sessions -> Seq(Pieces)]
    /\ ready \subseteq Sessions
    /\ batch \in Seq(Sessions)
    /\ opening \in {s \in Sessions : place[s] # "none"} \cup {None}
    /\ place \in [Sessions -> {"none", "queued", "registered", "removed"}]
    /\ open \in [Sessions -> BOOLEAN]
    /\ requests \in Seq(Sessions)
    /\ net \in [NetThreads -> NetStates]
    /\ recvq \in [Sessions -> Seq(Packets)]
    /\ main \in MainStates
    /\ work \in [Sessions -> WorkStates]
    /\ joined \in [Sessions -> BOOLEAN] /\ login \in [Sessions -> Logins]
    /\ handled \in [Sessions -> Seq(1..MaxPackets)]
    /\ past \in [Sessions -> SUBSET Events]
    /\ up \in BOOLEAN

LEMMA PieceFacts ==
  /\ Fin \in Pieces /\ \A n \in 0..MaxPackets : Rest(n) \in Pieces
  /\ \A n \in 1..MaxPackets, op \in Ops : Whole(n, op) \in Pieces /\ First(n, op) \in Pieces
  /\ \A b \in Pieces :
       \/ b = Fin
       \/ \E n \in 0..MaxPackets : b = Rest(n)
       \/ \E n \in 1..MaxPackets, op \in Ops : b = Whole(n, op)
       \/ \E n \in 1..MaxPackets, op \in Ops : b = First(n, op)
  /\ \A b \in Pieces :
       /\ b.n \in 0..MaxPackets /\ b.part \in {"whole", "first", "last"}
       /\ b.op \in Ops \cup {"fin", "rest"}
       /\ b = [n |-> b.n, op |-> b.op, part |-> b.part]
<1>1. \A b \in Pieces :
        \/ b = Fin
        \/ \E n \in 0..MaxPackets : b = Rest(n)
        \/ \E n \in 1..MaxPackets, op \in Ops : b = Whole(n, op)
        \/ \E n \in 1..MaxPackets, op \in Ops : b = First(n, op)
  BY DEF Pieces
<1>2. /\ Fin \in Pieces /\ \A n \in 0..MaxPackets : Rest(n) \in Pieces
      /\ \A n \in 1..MaxPackets, op \in Ops : Whole(n, op) \in Pieces /\ First(n, op) \in Pieces
  BY DEF Pieces
<1>3. ASSUME NEW b \in Pieces
      PROVE  /\ b.n \in 0..MaxPackets /\ b.part \in {"whole", "first", "last"}
             /\ b.op \in Ops \cup {"fin", "rest"}
             /\ b = [n |-> b.n, op |-> b.op, part |-> b.part]
  BY <1>1, BoundsAssumption DEF Whole, First, Rest, Fin, Bytes
<1> QED BY <1>1, <1>2, <1>3, Zenon

LEMMA TypesImplyTypeOK == Types => TypeOK
<1> SUFFICES ASSUME Types PROVE TypeOK
  OBVIOUS
<1> DEFINE Shape == [n : 0..MaxPackets, op : Ops \cup {"fin", "rest"},
                     part : {"whole", "first", "last"}]
<1>1. Pieces \subseteq Shape
  BY BoundsAssumption DEF Pieces, Whole, First, Rest, Fin, Bytes
<1>2. wire \in [Sessions -> Seq(Shape)]
  <2> HIDE DEF Shape
  <2>1. \A s \in Sessions : wire[s] \in Seq(Shape)
    BY <1>1, SeqMonotonic DEF Types
  <2> QED BY <2>1 DEF Types
<1>3. \A t \in NetThreads : net[t].at \in {"off", "idle", "receive", "queue"}
  <2>1. \A x \in NetStates : x.at \in {"off", "idle", "receive", "queue"}
    BY DEF NetStates, Idle, Off, Receive, Queue, At, With
  <2> QED BY <2>1 DEF Types
<1>4. \A x \in WorkStates : x.at \in {"idle", "handle"}
  BY DEF WorkStates, Idle, Handle, With
<1>5. main.at \in {"idle", "insert", "handle", "erase", "other"}
  <2>1. \A x \in MainStates : x.at \in {"idle", "insert", "handle", "erase", "other"}
    BY <1>4 DEF MainStates, At
  <2> QED BY <2>1 DEF Types
<1> QED BY <1>2, <1>3, <1>4, <1>5 DEF Types, TypeOK, Logins

LEMMA StateFacts ==
  /\ \A x \in NetStates : x.at = "receive" => \E s \in Sessions : x = Receive(s) /\ x.s = s
  /\ \A x \in NetStates : x.at = "queue" =>
        \E s \in Sessions, p \in Packets : x = Queue(s, p) /\ x.s = s /\ x.p = p
  /\ \A x \in WorkStates : x.at = "handle" =>
        \E s \in Sessions, p \in Packets : x = Handle(s, p) /\ x.s = s /\ x.p = p
  /\ \A x \in MainStates : x.at = "handle" =>
        \E s \in Sessions, p \in Packets : x = Handle(s, p) /\ x.s = s /\ x.p = p
  /\ \A x \in MainStates : x.at \in {"insert", "erase"} => x.s \in Sessions
<1>1. \A x \in WorkStates : x.at = "handle" =>
        \E s \in Sessions, p \in Packets : x = Handle(s, p) /\ x.s = s /\ x.p = p
  BY DEF WorkStates, Idle, Handle, With
<1>2. \A x \in MainStates : x.at = "handle" => x \in WorkStates
  BY DEF MainStates, At
<1>3. \A x \in MainStates : x.at \in {"insert", "erase"} => x.s \in Sessions
  BY DEF MainStates, WorkStates, Idle, At, Handle, With
<1>4. \A x \in NetStates : x.at = "receive" => \E s \in Sessions : x = Receive(s) /\ x.s = s
  BY DEF NetStates, Idle, Off, Receive, Queue, At, With
<1>5. \A x \in NetStates : x.at = "queue" =>
        \E s \in Sessions, p \in Packets : x = Queue(s, p) /\ x.s = s /\ x.p = p
  BY DEF NetStates, Idle, Off, Receive, Queue, At, With
<1> QED BY <1>1, <1>2, <1>3, <1>4, <1>5

LEMMA StateMembers ==
  /\ Idle \in NetStates /\ Idle \in WorkStates /\ Idle \in MainStates
  /\ \A s \in Sessions : Receive(s) \in NetStates
  /\ \A s \in Sessions, p \in Packets :
        Queue(s, p) \in NetStates /\ Handle(s, p) \in WorkStates /\ Handle(s, p) \in MainStates
BY DEF NetStates, WorkStates, MainStates

LEMMA TypesInit == Init => Types
<1> SUFFICES ASSUME Init PROVE Types
  OBVIOUS
<1>1. net \in [NetThreads -> NetStates]
  <2>1. PICK T \in SUBSET NetThreads \ {{}} :
           net = [t \in NetThreads |-> IF t \in T THEN Idle ELSE [at |-> "off"]]
    BY DEF Init
  <2> QED BY <2>1 DEF NetStates, Off
<1> QED BY <1>1, BoundsAssumption, EmptySeq DEF Init, Types, Logins, WorkStates, MainStates

LEMMA HeadTailFacts ==
  ASSUME Types, NEW s \in Sessions
  PROVE  /\ wire[s] # << >> => /\ Head(wire[s]) \in Pieces /\ Tail(wire[s]) \in Seq(Pieces)
                               /\ Head(wire[s]) = wire[s][1] /\ Len(wire[s]) >= 1
                               /\ Len(Tail(wire[s])) = Len(wire[s]) - 1
         /\ recvq[s] # << >> => /\ Head(recvq[s]) \in Packets /\ Tail(recvq[s]) \in Seq(Packets)
                                /\ Head(recvq[s]) = recvq[s][1] /\ Len(recvq[s]) >= 1
                                /\ Len(Tail(recvq[s])) = Len(recvq[s]) - 1
<1>1. wire[s] \in Seq(Pieces) /\ recvq[s] \in Seq(Packets)
  BY DEF Types
<1> HIDE DEF Types
<1>2. ASSUME wire[s] # << >>
      PROVE  /\ Head(wire[s]) \in Pieces /\ Tail(wire[s]) \in Seq(Pieces)
             /\ Head(wire[s]) = wire[s][1] /\ Len(wire[s]) >= 1
             /\ Len(Tail(wire[s])) = Len(wire[s]) - 1
  BY <1>1, <1>2, HeadTailProperties, EmptySeq
<1>3. ASSUME recvq[s] # << >>
      PROVE  /\ Head(recvq[s]) \in Packets /\ Tail(recvq[s]) \in Seq(Packets)
             /\ Head(recvq[s]) = recvq[s][1] /\ Len(recvq[s]) >= 1
             /\ Len(Tail(recvq[s])) = Len(recvq[s]) - 1
  BY <1>1, <1>3, HeadTailProperties, EmptySeq
<1> QED BY <1>2, <1>3

\* What a client's steps add to the wire.
LEMMA SendFacts ==
  ASSUME Types, NEW s \in Sessions, ClientSends(s)
  PROVE  /\ sent[s] + 1 \in 1..MaxPackets /\ sent' = [sent EXCEPT ![s] = sent[s] + 1]
         /\ past[s] \cap {"hungup", "halfway"} = {}
         /\ \E b \in Pieces :
              /\ \E op \in Ops : b = Whole(sent[s] + 1, op) \/ b = First(sent[s] + 1, op)
              /\ Arrives(s, Append(wire[s], b))
              /\ b.part # "whole" => "split" \in past'[s] /\ "halfway" \in past'[s]
              /\ b.part = "whole" => ("halfway" \in past'[s] <=> "halfway" \in past[s])
              /\ b.part = "whole" => ("split" \in past'[s] <=> "split" \in past[s])
              /\ b.op = "refused" <=> b = Whole(sent[s] + 1, "refused")
              /\ b.op = "refused" => "malformed" \in past'[s]
         /\ past[s] \subseteq past'[s]
         /\ past'[s] \subseteq past[s] \cup {"hasty", "split", "halfway", "malformed"}
         /\ past' = [past EXCEPT ![s] = past'[s]]
         /\ UNCHANGED <<epoll, place, open, queues, handlers, up>>
<1>1. sent[s] + 1 \in 1..MaxPackets
  BY BoundsAssumption DEF ClientSends, Types
<1>2. PICK op \in Ops, part \in {"whole", "first"} :
         /\ op = "refused" => part = "whole"
         /\ Arrives(s, Append(wire[s], Bytes(sent[s] + 1, op, part)))
         /\ past' = [past EXCEPT ![s] =
                       @ \cup (IF Waits(s) THEN {} ELSE {"hasty"})
                         \cup (IF op = "refused" THEN {"malformed"} ELSE {})
                         \cup (IF part = "whole" THEN {} ELSE {"split", "halfway"})]
  BY Zenon DEF ClientSends
<1> DEFINE b == Bytes(sent[s] + 1, op, part)
<1>3. b.part = part /\ (b = Whole(sent[s] + 1, op) \/ b = First(sent[s] + 1, op)) /\ op \in Ops
      /\ b.op = op /\ (b.op = "refused" <=> b = Whole(sent[s] + 1, "refused"))
  BY <1>2 DEF Whole, First, Bytes, Ops
<1>4. b \in Pieces
  BY <1>1, <1>3, PieceFacts
<1>5. past'[s] = past[s] \cup (IF Waits(s) THEN {} ELSE {"hasty"})
                   \cup (IF op = "refused" THEN {"malformed"} ELSE {})
                   \cup (IF part = "whole" THEN {} ELSE {"split", "halfway"})
  BY <1>2 DEF Types
<1>6. past' = [past EXCEPT ![s] = past'[s]]
  BY <1>2, <1>5
<1>7. sent' = [sent EXCEPT ![s] = sent[s] + 1] /\ past[s] \cap {"hungup", "halfway"} = {}
      /\ UNCHANGED <<epoll, place, open, queues, handlers, up>>
  BY DEF ClientSends
<1>8. Arrives(s, Append(wire[s], b))
  BY <1>2
<1> HIDE DEF b
<1>9. /\ b.part # "whole" => "split" \in past'[s] /\ "halfway" \in past'[s]
      /\ b.part = "whole" => ("halfway" \in past'[s] <=> "halfway" \in past[s])
      /\ b.part = "whole" => ("split" \in past'[s] <=> "split" \in past[s])
      /\ b.op = "refused" => "malformed" \in past'[s]
      /\ past[s] \subseteq past'[s]
      /\ past'[s] \subseteq past[s] \cup {"hasty", "split", "halfway", "malformed"}
  BY <1>3, <1>5
<1> QED BY <1>1, <1>3, <1>4, <1>6, <1>7, <1>8, <1>9

LEMMA RestFacts ==
  ASSUME Types, NEW s \in Sessions, RestArrives(s)
  PROVE  /\ "halfway" \in past[s]
         /\ past' = [past EXCEPT ![s] = past[s] \ {"halfway"}]
         /\ \/ /\ wire[s] # << >>
               /\ \E n \in 1..MaxPackets, op \in Ops :
                    /\ wire[s][Len(wire[s])] = First(n, op)
                    /\ Arrives(s, [wire[s] EXCEPT ![Len(wire[s])] = Whole(n, op)])
            \/ Arrives(s, Append(wire[s], Rest(sent[s])))
         /\ UNCHANGED <<sent, epoll, place, open, queues, handlers, up>>
<1> DEFINE q == wire[s]
<1>0. q \in Seq(Pieces)
  BY DEF Types
<1>1. /\ "halfway" \in past[s]
      /\ past' = [past EXCEPT ![s] = past[s] \ {"halfway"}]
      /\ UNCHANGED <<sent, epoll, place, open, queues, handlers, up>>
  BY DEF RestArrives, Halfway
<1>2. CASE q # << >> /\ Last(q).part = "first"
  <2>1. Len(q) \in 1..Len(q) /\ Last(q) = q[Len(q)]
    BY <1>0, <1>2, EmptySeq DEF Last
  <2>2. q[Len(q)] \in Pieces
    BY <1>0, <2>1, ElementOfSeq
  <2>3. \E n \in 1..MaxPackets, op \in Ops : q[Len(q)] = First(n, op)
    BY <1>2, <2>1, <2>2, PieceFacts DEF Fin, Rest, Whole, Bytes
  <2>4. PICK n \in 1..MaxPackets, op \in Ops : q[Len(q)] = First(n, op)
    BY <2>3
  <2>5. [q EXCEPT ![Len(q)].part = "whole"] = [q EXCEPT ![Len(q)] = [q[Len(q)] EXCEPT !.part = "whole"]]
    OBVIOUS
  <2>6. [First(n, op) EXCEPT !.part = "whole"] = Whole(n, op)
    BY DEF First, Whole, Bytes
  <2>7. Arrives(s, [q EXCEPT ![Len(q)].part = "whole"])
    BY <1>2 DEF RestArrives
  <2> HIDE DEF q
  <2>8. Arrives(s, [q EXCEPT ![Len(q)] = Whole(n, op)])
    BY <2>4, <2>5, <2>6, <2>7
  <2> QED BY <1>1, <1>2, <2>4, <2>8 DEF q
<1>3. CASE ~(q # << >> /\ Last(q).part = "first")
  <2>1. Arrives(s, Append(q, Rest(sent[s])))
    BY <1>3 DEF RestArrives, Rest
  <2> QED BY <1>1, <2>1
<1> QED BY <1>2, <1>3

\* What RecvPacketFromSocket does for the session that the request is about.
Received(t, s) ==
    /\ net[t] = Receive(s)
    /\ UNCHANGED <<sent, ready, epoll, place, requests, recvq, handlers, up>>
    /\ \/ /\ ~ open[s]
          /\ net' = [net EXCEPT ![t] = Idle]
          /\ UNCHANGED <<wire, open, past>>
       \/ /\ open[s] /\ (wire[s] = << >> \/ Head(wire[s]) = Fin)
          /\ open' = [open EXCEPT ![s] = FALSE]
          /\ net' = [net EXCEPT ![t] = Idle]
          /\ UNCHANGED <<wire, past>>
       \/ /\ open[s] /\ wire[s] # << >> /\ Head(wire[s]) # Fin
          /\ "garbled" \in past[s] \/ Head(wire[s]).part # "whole"
          /\ wire' = [wire EXCEPT ![s] = Tail(wire[s])]
          /\ past' = [past EXCEPT ![s] = past[s] \cup {"garbled"}]
          /\ open' = [open EXCEPT ![s] = FALSE] \/ UNCHANGED open
          /\ net' = [net EXCEPT ![t] = Idle]
       \/ /\ open[s] /\ wire[s] # << >>
          /\ wire' = [wire EXCEPT ![s] = Tail(wire[s])]
          /\ Head(wire[s]).op = "refused"
          /\ open' = [open EXCEPT ![s] = FALSE]
          /\ net' = [net EXCEPT ![t] = Idle]
          /\ UNCHANGED past
       \/ /\ open[s] /\ wire[s] # << >>
          /\ wire' = [wire EXCEPT ![s] = Tail(wire[s])]
          /\ \E n \in 1..MaxPackets, op \in Ops :
               /\ Head(wire[s]) = Whole(n, op)
               /\ net' = [net EXCEPT ![t] = Queue(s, Packet(n, op))]
          /\ UNCHANGED <<open, past>>

LEMMA ReceiveFacts ==
  ASSUME Types, NEW t \in NetThreads, RecvPacketFromSocket(t)
  PROVE  \E s \in Sessions : Received(t, s)
<1> PICK s : s = net[t].s
  OBVIOUS
<1>1. net[t].at = "receive"
  BY DEF RecvPacketFromSocket
<1> SUFFICES s \in Sessions /\ Received(t, s)
  OBVIOUS
<1>2. s \in Sessions /\ net[t] = Receive(s)
  BY <1>1, StateFacts DEF Types
<1>3. UNCHANGED <<sent, ready, epoll, place, requests, recvq, handlers, up>>
  BY DEF RecvPacketFromSocket
<1>4. CASE ~ open[s] /\ net' = [net EXCEPT ![t] = Idle] /\ UNCHANGED <<wire, open, past>>
  BY <1>2, <1>3, <1>4 DEF Received
<1>5. CASE /\ open[s] /\ Fails(s)
           /\ open' = [open EXCEPT ![s] = FALSE]
           /\ net' = [net EXCEPT ![t] = Idle]
           /\ UNCHANGED <<wire, past>>
  BY <1>2, <1>3, <1>5 DEF Received, Fails, NextBytes
<1>6. CASE /\ open[s] /\ ~ Fails(s)
           /\ Garbled(s) \/ NextBytes(s).part # "whole"
           /\ wire' = [wire EXCEPT ![s] = Tail(@)]
           /\ Note(s, "garbled")
           /\ open' = [open EXCEPT ![s] = FALSE] \/ UNCHANGED open
           /\ net' = [net EXCEPT ![t] = Idle]
  <2>1. wire[s] # << >> /\ Head(wire[s]) # Fin /\ NextBytes(s) = Head(wire[s])
    BY <1>6 DEF Fails, NextBytes
  <2>2. past' = [past EXCEPT ![s] = past[s] \cup {"garbled"}]
    BY <1>6 DEF Note
  <2> QED BY <1>2, <1>3, <1>6, <2>1, <2>2 DEF Received, Garbled
<1>7. CASE /\ open[s] /\ ~ Fails(s)
           /\ ~ Garbled(s) /\ NextBytes(s).part = "whole"
           /\ wire' = [wire EXCEPT ![s] = Tail(@)]
           /\ net' = [net EXCEPT ![t] =
                         With("queue", s, Packet(NextBytes(s).n, NextBytes(s).op))]
           /\ UNCHANGED <<open, past>>
  <2>1. wire[s] # << >> /\ Head(wire[s]) # Fin /\ NextBytes(s) = Head(wire[s])
    BY <1>7 DEF Fails, NextBytes
  <2>2. Head(wire[s]) \in Pieces
    BY <1>2, <2>1, HeadTailFacts
  <2>3. \E n \in 1..MaxPackets, op \in Ops : Head(wire[s]) = Whole(n, op)
    BY <1>7, <2>1, <2>2, PieceFacts DEF Rest, First, Bytes
  <2>4. PICK n \in 1..MaxPackets, op \in Ops : Head(wire[s]) = Whole(n, op)
    BY <2>3
  <2>5. Head(wire[s]).n = n /\ Head(wire[s]).op = op
    BY <2>4 DEF Whole, Bytes
  <2>6. net' = [net EXCEPT ![t] = Queue(s, Packet(n, op))]
    BY <1>7, <2>1, <2>5 DEF Queue
  <2>7. \E m \in 1..MaxPackets, o \in Ops :
           /\ Head(wire[s]) = Whole(m, o)
           /\ net' = [net EXCEPT ![t] = Queue(s, Packet(m, o))]
    BY <2>4, <2>6
  <2>8. open[s] /\ wire' = [wire EXCEPT ![s] = Tail(wire[s])] /\ UNCHANGED <<open, past>>
    BY <1>7
  <2> QED BY <1>2, <1>3, <2>1, <2>7, <2>8 DEF Received
<1>8. CASE /\ open[s] /\ ~ Fails(s)
           /\ ~ Garbled(s) /\ NextBytes(s).part = "whole"
           /\ NextBytes(s).op = "refused"
           /\ wire' = [wire EXCEPT ![s] = Tail(@)]
           /\ open' = [open EXCEPT ![s] = FALSE]
           /\ net' = [net EXCEPT ![t] = Idle]
           /\ UNCHANGED past
  <2>1. wire[s] # << >> /\ NextBytes(s) = Head(wire[s])
    BY <1>8 DEF Fails, NextBytes
  <2> QED BY <1>2, <1>3, <1>8, <2>1 DEF Received
<1> QED BY <1>4, <1>5, <1>6, <1>7, <1>8 DEF RecvPacketFromSocket

LEMMA TypesStep == Types /\ [Next]_vars => Types'
<1> SUFFICES ASSUME Types, [Next]_vars PROVE Types'
  OBVIOUS
<1>0. /\ wire \in [Sessions -> Seq(Pieces)]
      /\ open \in [Sessions -> BOOLEAN]
      /\ net \in [NetThreads -> NetStates]
      /\ recvq \in [Sessions -> Seq(Packets)]
      /\ work \in [Sessions -> WorkStates]
      /\ past \in [Sessions -> SUBSET Events]
  BY DEF Types
<1>01. \A s \in Sessions : /\ past[s] \cup {"missed"} \in SUBSET Events
                          /\ past[s] \cup {"garbled"} \in SUBSET Events
                          /\ past[s] \cup {"kicked"} \in SUBSET Events
                          /\ past[s] \cup {"hungup"} \in SUBSET Events
                          /\ past[s] \cup {"timeout"} \in SUBSET Events
                          /\ past[s] \cup {"unsent"} \in SUBSET Events
  BY <1>0 DEF Events
<1>1. CASE UNCHANGED vars
  BY <1>1 DEF Types, vars, kernel, epoll, queues, handlers
<1>2. CASE EpollWait
  <2> DEFINE S == {s \in ready : wire[s] # << >> /\ open[s]}
  <2>1. IsFiniteSet(S) /\ S \subseteq Sessions
    BY SetsAssumption, FS_Subset DEF Types
  <2>2. batch' \in SetToSeqs(S) /\ ready' = {}
        /\ UNCHANGED <<sent, wire, opening, place, open, queues, handlers, past, up>>
    BY <1>2 DEF EpollWait
  <2> HIDE DEF S
  <2>3. batch' \in Seq(Sessions)
    BY <2>1, <2>2, HowManyOnce, SeqMonotonic
  <2> QED BY <2>2, <2>3 DEF Types, queues, handlers
<1>3. CASE Watch
  BY <1>3 DEF Watch, Types, queues, handlers
<1>4. CASE QueueRecive
  <2> DEFINE s == Head(batch)
  <2>1. batch # << >> /\ batch' = Tail(batch)
        /\ (requests' = Append(requests, s) \/ requests' = requests)
        /\ UNCHANGED <<kernel, opening, place, open, net, recvq, handlers>>
    BY <1>4 DEF QueueRecive
  <2>2. past' = past \/ past' = [past EXCEPT ![s] = @ \cup {"missed"}]
    BY <1>4 DEF QueueRecive, Note
  <2>3. up' \in BOOLEAN
    BY <1>4 DEF QueueRecive, Types
  <2>4. batch \in Seq(Sessions) /\ requests \in Seq(Sessions)
    BY DEF Types
  <2>5. s \in Sessions /\ batch' \in Seq(Sessions)
    BY <2>1, <2>4, HeadTailProperties
  <2> HIDE DEF s
  <2>6. requests' \in Seq(Sessions)
    <3>1. Append(requests, s) \in Seq(Sessions)
      BY <2>4, <2>5, AppendProperties
    <3>2. requests' = Append(requests, s) \/ requests' = requests
      BY <2>1
    <3> QED BY <2>4, <3>1, <3>2
  <2>7. past' \in [Sessions -> SUBSET Events]
    BY <1>0, <1>01, <2>2, <2>5
  <2> QED BY <2>1, <2>3, <2>5, <2>6, <2>7 DEF Types, kernel, handlers
<1>5. CASE OtherBegins \/ OtherEnds \/ InsertEnds \/ EraseEnds
  <2>0. opening' = opening /\ opening' \in {s \in Sessions : place'[s] # "none"} \cup {None}
    BY <1>5, SMTT(60) DEF OtherBegins, OtherEnds, InsertEnds, EraseEnds, epoll, Types
  <2>1. main' \in MainStates
    BY <1>5 DEF OtherBegins, OtherEnds, InsertEnds, EraseEnds, MainStates, WorkStates
  <2>2. place' \in [Sessions -> {"none", "queued", "registered", "removed"}]
    BY <1>5 DEF OtherBegins, OtherEnds, InsertEnds, EraseEnds, Types
  <2>3. UNCHANGED <<kernel, epoll, open, queues, work, joined, login, handled, past, up>>
    BY <1>5 DEF OtherBegins, OtherEnds, InsertEnds, EraseEnds
  <2> QED BY <2>0, <2>1, <2>2, <2>3 DEF Types, kernel, epoll, queues
<1>6. CASE MainHandles
  <2>1. PICK s \in Sessions, p \in Packets : main = Handle(s, p) /\ main.s = s /\ main.p = p
    BY <1>6, StateFacts DEF MainHandles, Types
  <2>2. /\ handled' = [handled EXCEPT ![s] = Append(@, p.n)]
        /\ main' = Idle
        /\ UNCHANGED <<kernel, epoll, place, queues, work, up>>
    BY <1>6, <2>1 DEF MainHandles
  <2>3. handled' \in [Sessions -> Seq(1..MaxPackets)]
    BY <2>1, <2>2 DEF Types, Packets
  <2>4. /\ joined' \in [Sessions -> BOOLEAN] /\ login' \in [Sessions -> Logins]
        /\ open' \in [Sessions -> BOOLEAN]
    BY <1>6, <2>1 DEF MainHandles, Types, Logins
  <2>5. past' = past \/ past' = [past EXCEPT ![s] = @ \cup {"kicked"}]
    BY <1>6, <2>1 DEF MainHandles, Note
  <2>6. past' \in [Sessions -> SUBSET Events]
    BY <1>0, <1>01, <2>5, <2>1
  <2>7. main' \in MainStates
    BY <2>2 DEF MainStates, WorkStates
  <2> QED BY <2>2, <2>3, <2>4, <2>6, <2>7 DEF Types, kernel, epoll, queues
<1>7. ASSUME NEW t \in NetThreads, GetNextSession(t) PROVE Types'
  <2>1. /\ requests # << >> /\ requests' = Tail(requests)
        /\ net' = [net EXCEPT ![t] = Receive(Head(requests))]
        /\ UNCHANGED <<kernel, epoll, place, open, recvq, handlers, past, up>>
    BY <1>7 DEF GetNextSession, Receive
  <2>2. requests' \in Seq(Sessions) /\ Head(requests) \in Sessions
    BY <2>1, HeadTailProperties DEF Types
  <2>3. net' \in [NetThreads -> NetStates]
    BY <1>0, <2>1, <2>2, StateMembers
  <2> QED BY <2>1, <2>2, <2>3 DEF Types, kernel, epoll, handlers
<1>8. ASSUME NEW t \in NetThreads, RecvPacketFromSocket(t) PROVE Types'
  <2>0. PICK s \in Sessions : Received(t, s)
    BY <1>8, ReceiveFacts
  <2>1. /\ UNCHANGED <<sent, ready, epoll, place, requests, recvq, handlers, up>>
        /\ wire' = wire \/ (wire[s] # << >> /\ wire' = [wire EXCEPT ![s] = Tail(wire[s])])
        /\ past' = past \/ past' = [past EXCEPT ![s] = past[s] \cup {"garbled"}]
        /\ open' = open \/ open' = [open EXCEPT ![s] = FALSE]
        /\ \/ net' = [net EXCEPT ![t] = Idle]
           \/ \E n \in 1..MaxPackets, op \in Ops :
                 net' = [net EXCEPT ![t] = Queue(s, Packet(n, op))]
    BY <2>0 DEF Received
  <2>2. wire' \in [Sessions -> Seq(Pieces)]
    <3>1. wire[s] # << >> => Tail(wire[s]) \in Seq(Pieces)
      BY HeadTailFacts
    <3> QED BY <1>0, <2>1, <3>1
  <2>3. past' \in [Sessions -> SUBSET Events]
        /\ open' \in [Sessions -> BOOLEAN]
    BY <1>0, <1>01, <2>1, ZenonT(60)
  <2>4. net' \in [NetThreads -> NetStates]
    <3>1. \A n \in 1..MaxPackets, op \in Ops : Packet(n, op) \in Packets
      BY DEF Packet, Packets
    <3>2. CASE net' = [net EXCEPT ![t] = Idle]
      BY <1>0, <3>2, StateMembers
    <3>3. CASE \E n \in 1..MaxPackets, op \in Ops :
                  net' = [net EXCEPT ![t] = Queue(s, Packet(n, op))]
      <4>1. PICK n \in 1..MaxPackets, op \in Ops :
                  net' = [net EXCEPT ![t] = Queue(s, Packet(n, op))]
        BY <3>3
      <4>2. Queue(s, Packet(n, op)) \in NetStates
        BY <3>1, StateMembers
      <4> QED BY <1>0, <4>1, <4>2
    <3> QED BY <2>1, <3>2, <3>3
  <2> QED BY <2>1, <2>2, <2>3, <2>4 DEF Types, epoll, handlers
<1>9. ASSUME NEW t \in NetThreads, QueuePacket(t) PROVE Types'
  <2>1. PICK s \in Sessions, p \in Packets : net[t] = Queue(s, p) /\ net[t].s = s /\ net[t].p = p
    BY <1>9, StateFacts DEF QueuePacket, Types
  <2>2. /\ recvq' = [recvq EXCEPT ![s] = Append(@, p)]
        /\ net' = [net EXCEPT ![t] = Idle]
        /\ UNCHANGED <<kernel, epoll, place, open, requests, handlers, past, up>>
    BY <1>9, <2>1 DEF QueuePacket
  <2>3. recvq' \in [Sessions -> Seq(Packets)] /\ net' \in [NetThreads -> NetStates]
    BY <1>0, <2>1, <2>2, AppendProperties, StateMembers
  <2> QED BY <2>2, <2>3 DEF Types, kernel, epoll, handlers
<1>10. ASSUME NEW s \in Sessions, ClientSends(s) PROVE Types'
  <2>1. PICK b \in Pieces : Arrives(s, Append(wire[s], b))
    BY <1>10, SendFacts
  <2>2. /\ sent[s] + 1 \in 1..MaxPackets /\ sent' = [sent EXCEPT ![s] = sent[s] + 1]
        /\ past'[s] \subseteq past[s] \cup {"hasty", "split", "halfway", "malformed"}
        /\ past' = [past EXCEPT ![s] = past'[s]]
        /\ UNCHANGED <<epoll, place, open, queues, handlers, up>>
    BY <1>10, SendFacts
  <2>3. wire' \in [Sessions -> Seq(Pieces)] /\ ready' \subseteq Sessions
    BY <2>1 DEF Arrives, Types
  <2>4. past' \in [Sessions -> SUBSET Events]
    <3>1. past[s] \cup {"hasty", "split", "halfway", "malformed"} \in SUBSET Events
      BY <1>0 DEF Events
    <3>2. past'[s] \in SUBSET Events
      BY <2>2, <3>1
    <3> QED BY <1>0, <2>2, <3>2
  <2>5. sent' \in [Sessions -> 0..MaxPackets]
    BY <2>2, BoundsAssumption DEF Types
  <2> QED BY <2>2, <2>3, <2>4, <2>5 DEF Types, epoll, queues, handlers
<1>11. ASSUME NEW s \in Sessions, RestArrives(s) PROVE Types'
  <2>1. past' = [past EXCEPT ![s] = past[s] \ {"halfway"}]
        /\ UNCHANGED <<sent, epoll, place, open, queues, handlers, up>>
    BY <1>11, RestFacts
  <2>2. \E q \in Seq(Pieces) : Arrives(s, q)
    <3>1. wire[s] \in Seq(Pieces) /\ Rest(sent[s]) \in Pieces
      BY PieceFacts DEF Types
    <3>2. CASE Arrives(s, Append(wire[s], Rest(sent[s])))
      BY <3>1, <3>2, AppendProperties
    <3>3. CASE /\ wire[s] # << >>
               /\ \E n \in 1..MaxPackets, op \in Ops :
                    Arrives(s, [wire[s] EXCEPT ![Len(wire[s])] = Whole(n, op)])
      <4>1. PICK n \in 1..MaxPackets, op \in Ops :
                    Arrives(s, [wire[s] EXCEPT ![Len(wire[s])] = Whole(n, op)])
        BY <3>3
      <4>2. Whole(n, op) \in Pieces
        BY PieceFacts
      <4>3. Len(wire[s]) \in 1..Len(wire[s])
        BY <3>1, <3>3, EmptySeq
      <4> QED BY <3>1, <4>1, <4>2, <4>3, ExceptSeq
    <3> QED BY <1>11, <3>2, <3>3, RestFacts
  <2>3. wire' \in [Sessions -> Seq(Pieces)] /\ ready' \subseteq Sessions
    BY <2>2 DEF Arrives, Types
  <2> QED BY <2>1, <2>3 DEF Types, epoll, queues, handlers
<1>12. ASSUME NEW s \in Sessions, ClientHangsUp(s) PROVE Types'
  <2>1. wire[s] \in Seq(Pieces) /\ Fin \in Pieces
    BY PieceFacts DEF Types
  <2>2. Append(wire[s], Fin) \in Seq(Pieces)
    BY <2>1, AppendProperties
  <2>3. wire' \in [Sessions -> Seq(Pieces)] /\ ready' \subseteq Sessions
    BY <1>12, <2>2 DEF ClientHangsUp, Arrives, Types
  <2>4. past' = [past EXCEPT ![s] = @ \cup {"hungup"}]
        /\ UNCHANGED <<sent, epoll, place, open, queues, handlers, up>>
    BY <1>12 DEF ClientHangsUp, Note
  <2>5. past' \in [Sessions -> SUBSET Events]
    BY <1>0, <1>01, <2>4
  <2> QED BY <2>3, <2>4, <2>5 DEF Types, epoll, queues, handlers
<1>13. ASSUME NEW s \in Sessions, Accept(s) PROVE Types'
  BY <1>13 DEF Accept, Types, kernel, queues, handlers
<1>14. ASSUME NEW s \in Sessions, InsertBegins(s) \/ Greet(s) \/ EraseBegins(s) PROVE Types'
  <2>1. main' \in MainStates
    BY <1>14 DEF InsertBegins, Greet, EraseBegins, MainStates, Types
  <2>2. joined' \in [Sessions -> BOOLEAN] /\ login' \in [Sessions -> Logins]
    BY <1>14 DEF InsertBegins, Greet, EraseBegins, Types, Logins
  <2>3. UNCHANGED <<kernel, epoll, place, open, queues, work, handled, past, up>>
    BY <1>14 DEF InsertBegins, Greet, EraseBegins
  <2> QED BY <2>1, <2>2, <2>3 DEF Types, kernel, epoll, queues
<1>15. ASSUME NEW s \in Sessions, MainTakes(s) PROVE Types'
  <2>1. /\ recvq[s] # << >> /\ main' = Handle(s, Head(recvq[s]))
        /\ recvq' = [recvq EXCEPT ![s] = Tail(@)]
        /\ UNCHANGED <<kernel, epoll, place, open, requests, net, work, joined, login,
                       handled, past, up>>
    BY <1>15 DEF MainTakes, Handle
  <2>2. Head(recvq[s]) \in Packets /\ Tail(recvq[s]) \in Seq(Packets)
    BY <2>1, HeadTailFacts
  <2>3. main' \in MainStates /\ recvq' \in [Sessions -> Seq(Packets)]
    BY <2>1, <2>2 DEF Types, MainStates, WorkStates
  <2> QED BY <2>1, <2>3 DEF Types, kernel, epoll
<1>16. ASSUME NEW s \in Sessions, WorkerTakes(s) PROVE Types'
  <2>1. /\ recvq[s] # << >> /\ work' = [work EXCEPT ![s] = Handle(s, Head(recvq[s]))]
        /\ recvq' = [recvq EXCEPT ![s] = Tail(@)]
        /\ UNCHANGED <<kernel, epoll, place, open, requests, net, main, joined, login,
                       handled, past, up>>
    BY <1>16 DEF WorkerTakes, Handle
  <2>2. Head(recvq[s]) \in Packets /\ Tail(recvq[s]) \in Seq(Packets)
    BY <2>1, HeadTailFacts
  <2>3. work' \in [Sessions -> WorkStates] /\ recvq' \in [Sessions -> Seq(Packets)]
    BY <2>1, <2>2 DEF Types, WorkStates
  <2> QED BY <2>1, <2>3 DEF Types, kernel, epoll
<1>17. ASSUME NEW s \in Sessions, WorkerHandles(s) PROVE Types'
  <2>1. PICK p \in Packets : work[s].p = p
    BY <1>17, StateFacts DEF WorkerHandles, Types
  <2>2. /\ handled' = [handled EXCEPT ![s] = Append(@, p.n)]
        /\ work' = [work EXCEPT ![s] = Idle]
        /\ UNCHANGED <<kernel, epoll, place, open, queues, main, login, past, up>>
    BY <1>17, <2>1 DEF WorkerHandles
  <2>3. joined' \in [Sessions -> BOOLEAN]
    BY <1>17 DEF WorkerHandles, Types
  <2>4. handled' \in [Sessions -> Seq(1..MaxPackets)]
    BY <2>1, <2>2 DEF Types, Packets
  <2> QED BY <2>2, <2>3, <2>4 DEF Types, kernel, epoll, queues, WorkStates
<1>18. ASSUME NEW t \in NetThreads, RefuseOpcode(t) PROVE Types'
  <2>1. /\ \E s : open' = [open EXCEPT ![s] = FALSE]
        /\ net' = [net EXCEPT ![t] = Idle]
        /\ UNCHANGED <<kernel, epoll, place, requests, recvq, handlers, past, up>>
    BY <1>18 DEF RefuseOpcode
  <2>2. open' \in [Sessions -> BOOLEAN] /\ net' \in [NetThreads -> NetStates]
    BY <1>0, <2>1, StateMembers
  <2> QED BY <2>1, <2>2 DEF Types, kernel, epoll, handlers
<1>19. ASSUME NEW t \in NetThreads, NEW s \in Sessions, SendFails(t, s) PROVE Types'
  <2>1. /\ open' = [open EXCEPT ![s] = FALSE]
        /\ past' = [past EXCEPT ![s] = @ \cup {"unsent"}]
        /\ UNCHANGED <<kernel, epoll, place, queues, handlers, up>>
    BY <1>19 DEF SendFails, Note
  <2>2. open' \in [Sessions -> BOOLEAN]
    BY <1>0, <2>1
  <2>3. past' \in [Sessions -> SUBSET Events]
    BY <1>0, <1>01, <2>1
  <2> QED BY <2>1, <2>2, <2>3 DEF Types, kernel, epoll, queues, handlers
<1>20. ASSUME NEW s \in Sessions, LoginTimer(s) PROVE Types'
  <2>1. /\ open' = [open EXCEPT ![s] = FALSE]
        /\ past' = [past EXCEPT ![s] = @ \cup {"timeout"}]
        /\ UNCHANGED <<kernel, epoll, place, queues, handlers, up>>
    BY <1>20 DEF LoginTimer, Note
  <2>2. open' \in [Sessions -> BOOLEAN]
    BY <1>0, <2>1
  <2>3. past' \in [Sessions -> SUBSET Events]
    BY <1>0, <1>01, <2>1
  <2> QED BY <2>1, <2>2, <2>3 DEF Types, kernel, epoll, queues, handlers
<1> QED BY <1>1, <1>2, <1>3, <1>4, <1>5, <1>6, <1>7, <1>8, <1>9, <1>10, <1>11, <1>12, <1>13,
           <1>14, <1>15, <1>16, <1>17, <1>18, <1>19, <1>20
        DEF Next, Epoll, MainEnds, Network, Client, Main, Worker

\* Every thread keeps the variables of the receive path in their types, whatever the
\* clients send and however the bytes are cut.
THEOREM Typing == Spec => []TypeOK
BY TypesInit, TypesStep, TypesImplyTypeOK, PTL DEF Spec

-----------------------------------------------------------------------------
(* Why sessions are closed.  Every notice of a session - an edge that epoll *)
(* has not reported, an event, a request, a thread about to receive - is    *)
(* backed by something to read, so that no receive finds nothing.           *)

Notices(s) == (IF s \in ready THEN 1 ELSE 0) + HowMany(batch, {s}) + HowMany(requests, {s})
                + HowMany(net, {Receive(s)})

Honest(s) == "hungup" \notin past[s] /\ "split" \notin past[s]

Backed(s) ==
    /\ Honest(s) => Notices(s) <= Len(wire[s])
    /\ ~ Watched(s) => Notices(s) = 0

Traced(s) ==
    /\ "garbled" \in past[s] \/ "halfway" \in past[s] => "split" \in past[s]
    /\ \A i \in 1..Len(wire[s]) : /\ wire[s][i] = Fin => "hungup" \in past[s]
                                  /\ wire[s][i].part # "whole" => "split" \in past[s]
                                  /\ wire[s][i].op = "refused" => "malformed" \in past[s]

Blamed(s) == ~ open[s] => past[s] \cap Causes # {}

Reasons == \A s \in Sessions : Backed(s) /\ Traced(s) /\ Blamed(s)

\* A packet that a thread refuses after its receive was sent by a client.
Tainted == \A t \in NetThreads, s \in Sessions, p \in Packets :
              net[t] = Queue(s, p) /\ p.op = "refused" => "malformed" \in past[s]

LEMMA NoticesAreNumbers ==
  ASSUME Types, NEW s
  PROVE  /\ Notices(s) \in Nat /\ HowMany(batch, {s}) \in Nat
         /\ HowMany(requests, {s}) \in Nat /\ HowMany(net, {Receive(s)}) \in Nat
<1>1. HowMany(batch, {s}) \in Nat /\ HowMany(requests, {s}) \in Nat
  BY HowManyBounds DEF Types
<1>2. HowMany(net, {Receive(s)}) \in Nat
  <2>1. net \in [NetThreads -> NetStates] /\ IsFiniteSet(NetThreads)
    BY SetsAssumption DEF Types
  <2> QED BY <2>1, HowManyThreads
<1> QED BY <1>1, <1>2 DEF Notices

LEMMA ReasonsInit == Init => Reasons
<1> SUFFICES ASSUME Init, NEW s \in Sessions PROVE Backed(s) /\ Traced(s) /\ Blamed(s)
  BY DEF Reasons
<1>1. wire[s] = << >> /\ past[s] = {} /\ open[s] /\ ready = {} /\ batch = << >> /\ requests = << >>
  BY DEF Init
<1>2. HowMany(net, {Receive(s)}) = 0
  <2>1. PICK T \in SUBSET NetThreads \ {{}} :
           net = [t \in NetThreads |-> IF t \in T THEN Idle ELSE [at |-> "off"]]
    BY DEF Init
  <2>2. Where(net, {Receive(s)}) = {}
    BY <2>1 DEF Where, Receive, At, Idle
  <2> QED BY <2>2, FS_EmptySet DEF HowMany
<1>3. Notices(s) = 0
  BY <1>1, <1>2, HowManyEmpty DEF Notices
<1>4. Len(wire[s]) = 0
  BY <1>1
<1> QED BY <1>1, <1>3, <1>4 DEF Backed, Traced, Blamed

\* Most steps leave a session's wire and past alone and add no notice of it.
LEMMA ReasonsKept ==
  ASSUME Types, Types', NEW s \in Sessions, Backed(s), Traced(s), Blamed(s),
         wire'[s] = wire[s], past[s] \subseteq past'[s],
         ("garbled" \in past'[s] => "garbled" \in past[s]),
         ("halfway" \in past'[s] => "halfway" \in past[s]),
         Notices(s)' <= Notices(s), Watched(s) => Watched(s)',
         open[s] /\ ~ open'[s] => past'[s] \cap Causes # {}
  PROVE  Backed(s)' /\ Traced(s)' /\ Blamed(s)'
<1>1. /\ HowMany(batch', {s}) \in Nat /\ HowMany(requests', {s}) \in Nat
  BY HowManyBounds DEF Types
<1>2. HowMany(net', {Receive(s)}) \in Nat
  <2>1. net' \in [NetThreads -> NetStates] /\ IsFiniteSet(NetThreads)
    BY SetsAssumption DEF Types
  <2> QED BY <2>1, HowManyThreads
<1>3. Notices(s)' \in Nat
  BY <1>1, <1>2 DEF Notices, Receive, At
<1>4. Notices(s) \in Nat
  BY NoticesAreNumbers
<1>5. Len(wire[s]) \in Nat
  BY DEF Types
<1>6. Backed(s)'
  BY <1>3, <1>4, <1>5 DEF Backed, Honest
<1>7. Traced(s)'
  BY DEF Traced
<1>8. Blamed(s)'
  BY DEF Blamed
<1> QED BY <1>6, <1>7, <1>8

LEMMA NoticesKept ==
  ASSUME NEW s, UNCHANGED <<ready, batch, requests, net>>
  PROVE  Notices(s)' = Notices(s)
BY DEF Notices, Receive, At

\* A network thread that turns from one state to another.
LEMMA NoticesOfThread ==
  ASSUME Types, NEW s, NEW t \in NetThreads,
         UNCHANGED <<ready, batch, requests>>, DifferAt(t, NetThreads, NetStates, net, net')
  PROVE  Notices(s)' = Notices(s) - (IF net[t] = Receive(s) THEN 1 ELSE 0)
                                  + (IF net'[t] = Receive(s) THEN 1 ELSE 0)
<1>2. HowMany(net, {Receive(s)}) \in Nat /\ HowMany(batch, {s}) \in Nat /\ HowMany(requests, {s}) \in Nat
  BY NoticesAreNumbers
<1>3. PICK X : X = {Receive(s)}
  OBVIOUS
<1>4. HowMany(net', X)
         = HowMany(net, X) - (IF net[t] \in X THEN 1 ELSE 0) + (IF net'[t] \in X THEN 1 ELSE 0)
  BY HowManyChange
<1>5. Notices(s)' = (IF s \in ready THEN 1 ELSE 0) + HowMany(batch, {s}) + HowMany(requests, {s})
                      + HowMany(net', X)
  BY <1>3 DEF Notices, Receive, At
<1>6. Notices(s) = (IF s \in ready THEN 1 ELSE 0) + HowMany(batch, {s}) + HowMany(requests, {s})
                      + HowMany(net, X)
  BY <1>3 DEF Notices
<1>7. HowMany(net', X)
         = HowMany(net, X) - (IF net[t] = Receive(s) THEN 1 ELSE 0)
                           + (IF net'[t] = Receive(s) THEN 1 ELSE 0)
  BY <1>3, <1>4
<1>8. HowMany(net, X) \in Nat
  BY <1>2, <1>3
<1> QED BY <1>2, <1>5, <1>6, <1>7, <1>8

LEMMA ReasonsStep == Types /\ Types' /\ Reasons /\ Tainted /\ [Next]_vars => Reasons'
<1> SUFFICES ASSUME Types, Types', Reasons, Tainted, [Next]_vars, NEW z \in Sessions
             PROVE  Backed(z)' /\ Traced(z)' /\ Blamed(z)'
  BY DEF Reasons
<1>0. Backed(z) /\ Traced(z) /\ Blamed(z)
  BY DEF Reasons
<1>00. Notices(z) \in Nat /\ HowMany(batch, {z}) \in Nat /\ HowMany(requests, {z}) \in Nat
       /\ HowMany(net, {Receive(z)}) \in Nat
  BY NoticesAreNumbers
<1>01. /\ wire \in [Sessions -> Seq(Pieces)] /\ wire[z] \in Seq(Pieces) /\ Len(wire[z]) \in Nat
       /\ past \in [Sessions -> SUBSET Events] /\ open \in [Sessions -> BOOLEAN]
  <2>1. wire \in [Sessions -> Seq(Pieces)] /\ wire[z] \in Seq(Pieces)
        /\ past \in [Sessions -> SUBSET Events] /\ open \in [Sessions -> BOOLEAN]
    BY DEF Types
  <2> QED BY <2>1, LenProperties
<1>02. Receive(z)' = Receive(z)
  BY DEF Receive, At
<1>1. ASSUME UNCHANGED <<ready, batch, requests, net, wire, past, open>>, Watched(z) => Watched(z)'
      PROVE  Backed(z)' /\ Traced(z)' /\ Blamed(z)'
  BY <1>0, <1>00, <1>1, NoticesKept, ReasonsKept
<1>2. CASE UNCHANGED vars
  BY <1>1, <1>2 DEF vars, kernel, epoll, queues, Watched
<1>3. CASE OtherBegins \/ OtherEnds \/ InsertEnds \/ EraseEnds
  <2>1. UNCHANGED <<ready, batch, requests, net, wire, past, open, opening>>
    BY <1>3 DEF OtherBegins, OtherEnds, InsertEnds, EraseEnds, kernel, epoll, queues
  <2>2. Watched(z) => Watched(z)'
    BY <1>3, <2>1 DEF OtherBegins, OtherEnds, InsertEnds, EraseEnds, Watched, Types
  <2> QED BY <1>1, <2>1, <2>2
<1>4. ASSUME NEW s \in Sessions,
             InsertBegins(s) \/ Greet(s) \/ EraseBegins(s) \/ MainTakes(s) \/ WorkerTakes(s)
               \/ WorkerHandles(s)
      PROVE  Backed(z)' /\ Traced(z)' /\ Blamed(z)'
  <2>1. UNCHANGED <<ready, batch, requests, net, wire, past, open, opening, place>>
    BY <1>4 DEF InsertBegins, Greet, EraseBegins, MainTakes, WorkerTakes, WorkerHandles,
                kernel, epoll, queues
  <2> QED BY <1>1, <2>1 DEF Watched
<1>5. ASSUME NEW s \in Sessions, Accept(s) PROVE Backed(z)' /\ Traced(z)' /\ Blamed(z)'
  <2>1. UNCHANGED <<ready, batch, requests, net, wire, past, open>>
    BY <1>5 DEF Accept, kernel, queues
  <2>2. Watched(z) => Watched(z)'
    BY <1>5 DEF Accept, Watched, Types
  <2> QED BY <1>1, <2>1, <2>2
<1>6. CASE MainHandles
  <2>1. UNCHANGED <<ready, batch, requests, net, wire, opening, place>>
    BY <1>6 DEF MainHandles, kernel, epoll, queues
  <2>2. \/ past' = past /\ open' = open
        \/ past' = [past EXCEPT ![main.s] = @ \cup {"kicked"}]
           /\ open' = [open EXCEPT ![main.s] = FALSE]
    BY <1>6 DEF MainHandles, Note
  <2>3. past'[z] = past[z] \/ past'[z] = past[z] \cup {"kicked"}
    BY <1>01, <2>2
  <2>4. open[z] /\ ~ open'[z] => "kicked" \in past'[z]
    BY <1>01, <2>2, ZenonT(60)
  <2>5. Notices(z)' = Notices(z)
    BY <2>1, NoticesKept
  <2>6. Watched(z) => Watched(z)'
    BY <2>1 DEF Watched
  <2>7. open[z] /\ ~ open'[z] => past'[z] \cap Causes # {}
    BY <2>4 DEF Causes
  <2> QED BY <1>0, <1>00, <2>1, <2>3, <2>5, <2>6, <2>7, ReasonsKept
<1>7. CASE EpollWait
  <2> DEFINE S == {s \in ready : wire[s] # << >> /\ open[s]}
  <2>1. IsFiniteSet(S) /\ S \subseteq ready /\ ready \subseteq Sessions
    BY SetsAssumption, FS_Subset DEF Types
  <2>2. batch' \in SetToSeqs(S) /\ ready' = {} /\ batch = << >>
        /\ UNCHANGED <<wire, opening, place, open, requests, net, past>>
    BY <1>7 DEF EpollWait, queues
  <2> HIDE DEF S
  <2>3. HowMany(batch', {z}) \in {0, 1} /\ (z \notin S => HowMany(batch', {z}) = 0)
    BY <2>1, <2>2, HowManyOnce
  <2>4. HowMany(batch, {z}) = 0
    BY <2>2, HowManyEmpty
  <2>5. HowMany(net', {Receive(z)'}) = HowMany(net, {Receive(z)}) /\ requests' = requests
    BY <1>02, <2>2
  <2>6. HowMany(batch', {z}) <= IF z \in ready THEN 1 ELSE 0
    BY <2>1, <2>3
  <2>7. Notices(z)' = 0 + HowMany(batch', {z}) + HowMany(requests, {z}) + HowMany(net, {Receive(z)})
    BY <2>2, <2>5 DEF Notices
  <2>8. Notices(z)' <= Notices(z)
    BY <1>00, <2>3, <2>4, <2>6, <2>7 DEF Notices
  <2>9. Watched(z) => Watched(z)'
    BY <2>2 DEF Watched
  <2> QED BY <1>0, <2>2, <2>8, <2>9, ReasonsKept
<1>8. CASE Watch
  <2>1. /\ opening # None /\ opening' = None
        /\ ready' = IF wire[opening] # << >> THEN ready \cup {opening} ELSE ready
        /\ UNCHANGED <<wire, batch, place, open, requests, net, past>>
    BY <1>8 DEF Watch, queues
  <2>2. CASE z # opening \/ wire[z] = << >>
    <3>1. z \in ready' <=> z \in ready
      BY <2>1, <2>2
    <3>2. Notices(z)' = Notices(z)
      BY <1>02, <2>1, <3>1 DEF Notices
    <3>3. Watched(z) => Watched(z)'
      BY <2>1, <2>2, NoneAssumption DEF Watched, Types
    <3> QED BY <1>0, <1>00, <2>1, <3>2, <3>3, ReasonsKept
  <2>3. CASE z = opening /\ wire[z] # << >>
    <3>1. ~ Watched(z) /\ Notices(z) = 0
      BY <1>0, <2>3 DEF Watched, Backed
    <3>2. z \notin ready /\ HowMany(batch, {z}) = 0 /\ HowMany(requests, {z}) = 0
          /\ HowMany(net, {Receive(z)}) = 0
      <4>1. CASE z \in ready
        BY <1>00, <3>1, <4>1 DEF Notices
      <4>2. CASE z \notin ready
        <5>1. 0 + HowMany(batch, {z}) + HowMany(requests, {z}) + HowMany(net, {Receive(z)}) = 0
          BY <3>1, <4>2 DEF Notices
        <5> QED BY <1>00, <4>2, <5>1
      <4> QED BY <4>1, <4>2
    <3>3. Notices(z)' = 1 + 0 + 0 + 0
      BY <1>02, <2>1, <2>3, <3>2 DEF Notices
    <3>4. Len(wire[z]) >= 1
      BY <2>3, HeadTailFacts
    <3>5. Notices(z)' <= Len(wire'[z])
      BY <1>01, <2>1, <3>3, <3>4
    <3>6. Watched(z)'
      BY <2>1, <2>3, NoneAssumption DEF Watched, Types
    <3> QED BY <1>0, <2>1, <3>5, <3>6 DEF Backed, Traced, Blamed
  <2> QED BY <2>2, <2>3
<1>9. CASE QueueRecive
  <2> PICK s : s = Head(batch)
    OBVIOUS
  <2>1. batch # << >> /\ batch' = Tail(batch)
        /\ (requests' = Append(requests, s) \/ requests' = requests)
        /\ UNCHANGED <<ready, wire, opening, place, open, net>>
    BY <1>9 DEF QueueRecive, kernel
  <2>2. past' = past \/ past' = [past EXCEPT ![s] = @ \cup {"missed"}]
    BY <1>9 DEF QueueRecive, Note
  <2>3. past'[z] = past[z] \/ past'[z] = past[z] \cup {"missed"}
    BY <1>01, <2>2
  <2>4. batch \in Seq(Sessions) /\ requests \in Seq(Sessions)
    BY DEF Types
  <2>5. s \in Sessions
    BY <2>1, <2>4, HeadTailProperties
  <2>6. HowMany(batch, {z}) = HowMany(batch', {z}) + (IF s \in {z} THEN 1 ELSE 0)
    BY <2>1, <2>4, HowManyTail
  <2>7. HowMany(Append(requests, s), {z}) = HowMany(requests, {z}) + (IF s \in {z} THEN 1 ELSE 0)
    BY <2>4, <2>5, HowManyAppend
  <2>8. HowMany(requests', {z}) <= HowMany(requests, {z}) + (IF s \in {z} THEN 1 ELSE 0)
    <3>1. CASE requests' = requests
      BY <1>00, <3>1
    <3>2. CASE requests' = Append(requests, s)
      BY <1>00, <2>7, <3>2
    <3> QED BY <2>1, <3>1, <3>2
  <2>9. HowMany(requests', {z}) \in Nat /\ HowMany(batch', {z}) \in Nat
    BY HowManyBounds DEF Types
  <2>10. HowMany(batch', {z}) + HowMany(requests', {z}) <= HowMany(batch, {z}) + HowMany(requests, {z})
    BY <1>00, <2>6, <2>8, <2>9
  <2>11. Notices(z)' = (IF z \in ready THEN 1 ELSE 0) + HowMany(batch', {z}) + HowMany(requests', {z})
                         + HowMany(net, {Receive(z)})
    BY <1>02, <2>1 DEF Notices
  <2>12. Notices(z)' <= Notices(z)
    BY <1>00, <2>9, <2>10, <2>11 DEF Notices
  <2>13. Watched(z) => Watched(z)'
    BY <2>1 DEF Watched
  <2> QED BY <1>0, <2>1, <2>3, <2>12, <2>13, ReasonsKept
<1>10. ASSUME NEW t \in NetThreads, GetNextSession(t) PROVE Backed(z)' /\ Traced(z)' /\ Blamed(z)'
  <2> PICK s : s = Head(requests)
    OBVIOUS
  <2>1. /\ requests # << >> /\ requests' = Tail(requests) /\ net[t].at = "idle"
        /\ net' = [net EXCEPT ![t] = Receive(s)]
        /\ UNCHANGED <<ready, batch, opening, wire, place, open, past>>
    BY <1>10 DEF GetNextSession, Receive, kernel, epoll
  <2>2. requests \in Seq(Sessions) /\ net \in [NetThreads -> NetStates] /\ IsFiniteSet(NetThreads)
    BY SetsAssumption DEF Types
  <2>3. s \in Sessions /\ Receive(s) \in NetStates
    BY <2>1, <2>2, HeadTailProperties, StateMembers
  <2>4. HowMany(requests, {z}) = HowMany(requests', {z}) + (IF s \in {z} THEN 1 ELSE 0)
    BY <2>1, <2>2, HowManyTail
  <2>5. HowMany(requests', {z}) \in Nat
    BY HowManyBounds DEF Types
  <2>0. PICK X : X = {Receive(z)}
    OBVIOUS
  <2>6. net[t] \notin X
    BY <2>0, <2>1 DEF Receive, At
  <2>7. Receive(s) \in X <=> s = z
    BY <2>0 DEF Receive, At
  <2>8. HowMany(net', X) = HowMany(net, X) - 0 + (IF s = z THEN 1 ELSE 0)
    <3>1. /\ net' \in [NetThreads -> NetStates]
          /\ DifferAt(t, NetThreads, NetStates, net, net')
      BY <2>1, <2>2, <2>3 DEF DifferAt
    <3>0. net'[t] = Receive(s)
      BY <2>1, <2>2, <2>3
    <3>2. HowMany(net', X)
             = HowMany(net, X) - (IF net[t] \in X THEN 1 ELSE 0) + (IF net'[t] \in X THEN 1 ELSE 0)
      BY <2>2, <3>1, HowManyChange
    <3> QED BY <2>6, <2>7, <3>0, <3>2
  <2>9. Notices(z)' = (IF z \in ready THEN 1 ELSE 0) + HowMany(batch, {z}) + HowMany(requests', {z})
                        + HowMany(net', X)
    BY <1>02, <2>0, <2>1 DEF Notices
  <2>10. Notices(z) = (IF z \in ready THEN 1 ELSE 0) + HowMany(batch, {z}) + HowMany(requests, {z})
                        + HowMany(net, X)
    BY <2>0 DEF Notices
  <2>11. HowMany(net, X) \in Nat
    BY <1>00, <2>0
  <2>12. Notices(z)' <= Notices(z)
    BY <1>00, <2>4, <2>5, <2>8, <2>9, <2>10, <2>11
  <2>13. Watched(z) => Watched(z)'
    BY <2>1 DEF Watched
  <2> QED BY <1>0, <2>1, <2>12, <2>13, ReasonsKept
<1>11. ASSUME NEW t \in NetThreads, QueuePacket(t) PROVE Backed(z)' /\ Traced(z)' /\ Blamed(z)'
  <2>1. /\ net[t].at = "queue" /\ net' = [net EXCEPT ![t] = Idle]
        /\ UNCHANGED <<ready, batch, requests, wire, past, open, opening, place>>
    BY <1>11 DEF QueuePacket, kernel, epoll
  <2>2. Idle # Receive(z) /\ net[t] # Receive(z) /\ Idle \in NetStates
    BY <2>1, StateMembers DEF Idle, Receive, At
  <2>3. Notices(z)' = Notices(z) - 0 + 0
    <3>1. /\ net' \in [NetThreads -> NetStates] /\ net'[t] = Idle
          /\ DifferAt(t, NetThreads, NetStates, net, net')
      BY <2>1, SetsAssumption DEF Types, DifferAt
    <3> QED BY <2>1, <2>2, <3>1, NoticesOfThread
  <2>4. Watched(z) => Watched(z)'
    BY <2>1 DEF Watched
  <2> QED BY <1>0, <1>00, <2>1, <2>3, <2>4, ReasonsKept
<1>12. ASSUME NEW t \in NetThreads, RecvPacketFromSocket(t)
       PROVE  Backed(z)' /\ Traced(z)' /\ Blamed(z)'
  <2>1. PICK s \in Sessions : Received(t, s)
    BY <1>12, ReceiveFacts
  <2>2. net[t] = Receive(s) /\ UNCHANGED <<ready, batch, opening, place, requests>>
    BY <2>1 DEF Received, epoll
  <2>3. Watched(z) => Watched(z)'
    BY <2>2 DEF Watched
  <2>4. \E x \in NetStates : net' = [net EXCEPT ![t] = x] /\ x # Receive(z)
    <3>1. Idle \in NetStates /\ Idle # Receive(z)
      BY StateMembers DEF Idle, Receive, At
    <3>2. \A n \in 1..MaxPackets, op \in Ops :
             Queue(s, Packet(n, op)) \in NetStates /\ Queue(s, Packet(n, op)) # Receive(z)
      <4>1. \A n \in 1..MaxPackets, op \in Ops : Packet(n, op) \in Packets
        BY DEF Packet, Packets
      <4>2. \A p : Queue(s, p) # Receive(z)
        BY DEF Queue, With, Receive, At
      <4> QED BY <4>1, <4>2, StateMembers
    <3> QED BY <2>1, <3>1, <3>2 DEF Received
  <2>5. Notices(z)' = Notices(z) - (IF s = z THEN 1 ELSE 0)
    <3>1. net[t] = Receive(z) <=> s = z
      BY <2>2 DEF Receive, At
    <3>2. PICK x \in NetStates : net' = [net EXCEPT ![t] = x] /\ x # Receive(z)
      BY <2>4
    <3>3. /\ net' \in [NetThreads -> NetStates] /\ net'[t] # Receive(z)
          /\ DifferAt(t, NetThreads, NetStates, net, net')
      BY <3>2, SetsAssumption DEF Types, DifferAt
    <3>4. Notices(z)' = Notices(z) - (IF s = z THEN 1 ELSE 0) + 0
      BY <2>2, <3>1, <3>3, NoticesOfThread
    <3> QED BY <1>00, <3>4
  <2>6. CASE s # z
    <3>1. wire'[z] = wire[z] /\ past'[z] = past[z] /\ open'[z] = open[z]
      BY <1>01, <2>1, <2>6 DEF Received
    <3> QED BY <1>0, <1>00, <2>3, <2>5, <2>6, <3>1, ReasonsKept
  <2>7. CASE s = z
    <3>0. net[t] = Receive(z) /\ HowMany(net, {Receive(z)}) >= 1
      <4>1. net \in [NetThreads -> NetStates] /\ IsFiniteSet(NetThreads)
        BY SetsAssumption DEF Types
      <4>2. net[t] = Receive(z)
        BY <2>2, <2>7
      <4> QED BY <4>1, <4>2, HowManyThreads
    <3>1. Notices(z)' = Notices(z) - 1 /\ Notices(z) >= 1
      BY <1>00, <2>5, <2>7, <3>0 DEF Notices
    <3>2. Watched(z)'
      BY <1>0, <2>3, <3>1 DEF Backed
    <3>3. CASE ~ open[z] /\ UNCHANGED <<wire, open, past>>
      BY <1>0, <1>00, <2>3, <3>1, <3>3, ReasonsKept
    <3>4. CASE /\ open[z] /\ (wire[z] = << >> \/ Head(wire[z]) = Fin)
               /\ UNCHANGED <<wire, past>>
      <4>1. wire[z] = << >> => Len(wire[z]) = 0
        OBVIOUS
      <4>2. ~ Honest(z)
        BY <1>0, <1>00, <3>1, <3>4, <4>1, HeadTailFacts DEF Backed, Traced, Honest
      <4>3. past'[z] \cap Causes # {}
        BY <3>4, <4>2 DEF Honest, Causes
      <4> QED BY <1>0, <1>00, <2>3, <3>1, <3>4, <4>3, ReasonsKept
    <3>5. ASSUME wire[z] # << >>, wire' = [wire EXCEPT ![z] = Tail(wire[z])]
          PROVE  /\ Len(wire'[z]) = Len(wire[z]) - 1
                 /\ \A i \in 1..Len(wire'[z]) : i + 1 \in 1..Len(wire[z]) /\ wire'[z][i] = wire[z][i + 1]
      <4>1. wire'[z] = Tail(wire[z])
        BY <3>5 DEF Types
      <4>2. /\ Len(wire[z]) \in Nat /\ Len(wire'[z]) = Len(wire[z]) - 1
            /\ \A i \in 1..Len(wire'[z]) : wire'[z][i] = wire[z][i + 1]
        BY <1>01, <3>5, <4>1, HeadTailProperties
      <4> QED BY <4>2
    <3>6. CASE /\ wire[z] # << >>
               /\ "garbled" \in past[z] \/ Head(wire[z]).part # "whole"
               /\ wire' = [wire EXCEPT ![z] = Tail(wire[z])]
               /\ past' = [past EXCEPT ![z] = past[z] \cup {"garbled"}]
      <4>1. "split" \in past[z]
        BY <1>0, <3>6, HeadTailFacts DEF Traced
      <4>2. past'[z] = past[z] \cup {"garbled"}
        BY <1>01, <3>6
      <4>3. Traced(z)'
        BY <1>0, <3>5, <3>6, <4>1, <4>2 DEF Traced
      <4> QED BY <3>2, <4>1, <4>2, <4>3 DEF Backed, Honest, Blamed, Causes
    <3>7. CASE /\ wire[z] # << >>
               /\ wire' = [wire EXCEPT ![z] = Tail(wire[z])]
               /\ UNCHANGED <<open, past>>
      <4>1. Backed(z)'
        BY <1>0, <1>00, <1>01, <3>1, <3>2, <3>5, <3>7 DEF Backed, Honest
      <4>2. Traced(z)'
        BY <1>0, <3>5, <3>7 DEF Traced
      <4>3. Blamed(z)'
        BY <1>0, <3>7 DEF Blamed
      <4> QED BY <4>1, <4>2, <4>3
    <3>8. CASE /\ wire[z] # << >>
               /\ wire' = [wire EXCEPT ![z] = Tail(wire[z])]
               /\ Head(wire[z]).op = "refused"
               /\ UNCHANGED past
      <4>1. Backed(z)'
        BY <1>0, <1>00, <1>01, <3>1, <3>2, <3>5, <3>8 DEF Backed, Honest
      <4>2. Traced(z)'
        BY <1>0, <3>5, <3>8 DEF Traced
      <4>3. "malformed" \in past[z]
        BY <1>0, <3>8, HeadTailFacts DEF Traced
      <4> QED BY <3>8, <4>1, <4>2, <4>3 DEF Blamed, Causes
    <3> QED BY <2>1, <2>7, <3>3, <3>4, <3>6, <3>7, <3>8 DEF Received
  <2> QED BY <2>6, <2>7
<1>13. ASSUME NEW s \in Sessions, NEW q, Arrives(s, q),
              UNCHANGED <<batch, opening, place, requests, net>>
       PROVE  /\ Notices(z)' \in Nat /\ Notices(z)' <= Notices(z) + 1
              /\ Watched(z)' = Watched(z) /\ (~ Watched(z)' => Notices(z)' = 0)
              /\ z # s => wire'[z] = wire[z] /\ Notices(z)' = Notices(z)
              /\ z = s => wire'[z] = q
  <2>1. /\ wire' = [wire EXCEPT ![s] = q]
        /\ ready' = IF Watched(s) THEN ready \cup {s} ELSE ready
    BY <1>13 DEF Arrives
  <2>2. Notices(z)' = (IF z \in ready' THEN 1 ELSE 0) + HowMany(batch, {z}) + HowMany(requests, {z})
                        + HowMany(net, {Receive(z)})
    BY <1>02, <1>13 DEF Notices
  <2>3. Notices(z) = (IF z \in ready THEN 1 ELSE 0) + HowMany(batch, {z}) + HowMany(requests, {z})
                        + HowMany(net, {Receive(z)})
    BY DEF Notices
  <2>4. Watched(z)' = Watched(z)
    BY <1>13 DEF Watched
  <2>5. z # s \/ ~ Watched(z) => (z \in ready' <=> z \in ready)
    BY <2>1
  <2>6. z # s \/ ~ Watched(z) => Notices(z)' = Notices(z)
    BY <2>2, <2>3, <2>5
  <2>7. ~ Watched(z) => Notices(z)' = 0
    BY <1>0, <2>6 DEF Backed
  <2>8. Notices(z)' \in Nat /\ Notices(z)' <= Notices(z) + 1
    <3>1. z \in ready => z \in ready'
      BY <2>1
    <3>2. CASE z \in ready
      BY <1>00, <2>2, <2>3, <3>1, <3>2
    <3>3. CASE z \notin ready /\ z \in ready'
      BY <1>00, <2>2, <2>3, <3>3
    <3>4. CASE z \notin ready /\ z \notin ready'
      BY <1>00, <2>2, <2>3, <3>4
    <3> QED BY <3>2, <3>3, <3>4
  <2>9. (z # s => wire'[z] = wire[z]) /\ (z = s => wire'[z] = q)
    BY <1>01, <2>1
  <2> QED BY <2>4, <2>6, <2>7, <2>8, <2>9
<1>14. ASSUME NEW s \in Sessions, ClientSends(s) PROVE Backed(z)' /\ Traced(z)' /\ Blamed(z)'
  <2>1. PICK b \in Pieces :
           /\ \E op \in Ops : b = Whole(sent[s] + 1, op) \/ b = First(sent[s] + 1, op)
           /\ Arrives(s, Append(wire[s], b))
           /\ b.part # "whole" => "split" \in past'[s] /\ "halfway" \in past'[s]
           /\ b.part = "whole" => ("halfway" \in past'[s] <=> "halfway" \in past[s])
           /\ b.part = "whole" => ("split" \in past'[s] <=> "split" \in past[s])
           /\ b.op = "refused" => "malformed" \in past'[s]
    BY <1>14, SendFacts
  <2>2. /\ past[s] \subseteq past'[s]
        /\ past'[s] \subseteq past[s] \cup {"hasty", "split", "halfway", "malformed"}
        /\ past' = [past EXCEPT ![s] = past'[s]]
        /\ UNCHANGED <<batch, opening, place, open, requests, net>>
    BY <1>14, SendFacts DEF epoll, queues
  <2>3. PICK q : q = Append(wire[s], b)
    OBVIOUS
  <2>4. Arrives(s, q)
    BY <2>1, <2>3
  <2>5. /\ Notices(z)' \in Nat /\ Notices(z)' <= Notices(z) + 1
        /\ Watched(z)' = Watched(z) /\ (~ Watched(z)' => Notices(z)' = 0)
        /\ z # s => wire'[z] = wire[z] /\ Notices(z)' = Notices(z)
        /\ z = s => wire'[z] = q
    BY <1>13, <2>2, <2>4
  <2>6. CASE z # s
    <3>1. past'[z] = past[z]
      BY <1>01, <2>2, <2>6
    <3> QED BY <1>0, <1>00, <2>2, <2>5, <2>6, <3>1, ReasonsKept
  <2>7. CASE z = s
    <3>1. /\ Len(wire'[z]) = Len(wire[z]) + 1
          /\ \A i \in 1..Len(wire[z]) : wire'[z][i] = wire[z][i]
          /\ wire'[z][Len(wire[z]) + 1] = b
      <4>1. /\ Len(Append(wire[z], b)) = Len(wire[z]) + 1
            /\ \A i \in 1..Len(wire[z]) : Append(wire[z], b)[i] = wire[z][i]
            /\ Append(wire[z], b)[Len(wire[z]) + 1] = b
        BY <1>01, AppendProperties
      <4>2. wire'[z] = Append(wire[z], b)
        BY <2>3, <2>5, <2>7
      <4> QED BY <4>1, <4>2
    <3>2. b # Fin
      BY <2>1 DEF Whole, First, Fin, Bytes, Ops
    <3>3. Traced(z)'
      <4>1. "garbled" \in past'[z] \/ "halfway" \in past'[z] => "split" \in past'[z]
        BY <1>0, <2>1, <2>2, <2>7 DEF Traced
      <4>2. ASSUME NEW i \in 1..Len(wire'[z])
            PROVE  /\ wire'[z][i] = Fin => "hungup" \in past'[z]
                   /\ wire'[z][i].part # "whole" => "split" \in past'[z]
                   /\ wire'[z][i].op = "refused" => "malformed" \in past'[z]
        <5>1. CASE i \in 1..Len(wire[z])
          BY <1>0, <2>2, <2>7, <3>1, <5>1 DEF Traced
        <5>2. CASE i = Len(wire[z]) + 1
          BY <2>1, <2>7, <3>1, <3>2, <5>2
        <5> QED BY <1>01, <3>1, <5>1, <5>2
      <4> QED BY <4>1, <4>2 DEF Traced
    <3>4. Backed(z)'
      <4>1. Honest(z)' => Honest(z)
        BY <2>2, <2>7 DEF Honest
      <4> QED BY <1>0, <1>00, <1>01, <2>5, <3>1, <4>1 DEF Backed
    <3>5. Blamed(z)'
      BY <1>0, <2>2, <2>7 DEF Blamed
    <3> QED BY <3>3, <3>4, <3>5
  <2> QED BY <2>6, <2>7
<1>15. ASSUME NEW s \in Sessions, RestArrives(s) PROVE Backed(z)' /\ Traced(z)' /\ Blamed(z)'
  <2>1. /\ "halfway" \in past[s]
        /\ past' = [past EXCEPT ![s] = past[s] \ {"halfway"}]
        /\ UNCHANGED <<batch, opening, place, open, requests, net>>
    BY <1>15, RestFacts DEF epoll, queues
  <2>2. PICK q : Arrives(s, q)
    BY <1>15, RestFacts
  <2>3. /\ Notices(z)' \in Nat /\ Notices(z)' <= Notices(z) + 1
        /\ Watched(z)' = Watched(z) /\ (~ Watched(z)' => Notices(z)' = 0)
        /\ z # s => wire'[z] = wire[z] /\ Notices(z)' = Notices(z)
        /\ z = s => wire'[z] = q
    BY <1>13, <2>1, <2>2
  <2>4. CASE z # s
    <3>1. past'[z] = past[z]
      BY <1>01, <2>1, <2>4
    <3> QED BY <1>0, <1>00, <2>1, <2>3, <2>4, <3>1, ReasonsKept
  <2>5. CASE z = s
    <3>1. "split" \in past[z] /\ past'[z] = past[z] \ {"halfway"}
      BY <1>0, <1>01, <2>1, <2>5 DEF Traced
    <3>2. \A i \in 1..Len(wire'[z]) :
             /\ wire'[z][i] = Fin => "hungup" \in past[z]
             /\ wire'[z][i].op = "refused" => "malformed" \in past[z]
      <4>1. CASE /\ wire[s] # << >>
                 /\ \E n \in 1..MaxPackets, op \in Ops :
                      /\ wire[s][Len(wire[s])] = First(n, op)
                      /\ Arrives(s, [wire[s] EXCEPT ![Len(wire[s])] = Whole(n, op)])
        <5>1. PICK n \in 1..MaxPackets, op \in Ops :
                      /\ wire[s][Len(wire[s])] = First(n, op)
                      /\ Arrives(s, [wire[s] EXCEPT ![Len(wire[s])] = Whole(n, op)])
          BY <4>1
        <5>2. wire'[z] = [wire[z] EXCEPT ![Len(wire[z])] = Whole(n, op)]
          BY <1>01, <2>5, <5>1 DEF Arrives
        <5>3. Len(wire'[z]) = Len(wire[z]) /\ Len(wire[z]) >= 1
              /\ \A i \in 1..Len(wire[z]) : wire'[z][i] = wire[z][i] \/ wire'[z][i] = Whole(n, op)
          BY <1>01, <2>5, <4>1, <5>2, EmptySeq
        <5>4. Whole(n, op) # Fin /\ Whole(n, op).op = First(n, op).op
          BY DEF Whole, First, Fin, Bytes, Ops
        <5>5. First(n, op).op = "refused" => "malformed" \in past[z]
          BY <1>0, <1>01, <2>5, <5>1, <5>3 DEF Traced
        <5> QED BY <1>0, <5>3, <5>4, <5>5 DEF Traced
      <4>2. CASE Arrives(s, Append(wire[s], Rest(sent[s])))
        <5>1. wire'[z] = Append(wire[z], Rest(sent[s])) /\ Rest(sent[s]) \in Pieces
          BY <1>01, <2>5, <4>2, PieceFacts DEF Arrives, Types
        <5>2. /\ Len(wire'[z]) = Len(wire[z]) + 1
              /\ \A i \in 1..Len(wire[z]) : wire'[z][i] = wire[z][i]
              /\ wire'[z][Len(wire[z]) + 1] = Rest(sent[s])
          BY <1>01, <5>1, AppendProperties
        <5>3. Rest(sent[s]) # Fin /\ Rest(sent[s]).op # "refused"
          BY DEF Rest, Fin, Bytes
        <5>4. \A i \in 1..Len(wire'[z]) : i \in 1..Len(wire[z]) \/ i = Len(wire[z]) + 1
          BY <1>01, <5>2
        <5> QED BY <1>0, <5>2, <5>3, <5>4 DEF Traced
      <4> QED BY <1>15, <4>1, <4>2, RestFacts
    <3>3. Backed(z)' /\ Traced(z)'
      BY <2>3, <3>1, <3>2 DEF Backed, Honest, Traced
    <3>4. Blamed(z)'
      BY <3>1 DEF Blamed, Causes
    <3> QED BY <3>3, <3>4
  <2> QED BY <2>4, <2>5
<1>16. ASSUME NEW s \in Sessions, ClientHangsUp(s) PROVE Backed(z)' /\ Traced(z)' /\ Blamed(z)'
  <2>1. /\ past' = [past EXCEPT ![s] = @ \cup {"hungup"}]
        /\ UNCHANGED <<batch, opening, place, open, requests, net>>
    BY <1>16 DEF ClientHangsUp, Note, epoll, queues
  <2>2. PICK q : q = Append(wire[s], Fin)
    OBVIOUS
  <2>3. Arrives(s, q)
    BY <1>16, <2>2 DEF ClientHangsUp
  <2>4. /\ Notices(z)' \in Nat /\ Notices(z)' <= Notices(z) + 1
        /\ Watched(z)' = Watched(z) /\ (~ Watched(z)' => Notices(z)' = 0)
        /\ z # s => wire'[z] = wire[z] /\ Notices(z)' = Notices(z)
        /\ z = s => wire'[z] = q
    BY <1>13, <2>1, <2>3
  <2>5. CASE z # s
    <3>1. past'[z] = past[z]
      BY <1>01, <2>1, <2>5
    <3> QED BY <1>0, <1>00, <2>1, <2>4, <2>5, <3>1, ReasonsKept
  <2>6. CASE z = s
    <3>1. past'[z] = past[z] \cup {"hungup"}
      BY <1>01, <2>1, <2>6
    <3>2. /\ Len(wire'[z]) = Len(wire[z]) + 1
          /\ \A i \in 1..Len(wire[z]) : wire'[z][i] = wire[z][i]
          /\ wire'[z][Len(wire[z]) + 1] = Fin
      <4>1. Fin \in Pieces
        BY PieceFacts
      <4>2. /\ Len(Append(wire[z], Fin)) = Len(wire[z]) + 1
            /\ \A i \in 1..Len(wire[z]) : Append(wire[z], Fin)[i] = wire[z][i]
            /\ Append(wire[z], Fin)[Len(wire[z]) + 1] = Fin
        BY <1>01, <4>1, AppendProperties
      <4>3. wire'[z] = Append(wire[z], Fin)
        BY <2>2, <2>4, <2>6
      <4> QED BY <4>2, <4>3
    <3>3. Fin.part = "whole" /\ Fin.op # "refused"
      BY DEF Fin, Bytes
    <3>4. \A i \in 1..Len(wire'[z]) : i \in 1..Len(wire[z]) \/ i = Len(wire[z]) + 1
      BY <1>01, <3>2
    <3>5. Traced(z)'
      BY <1>0, <3>1, <3>2, <3>3, <3>4 DEF Traced
    <3> QED BY <2>4, <3>1, <3>5 DEF Backed, Honest, Blamed, Causes
  <2> QED BY <2>5, <2>6
<1>17. ASSUME NEW t \in NetThreads, RefuseOpcode(t) PROVE Backed(z)' /\ Traced(z)' /\ Blamed(z)'
  <2>1. /\ net[t].at = "queue" /\ net' = [net EXCEPT ![t] = Idle] /\ net[t].p.op = "refused"
        /\ open' = [open EXCEPT ![net[t].s] = FALSE]
        /\ UNCHANGED <<ready, batch, requests, wire, past, opening, place>>
    BY <1>17 DEF RefuseOpcode, kernel, epoll
  <2>2. Idle # Receive(z) /\ net[t] # Receive(z) /\ Idle \in NetStates
    BY <2>1, StateMembers DEF Idle, Receive, At
  <2>3. Notices(z)' = Notices(z) - 0 + 0
    <3>1. /\ net' \in [NetThreads -> NetStates] /\ net'[t] = Idle
          /\ DifferAt(t, NetThreads, NetStates, net, net')
      BY <2>1, SetsAssumption DEF Types, DifferAt
    <3> QED BY <2>1, <2>2, <3>1, NoticesOfThread
  <2>4. PICK s \in Sessions, p \in Packets : net[t] = Queue(s, p) /\ net[t].s = s /\ net[t].p = p
    BY <2>1, StateFacts DEF Types
  <2>5. "malformed" \in past[s]
    BY <2>1, <2>4 DEF Tainted
  <2>6. open[z] /\ ~ open'[z] => past'[z] \cap Causes # {}
    <3>1. CASE z = s
      BY <2>1, <2>5, <3>1 DEF Causes
    <3>2. CASE z # s
      BY <1>01, <2>1, <2>4, <3>2
    <3> QED BY <3>1, <3>2
  <2>7. Watched(z) => Watched(z)'
    BY <2>1 DEF Watched
  <2> QED BY <1>0, <1>00, <2>1, <2>3, <2>6, <2>7, ReasonsKept
<1>18. ASSUME NEW s \in Sessions, NEW what \in {"unsent", "timeout"},
              Note(s, what), open' = [open EXCEPT ![s] = FALSE],
              UNCHANGED <<ready, batch, requests, net, wire, opening, place>>
       PROVE  Backed(z)' /\ Traced(z)' /\ Blamed(z)'
  <2>1. /\ z = s => past'[z] = past[z] \cup {what}
        /\ z # s => past'[z] = past[z] /\ open'[z] = open[z]
    BY <1>01, <1>18 DEF Note
  <2>2. open[z] /\ ~ open'[z] => past'[z] \cap Causes # {}
    <3>1. what \in Causes
      BY DEF Causes
    <3> QED BY <2>1, <3>1
  <2>3. Notices(z)' = Notices(z)
    BY <1>18, NoticesKept
  <2>4. Watched(z) => Watched(z)'
    BY <1>18 DEF Watched
  <2>5. past[z] \subseteq past'[z] /\ ("garbled" \in past'[z] => "garbled" \in past[z])
        /\ ("halfway" \in past'[z] => "halfway" \in past[z])
    BY <2>1
  <2>6. wire'[z] = wire[z]
    BY <1>18
  <2> QED BY <1>0, <1>00, <2>2, <2>3, <2>4, <2>5, <2>6, ReasonsKept
<1>19. ASSUME NEW t \in NetThreads, NEW s \in Sessions, SendFails(t, s)
       PROVE  Backed(z)' /\ Traced(z)' /\ Blamed(z)'
  BY <1>18, <1>19 DEF SendFails, kernel, epoll, queues
<1>20. ASSUME NEW s \in Sessions, LoginTimer(s) PROVE Backed(z)' /\ Traced(z)' /\ Blamed(z)'
  BY <1>18, <1>20 DEF LoginTimer, kernel, epoll, queues
<1> QED BY <1>2, <1>3, <1>4, <1>5, <1>6, <1>7, <1>8, <1>9, <1>10, <1>11, <1>12, <1>14, <1>15, <1>16,
           <1>17, <1>19, <1>20
        DEF Next, Epoll, MainEnds, Network, Client, Main, Worker

LEMMA TaintedInit == Init => Tainted
<1> SUFFICES ASSUME Init, NEW t \in NetThreads, NEW s \in Sessions, NEW p \in Packets
             PROVE  net[t] # Queue(s, p)
  BY DEF Tainted
<1>1. PICK T \in SUBSET NetThreads \ {{}} :
         net = [u \in NetThreads |-> IF u \in T THEN Idle ELSE [at |-> "off"]]
  BY DEF Init
<1> QED BY <1>1 DEF Queue, With, Idle

LEMMA TaintedStep == Types /\ Reasons /\ Tainted /\ [Next]_vars => Tainted'
<1> SUFFICES ASSUME Types, Reasons, Tainted, [Next]_vars,
                    NEW t \in NetThreads, NEW z \in Sessions, NEW p \in Packets,
                    net'[t] = Queue(z, p), p.op = "refused"
             PROVE  "malformed" \in past'[z]
  BY DEF Tainted, Queue, With
<1>1. /\ past \in [Sessions -> SUBSET Events] /\ wire[z] \in Seq(Pieces)
      /\ net \in [NetThreads -> NetStates]
  BY DEF Types
<1>2. ASSUME UNCHANGED net, past[z] \subseteq past'[z] PROVE "malformed" \in past'[z]
  BY <1>2 DEF Tainted
<1>3. ASSUME NEW u \in NetThreads, NEW x, net' = [net EXCEPT ![u] = x],
             \A s, q : x # Queue(s, q), UNCHANGED past
      PROVE  "malformed" \in past'[z]
  BY <1>1, <1>3 DEF Tainted
<1>4. CASE UNCHANGED vars
  BY <1>2, <1>4 DEF vars, queues
<1>5. CASE Epoll \/ OtherBegins \/ MainEnds
  <2>1. UNCHANGED net
    BY <1>5 DEF Epoll, OtherBegins, MainEnds, InsertEnds, EraseEnds, OtherEnds, EpollWait, Watch,
                QueueRecive, MainHandles, queues
  <2>2. past' = past \/ \E s, e : past' = [past EXCEPT ![s] = @ \cup {e}]
    BY <1>5, Zenon DEF Epoll, OtherBegins, MainEnds, InsertEnds, EraseEnds, OtherEnds, EpollWait, Watch,
                QueueRecive, MainHandles, Note
  <2> QED BY <1>1, <1>2, <2>1, <2>2
<1>6. ASSUME NEW s \in Sessions,
             Client(s) \/ Accept(s) \/ Main(s) \/ LoginTimer(s) \/ Worker(s)
      PROVE  "malformed" \in past'[z]
  <2>1. UNCHANGED net
    BY <1>6 DEF Client, Accept, Main, LoginTimer, Worker, ClientSends, RestArrives, ClientHangsUp,
                InsertBegins, Greet, MainTakes, EraseBegins, WorkerTakes, WorkerHandles, queues
  <2>2. CASE ClientSends(s)
    <3>1. past[s] \subseteq past'[s] /\ past' = [past EXCEPT ![s] = past'[s]]
      BY <2>2, SendFacts
    <3> QED BY <1>1, <1>2, <2>1, <3>1
  <2>3. CASE RestArrives(s)
    <3>1. past' = [past EXCEPT ![s] = past[s] \ {"halfway"}]
      BY <2>3, RestFacts
    <3>2. "malformed" \in past[z]
      BY <2>1 DEF Tainted
    <3> QED BY <1>1, <3>1, <3>2
  <2>4. CASE ClientHangsUp(s) \/ LoginTimer(s)
    <3>1. \E e : past' = [past EXCEPT ![s] = @ \cup {e}]
      BY <2>4, Zenon DEF ClientHangsUp, LoginTimer, Note
    <3> QED BY <1>1, <1>2, <2>1, <3>1
  <2>5. CASE Accept(s) \/ Main(s) \/ Worker(s)
    <3>1. past' = past
      BY <2>5 DEF Accept, Main, Worker, InsertBegins, Greet, MainTakes, EraseBegins, WorkerTakes,
                  WorkerHandles
    <3> QED BY <1>2, <2>1, <3>1
  <2> QED BY <1>6, <2>2, <2>3, <2>4, <2>5 DEF Client
<1>7. ASSUME NEW u \in NetThreads, GetNextSession(u) \/ QueuePacket(u) \/ RefuseOpcode(u)
      PROVE  "malformed" \in past'[z]
  <2>1. /\ net' = [net EXCEPT ![u] = Idle] \/ net' = [net EXCEPT ![u] = Receive(Head(requests))]
        /\ UNCHANGED past
    BY <1>7 DEF GetNextSession, QueuePacket, RefuseOpcode, Receive
  <2>2. \A s, q : Idle # Queue(s, q) /\ Receive(Head(requests)) # Queue(s, q)
    BY DEF Idle, Receive, At, Queue, With
  <2> QED BY <1>3, <2>1, <2>2
<1>8. ASSUME NEW u \in NetThreads, NEW s \in Sessions, SendFails(u, s)
      PROVE  "malformed" \in past'[z]
  <2>1. UNCHANGED net /\ past' = [past EXCEPT ![s] = @ \cup {"unsent"}]
    BY <1>8 DEF SendFails, Note, queues
  <2> QED BY <1>1, <1>2, <2>1
<1>9. ASSUME NEW u \in NetThreads, RecvPacketFromSocket(u) PROVE "malformed" \in past'[z]
  <2>1. PICK s \in Sessions : Received(u, s)
    BY <1>9, ReceiveFacts
  <2>2. past[z] \subseteq past'[z]
    BY <1>1, <2>1 DEF Received
  <2>3. CASE net' = [net EXCEPT ![u] = Idle]
    <3>1. net[t] = Queue(z, p)
      BY <1>1, <2>3 DEF Queue, With, Idle
    <3> QED BY <2>2, <3>1 DEF Tainted
  <2>4. CASE wire[s] # << >> /\ \E n \in 1..MaxPackets, op \in Ops :
                                    /\ Head(wire[s]) = Whole(n, op)
                                    /\ net' = [net EXCEPT ![u] = Queue(s, Packet(n, op))]
    <3>1. PICK n \in 1..MaxPackets, op \in Ops :
             /\ Head(wire[s]) = Whole(n, op)
             /\ net' = [net EXCEPT ![u] = Queue(s, Packet(n, op))]
      BY <2>4
    <3>2. CASE u # t
      BY <1>1, <2>2, <3>1, <3>2 DEF Tainted
    <3>3. CASE u = t
      <4>1. Queue(z, p) = Queue(s, Packet(n, op))
        BY <1>1, <3>1, <3>3
      <4>2. z = s /\ op = "refused"
        BY <4>1 DEF Queue, With, Packet
      <4>3. Head(wire[z]) = wire[z][1] /\ 1 \in 1..Len(wire[z])
        BY <1>1, <2>4, <4>2, HeadTailFacts
      <4>4. wire[z][1].op = "refused"
        BY <3>1, <4>2, <4>3 DEF Whole, Bytes
      <4>5. "malformed" \in past[z]
        BY <4>3, <4>4 DEF Reasons, Traced
      <4> QED BY <2>2, <4>5
    <3> QED BY <3>2, <3>3
  <2> QED BY <2>1, <2>3, <2>4 DEF Received
<1> QED BY <1>4, <1>5, <1>6, <1>7, <1>8, <1>9 DEF Next, Network

\* A session is closed only when its client has hung up, cut a packet in two or sent one
\* that is refused, when a handler or the login's timer says so, or when a packet could
\* not be sent: no network thread is ever asked to receive what is not there, however
\* many threads answer the events and whatever epoll reports late.
THEOREM ClosedForAReason == Spec => []OnlyClosedForAReason
<1>1. Reasons => OnlyClosedForAReason
  BY DEF Reasons, Blamed, OnlyClosedForAReason
<1> QED BY <1>1, TypesInit, TypesStep, ReasonsInit, ReasonsStep, TaintedInit, TaintedStep, PTL DEF Spec

-----------------------------------------------------------------------------
(* No packet is lost or handled twice.                                      *)

\* The pieces, packets and tasks that a packet's number appears in.
Sent(n) == {b \in Pieces : b.n = n}
Kept(n) == {p \in Packets : p.n = n}
Carried(s, n) == {x \in NetStates : \E p \in Kept(n) : x = Queue(s, p)}
MainOn(s, n) == {x \in MainStates : \E p \in Kept(n) : x = Handle(s, p)}
WorkOn(n) == {x \in WorkStates : \E s \in Sessions, p \in Kept(n) : x = Handle(s, p)}

Copies(s, n) ==
    HowMany(wire[s], Sent(n)) + HowMany(net, Carried(s, n)) + HowMany(recvq[s], Kept(n))
      + (IF main \in MainOn(s, n) THEN 1 ELSE 0) + (IF work[s] \in WorkOn(n) THEN 1 ELSE 0)
      + HowMany(handled[s], {n})

Sullied(s) == past[s] \cap {"split", "malformed"} # {}

Owned(s) == ~ Sullied(s) =>
                \A n \in 1..MaxPackets : Copies(s, n) = IF n <= sent[s] THEN 1 ELSE 0
Own == \A s \in Sessions : Owned(s)

LEMMA CopiesArePlaces ==
  ASSUME Types, NEW s \in Sessions, NEW n \in 1..MaxPackets
  PROVE  Copies(s, n) = Places(s, n)
<1>1. /\ wire[s] \in Seq(Pieces) /\ recvq[s] \in Seq(Packets) /\ handled[s] \in Seq(1..MaxPackets)
      /\ net \in [NetThreads -> NetStates] /\ main \in MainStates /\ work[s] \in WorkStates
  BY DEF Types
<1>2. Where(wire[s], Sent(n)) = {i \in DOMAIN wire[s] : wire[s][i].n = n}
  <2>1. \A i \in DOMAIN wire[s] : wire[s][i] \in Pieces
    BY <1>1, LenProperties, ElementOfSeq
  <2> QED BY <2>1 DEF Where, Sent
<1>3. Where(recvq[s], Kept(n)) = {i \in DOMAIN recvq[s] : recvq[s][i].n = n}
  <2>1. \A i \in DOMAIN recvq[s] : recvq[s][i] \in Packets
    BY <1>1, LenProperties, ElementOfSeq
  <2> QED BY <2>1 DEF Where, Kept
<1>4. Where(handled[s], {n}) = {i \in DOMAIN handled[s] : handled[s][i] = n}
  BY DEF Where
<1>5. Where(net, Carried(s, n))
         = {t \in NetThreads : net[t].at = "queue" /\ net[t].s = s /\ net[t].p.n = n}
  <2>1. \A t \in NetThreads :
           net[t] \in Carried(s, n) <=> net[t].at = "queue" /\ net[t].s = s /\ net[t].p.n = n
    <3> SUFFICES ASSUME NEW x \in NetStates
                 PROVE  x \in Carried(s, n) <=> x.at = "queue" /\ x.s = s /\ x.p.n = n
      BY <1>1
    <3>1. ASSUME x.at = "queue", x.s = s, x.p.n = n PROVE x \in Carried(s, n)
      <4>1. PICK p \in Packets : x = Queue(s, p) /\ x.p = p
        BY <3>1, StateFacts
      <4> QED BY <3>1, <4>1 DEF Carried, Kept
    <3>2. ASSUME NEW p \in Kept(n), x = Queue(s, p) PROVE x.at = "queue" /\ x.s = s /\ x.p.n = n
      BY <3>2 DEF Queue, With, Kept
    <3> QED BY <3>1, <3>2 DEF Carried
  <2>2. DOMAIN net = NetThreads
    BY <1>1
  <2> QED BY <2>1, <2>2 DEF Where
<1>6. main \in MainOn(s, n) <=> main.at = "handle" /\ main.s = s /\ main.p.n = n
  <2>1. ASSUME main.at = "handle", main.s = s, main.p.n = n PROVE main \in MainOn(s, n)
    <3>1. PICK p \in Packets : main = Handle(s, p) /\ main.p = p
      BY <1>1, <2>1, StateFacts
    <3> QED BY <1>1, <2>1, <3>1 DEF MainOn, Kept
  <2>2. ASSUME NEW p \in Kept(n), main = Handle(s, p)
        PROVE  main.at = "handle" /\ main.s = s /\ main.p.n = n
    BY <2>2 DEF Handle, With, Kept
  <2> QED BY <2>1, <2>2 DEF MainOn
<1>7. work[s] \in WorkOn(n) <=> work[s].at = "handle" /\ work[s].p.n = n
  <2>1. ASSUME work[s].at = "handle", work[s].p.n = n PROVE work[s] \in WorkOn(n)
    <3>1. PICK z \in Sessions, p \in Packets : work[s] = Handle(z, p) /\ work[s].p = p
      BY <1>1, <2>1, StateFacts
    <3> QED BY <1>1, <2>1, <3>1 DEF WorkOn, Kept
  <2>2. ASSUME NEW z \in Sessions, NEW p \in Kept(n), work[s] = Handle(z, p)
        PROVE  work[s].at = "handle" /\ work[s].p.n = n
    BY <2>2 DEF Handle, With, Kept
  <2> QED BY <2>1, <2>2 DEF WorkOn
<1> QED BY <1>2, <1>3, <1>4, <1>5, <1>6, <1>7 DEF Copies, Places, HowMany, Count

LEMMA CountsAreNumbers ==
  ASSUME Types, NEW s \in Sessions, NEW n
  PROVE  /\ HowMany(wire[s], Sent(n)) \in Nat /\ HowMany(net, Carried(s, n)) \in Nat
         /\ HowMany(recvq[s], Kept(n)) \in Nat /\ HowMany(handled[s], {n}) \in Nat
<1>1. /\ wire[s] \in Seq(Pieces) /\ recvq[s] \in Seq(Packets) /\ handled[s] \in Seq(1..MaxPackets)
      /\ net \in [NetThreads -> NetStates] /\ IsFiniteSet(NetThreads)
  BY SetsAssumption DEF Types
<1>2. HowMany(net, Carried(s, n)) \in Nat
  BY <1>1, HowManyThreads
<1> QED BY <1>1, <1>2, HowManyBounds

LEMMA OwnInit == Types /\ Init => Own
<1> SUFFICES ASSUME Types, Init, NEW s \in Sessions, NEW n \in 1..MaxPackets
             PROVE  Copies(s, n) = 0 /\ sent[s] = 0
  BY DEF Own, Owned
<1>1. wire[s] = << >> /\ recvq[s] = << >> /\ handled[s] = << >> /\ main = Idle /\ work[s] = Idle
      /\ sent[s] = 0
  BY DEF Init
<1>2. Idle \notin MainOn(s, n) /\ Idle \notin WorkOn(n) /\ Idle \notin Carried(s, n)
      /\ Off \notin Carried(s, n)
  BY DEF MainOn, WorkOn, Carried, Idle, Off, Handle, Queue, With
<1>3. HowMany(net, Carried(s, n)) = 0
  <2>1. PICK T \in SUBSET NetThreads \ {{}} :
           net = [t \in NetThreads |-> IF t \in T THEN Idle ELSE [at |-> "off"]]
    BY DEF Init
  <2>2. Where(net, Carried(s, n)) = {}
    BY <1>2, <2>1 DEF Where, Off
  <2> QED BY <2>2, FS_EmptySet DEF HowMany
<1> QED BY <1>1, <1>2, <1>3, HowManyEmpty DEF Copies

\* Who is not at work on a packet holds none.
LEMMA HoldsNothing ==
  ASSUME NEW s, NEW n, NEW x, x.at # "handle"
  PROVE  x \notin MainOn(s, n) /\ x \notin WorkOn(n)
BY DEF MainOn, WorkOn, Handle, With

\* Who is holds that one.
LEMMA HoldsOne ==
  ASSUME NEW s \in Sessions, NEW n, NEW z \in Sessions, NEW p \in Packets
  PROVE  /\ Handle(z, p) \in MainOn(s, n) <=> z = s /\ p.n = n
         /\ Handle(z, p) \in WorkOn(n) <=> p.n = n
         /\ Queue(z, p) \in Carried(s, n) <=> z = s /\ p.n = n
         /\ p \in Kept(n) <=> p.n = n
         /\ Idle \notin Carried(s, n) /\ Receive(z) \notin Carried(s, n)
<1>1. /\ Handle(z, p) \in WorkStates /\ Handle(z, p) \in MainStates /\ Queue(z, p) \in NetStates
  BY StateMembers
<1>2. p \in Kept(n) <=> p.n = n
  BY DEF Kept
<1>3. \A q, u : Handle(z, p) = Handle(u, q) <=> z = u /\ p = q
  BY DEF Handle, With
<1>4. \A q, u : Queue(z, p) = Queue(u, q) <=> z = u /\ p = q
  BY DEF Queue, With
<1>5. Handle(z, p) \in MainOn(s, n) <=> z = s /\ p.n = n
  BY <1>1, <1>2, <1>3 DEF MainOn
<1>6. Handle(z, p) \in WorkOn(n) <=> p.n = n
  BY <1>1, <1>2, <1>3 DEF WorkOn
<1>7. Queue(z, p) \in Carried(s, n) <=> z = s /\ p.n = n
  BY <1>1, <1>2, <1>4 DEF Carried
<1>8. Idle \notin Carried(s, n) /\ Receive(z) \notin Carried(s, n)
  BY DEF Carried, Idle, Receive, At, Queue, With
<1> QED BY <1>2, <1>5, <1>6, <1>7, <1>8

\* A network thread that turns from one state to another.
LEMMA CarriedByThread ==
  ASSUME NEW s, NEW n, NEW t, DifferAt(t, NetThreads, NetStates, net, net')
  PROVE  HowMany(net', Carried(s, n))
            = HowMany(net, Carried(s, n)) - (IF net[t] \in Carried(s, n) THEN 1 ELSE 0)
                + (IF net'[t] \in Carried(s, n) THEN 1 ELSE 0)
<1>1. PICK T, V, f, g, X :
         T = NetThreads /\ V = NetStates /\ f = net /\ g = net' /\ X = Carried(s, n)
  OBVIOUS
<1>2. DifferAt(t, T, V, f, g)
  BY <1>1
<1>3. HowMany(g, X) = HowMany(f, X) - (IF f[t] \in X THEN 1 ELSE 0) + (IF g[t] \in X THEN 1 ELSE 0)
  BY <1>2, HowManyChange
<1> QED BY <1>1, <1>3

LEMMA OwnStep == Types /\ Types' /\ Reasons /\ Tainted /\ Own /\ [Next]_vars => Own'
<1> SUFFICES ASSUME Types, Types', Reasons, Tainted, Own, [Next]_vars, NEW z \in Sessions,
                    ~ Sullied(z)', NEW n \in 1..MaxPackets
             PROVE  Copies(z, n)' = IF n <= sent'[z] THEN 1 ELSE 0
  BY DEF Own, Owned
<1> DEFINE W == HowMany(wire[z], Sent(n))
           N == HowMany(net, Carried(z, n))
           R == HowMany(recvq[z], Kept(n))
           M == IF main \in MainOn(z, n) THEN 1 ELSE 0
           K == IF work[z] \in WorkOn(n) THEN 1 ELSE 0
           H == HowMany(handled[z], {n})
           W1 == HowMany(wire'[z], Sent(n))
           N1 == HowMany(net', Carried(z, n))
           R1 == HowMany(recvq'[z], Kept(n))
           M1 == IF main' \in MainOn(z, n) THEN 1 ELSE 0
           K1 == IF work'[z] \in WorkOn(n) THEN 1 ELSE 0
           H1 == HowMany(handled'[z], {n})
<1>0. W \in Nat /\ N \in Nat /\ R \in Nat /\ M \in Nat /\ K \in Nat /\ H \in Nat
  BY CountsAreNumbers
<1>01. Copies(z, n) = W + N + R + M + K + H
  BY DEF Copies
<1>02. /\ Sent(n)' = Sent(n) /\ Kept(n)' = Kept(n) /\ Carried(z, n)' = Carried(z, n)
       /\ MainOn(z, n)' = MainOn(z, n) /\ WorkOn(n)' = WorkOn(n)
  <2>1. Pieces' = Pieces /\ Packets' = Packets
    BY DEF Pieces, Packets, Whole, First, Rest, Fin, Bytes, Ops
  <2>2. NetStates' = NetStates /\ WorkStates' = WorkStates /\ MainStates' = MainStates
    BY <2>1 DEF NetStates, WorkStates, MainStates, Idle, Off, Receive, Queue, Handle, At, With
  <2> QED BY <2>1, <2>2 DEF Sent, Kept, Carried, MainOn, WorkOn, Queue, Handle, With
<1>03. Copies(z, n)' = W1 + N1 + R1 + M1 + K1 + H1
  BY <1>02 DEF Copies
<1>04. ~ Sullied(z) => W + N + R + M + K + H = IF n <= sent[z] THEN 1 ELSE 0
  BY <1>01 DEF Own, Owned
<1>05. /\ wire \in [Sessions -> Seq(Pieces)] /\ net \in [NetThreads -> NetStates]
       /\ recvq \in [Sessions -> Seq(Packets)] /\ main \in MainStates
       /\ work \in [Sessions -> WorkStates] /\ handled \in [Sessions -> Seq(1..MaxPackets)]
       /\ past \in [Sessions -> SUBSET Events] /\ sent \in [Sessions -> 0..MaxPackets]
       /\ IsFiniteSet(NetThreads)
  BY SetsAssumption DEF Types
<1>06. Traced(z)
  BY DEF Reasons
<1>07. /\ wire'[z] = wire[z] => W1 = W
       /\ net' = net => N1 = N
       /\ recvq'[z] = recvq[z] => R1 = R
       /\ main' = main => M1 = M
       /\ work'[z] = work[z] => K1 = K
       /\ handled'[z] = handled[z] => H1 = H
  OBVIOUS
<1>08. /\ main.at # "handle" => M = 0
       /\ main'.at # "handle" => M1 = 0
       /\ work[z].at # "handle" => K = 0
       /\ work'[z].at # "handle" => K1 = 0
  BY HoldsNothing
<1> HIDE DEF W, N, R, M, K, H, W1, N1, R1, M1, K1, H1
<1>1. ASSUME W1 + N1 + R1 + M1 + K1 + H1 = W + N + R + M + K + H, sent'[z] = sent[z],
             past' = past \/ (Sullied(z) => Sullied(z)')
      PROVE  Copies(z, n)' = IF n <= sent'[z] THEN 1 ELSE 0
  <2>1. Sullied(z) => Sullied(z)'
    BY <1>1 DEF Sullied
  <2> QED BY <1>03, <1>04, <1>1, <2>1
<1>2. CASE UNCHANGED vars
  BY <1>1, <1>2, <1>07 DEF vars, kernel, epoll, queues, handlers
<1>3. CASE EpollWait \/ Watch \/ (\E s \in Sessions : Accept(s))
  BY <1>1, <1>3, <1>07 DEF EpollWait, Watch, Accept, kernel, epoll, queues, handlers
<1>4. CASE QueueRecive
  <2>1. UNCHANGED <<kernel, net, recvq, handlers>>
    BY <1>4 DEF QueueRecive
  <2>2. past' = past \/ past' = [past EXCEPT ![Head(batch)] = @ \cup {"missed"}]
    BY <1>4 DEF QueueRecive, Note
  <2>3. Sullied(z) => Sullied(z)'
    BY <1>05, <2>2 DEF Sullied
  <2> QED BY <1>1, <1>07, <2>1, <2>3 DEF kernel, handlers
<1>5. ASSUME UNCHANGED <<wire, net, recvq, work, handled, sent, past>>,
             main.at # "handle", main'.at # "handle"
      PROVE  Copies(z, n)' = IF n <= sent'[z] THEN 1 ELSE 0
  BY <1>1, <1>5, <1>07, <1>08
<1>6. CASE OtherBegins \/ OtherEnds \/ InsertEnds \/ EraseEnds
  <2>1. UNCHANGED <<wire, net, recvq, work, handled, sent, past>>
    BY <1>6 DEF OtherBegins, OtherEnds, InsertEnds, EraseEnds, kernel, queues
  <2>2. main.at # "handle" /\ main'.at # "handle"
    BY <1>6 DEF OtherBegins, OtherEnds, InsertEnds, EraseEnds, Idle, At
  <2> QED BY <1>5, <2>1, <2>2
<1>7. ASSUME NEW s \in Sessions, InsertBegins(s) \/ EraseBegins(s) \/ Greet(s)
      PROVE  Copies(z, n)' = IF n <= sent'[z] THEN 1 ELSE 0
  <2>1. UNCHANGED <<wire, net, recvq, work, handled, sent, past>>
    BY <1>7 DEF InsertBegins, EraseBegins, Greet, kernel, queues
  <2>2. main.at # "handle" /\ main'.at # "handle"
    BY <1>7 DEF InsertBegins, EraseBegins, Greet, Idle, At
  <2> QED BY <1>5, <2>1, <2>2
<1>8. ASSUME NEW s \in Sessions, ClientHangsUp(s) PROVE Copies(z, n)' = IF n <= sent'[z] THEN 1 ELSE 0
  <2>1. /\ wire' = [wire EXCEPT ![s] = Append(wire[s], Fin)]
        /\ past' = [past EXCEPT ![s] = @ \cup {"hungup"}]
        /\ UNCHANGED <<sent, queues, handlers>>
    BY <1>8 DEF ClientHangsUp, Note, Arrives
  <2>2. Fin \in Pieces /\ Fin \notin Sent(n)
    BY PieceFacts DEF Sent, Fin, Bytes
  <2>3. HowMany(Append(wire[z], Fin), Sent(n)) = W
    <3>1. wire[z] \in Seq(Pieces)
      BY <1>05
    <3>2. HowMany(Append(wire[z], Fin), Sent(n)) = HowMany(wire[z], Sent(n)) + 0
      BY <2>2, <3>1, HowManyAppend
    <3> QED BY <1>0, <3>2 DEF W
  <2>4. wire'[z] = wire[z] \/ wire'[z] = Append(wire[z], Fin)
    BY <1>05, <2>1
  <2>5. W1 = W
    BY <1>07, <2>3, <2>4 DEF W1
  <2>6. Sullied(z) => Sullied(z)'
    BY <1>05, <2>1 DEF Sullied
  <2> QED BY <1>1, <1>07, <2>1, <2>5, <2>6 DEF queues, handlers
<1>9. ASSUME NEW s \in Sessions, RestArrives(s) PROVE Copies(z, n)' = IF n <= sent'[z] THEN 1 ELSE 0
  <2>1. /\ "halfway" \in past[s]
        /\ past' = [past EXCEPT ![s] = past[s] \ {"halfway"}]
        /\ UNCHANGED <<sent, queues, handlers>>
    BY <1>9, RestFacts
  <2>2. Sullied(z) => Sullied(z)'
    BY <1>05, <2>1 DEF Sullied
  <2>3. z # s
    BY <1>06, <2>1, <2>2 DEF Traced, Sullied
  <2>4. PICK q : Arrives(s, q)
    BY <1>9, RestFacts
  <2>5. wire'[z] = wire[z]
    BY <1>05, <2>3, <2>4 DEF Arrives
  <2> QED BY <1>1, <1>07, <2>1, <2>2, <2>5 DEF queues, handlers
<1>10. ASSUME NEW s \in Sessions, ClientSends(s) PROVE Copies(z, n)' = IF n <= sent'[z] THEN 1 ELSE 0
  <2>1. PICK b \in Pieces :
           /\ \E op \in Ops : b = Whole(sent[s] + 1, op) \/ b = First(sent[s] + 1, op)
           /\ Arrives(s, Append(wire[s], b))
    BY <1>10, SendFacts
  <2>2. /\ sent[s] + 1 \in 1..MaxPackets /\ sent' = [sent EXCEPT ![s] = sent[s] + 1]
        /\ past[s] \subseteq past'[s] /\ past' = [past EXCEPT ![s] = past'[s]]
        /\ UNCHANGED <<queues, handlers>>
    BY <1>10, SendFacts
  <2>3. Sullied(z) => Sullied(z)'
    BY <1>05, <2>2 DEF Sullied
  <2>4. /\ N1 = N /\ R1 = R /\ M1 = M /\ K1 = K /\ H1 = H
    BY <1>07, <2>2 DEF queues, handlers
  <2>5. CASE z # s
    <3>1. wire'[z] = wire[z] /\ sent'[z] = sent[z]
      BY <1>05, <2>1, <2>2, <2>5 DEF Arrives
    <3> QED BY <1>1, <1>07, <2>3, <2>4, <3>1
  <2>6. CASE z = s
    <3>1. wire'[z] = Append(wire[z], b) /\ sent'[z] = sent[z] + 1 /\ wire[z] \in Seq(Pieces)
          /\ sent[z] \in Nat
      BY <1>05, <2>1, <2>2, <2>6, BoundsAssumption DEF Arrives
    <3>2. b \in Sent(n) <=> n = sent[z] + 1
      BY <2>1, <2>6 DEF Sent, Whole, First, Bytes
    <3>3. HowMany(Append(wire[z], b), Sent(n)) = HowMany(wire[z], Sent(n)) + (IF b \in Sent(n) THEN 1 ELSE 0)
      BY <3>1, HowManyAppend
    <3>4. W1 = W + (IF n = sent[z] + 1 THEN 1 ELSE 0)
      BY <3>1, <3>2, <3>3 DEF W, W1
    <3>5. W + N + R + M + K + H = IF n <= sent[z] THEN 1 ELSE 0
      BY <1>04, <2>3
    <3>6. CASE n = sent[z] + 1
      <4>1. W + N + R + M + K + H = 0
        BY <3>1, <3>5, <3>6
      <4>2. W1 = W + 1
        BY <3>4, <3>6
      <4>3. W1 + N1 + R1 + M1 + K1 + H1 = 1
        BY <1>0, <2>4, <4>1, <4>2
      <4>4. n <= sent'[z]
        BY <3>1, <3>6
      <4> QED BY <1>03, <4>3, <4>4
    <3>7. CASE n # sent[z] + 1
      <4>1. W1 = W
        BY <1>0, <3>4, <3>7
      <4>2. n <= sent[z] <=> n <= sent'[z]
        BY <3>1, <3>7
      <4> QED BY <1>03, <2>4, <3>5, <4>1, <4>2
    <3> QED BY <3>6, <3>7
  <2> QED BY <2>5, <2>6
<1>11. ASSUME NEW t \in NetThreads, NEW x \in NetStates, net' = [net EXCEPT ![t] = x]
       PROVE  N1 = N - (IF net[t] \in Carried(z, n) THEN 1 ELSE 0)
                     + (IF x \in Carried(z, n) THEN 1 ELSE 0)
  <2>1. DifferAt(t, NetThreads, NetStates, net, net') /\ net'[t] = x
    BY <1>05, <1>11 DEF DifferAt
  <2> HIDE <1>11
  <2>2. HowMany(net', Carried(z, n))
           = HowMany(net, Carried(z, n)) - (IF net[t] \in Carried(z, n) THEN 1 ELSE 0)
               + (IF net'[t] \in Carried(z, n) THEN 1 ELSE 0)
    BY <2>1, CarriedByThread
  <2> QED BY <2>1, <2>2 DEF N, N1
<1>12. ASSUME NEW t \in NetThreads, GetNextSession(t)
       PROVE  Copies(z, n)' = IF n <= sent'[z] THEN 1 ELSE 0
  <2>1. /\ net' = [net EXCEPT ![t] = Receive(Head(requests))] /\ net[t].at = "idle"
        /\ requests # << >>
        /\ UNCHANGED <<kernel, recvq, handlers, past>>
    BY <1>12 DEF GetNextSession, Receive
  <2>2. Head(requests) \in Sessions
    BY <2>1, HeadTailProperties DEF Types
  <2>3. Receive(Head(requests)) \in NetStates /\ Receive(Head(requests)) \notin Carried(z, n)
    BY <2>2, StateMembers DEF Carried, Receive, At, Queue, With
  <2>4. net[t] \notin Carried(z, n)
    BY <2>1 DEF Carried, Queue, With
  <2>5. N1 = N - 0 + 0
    BY <1>11, <2>1, <2>3, <2>4
  <2> QED BY <1>0, <1>1, <1>07, <2>1, <2>5 DEF kernel, handlers
<1>13. ASSUME NEW t \in NetThreads, QueuePacket(t)
       PROVE  Copies(z, n)' = IF n <= sent'[z] THEN 1 ELSE 0
  <2>1. PICK s \in Sessions, p \in Packets : net[t] = Queue(s, p) /\ net[t].s = s /\ net[t].p = p
    BY <1>13, <1>05, StateFacts DEF QueuePacket
  <2>2. /\ recvq' = [recvq EXCEPT ![s] = Append(@, p)]
        /\ net' = [net EXCEPT ![t] = Idle]
        /\ UNCHANGED <<kernel, handlers, past>>
    BY <1>13, <2>1 DEF QueuePacket
  <2>3. N1 = N - (IF z = s /\ p.n = n THEN 1 ELSE 0)
    <3>1. N1 = N - (IF net[t] \in Carried(z, n) THEN 1 ELSE 0) + 0
      <4>1. Idle \notin Carried(z, n) /\ Idle \in NetStates
        BY StateMembers DEF Carried, Idle, Queue, With
      <4> QED BY <1>11, <2>2, <4>1
    <3>2. net[t] \in Carried(z, n) <=> z = s /\ p.n = n
      BY <2>1, HoldsOne
    <3> QED BY <1>0, <3>1, <3>2
  <2>4. R1 = R + (IF z = s /\ p.n = n THEN 1 ELSE 0)
    <3>1. CASE z # s
      <4>1. recvq'[z] = recvq[z]
        BY <1>05, <2>2, <3>1
      <4> QED BY <1>0, <1>07, <3>1, <4>1
    <3>2. CASE z = s
      <4>1. recvq'[z] = Append(recvq[z], p) /\ recvq[z] \in Seq(Packets)
        BY <1>05, <2>2, <3>2
      <4>2. HowMany(Append(recvq[z], p), Kept(n))
               = HowMany(recvq[z], Kept(n)) + (IF p \in Kept(n) THEN 1 ELSE 0)
        BY <4>1, HowManyAppend
      <4>3. p \in Kept(n) <=> p.n = n
        BY HoldsOne
      <4> QED BY <3>2, <4>1, <4>2, <4>3 DEF R, R1
    <3> QED BY <3>1, <3>2
  <2>5. W1 = W /\ M1 = M /\ K1 = K /\ H1 = H /\ sent' = sent /\ past' = past
    BY <1>07, <2>2 DEF kernel, handlers
  <2>6. W1 + N1 + R1 + M1 + K1 + H1 = W + N + R + M + K + H
    <3>1. CASE z = s /\ p.n = n
      BY <1>0, <2>3, <2>4, <2>5, <3>1
    <3>2. CASE ~ (z = s /\ p.n = n)
      BY <1>0, <2>3, <2>4, <2>5, <3>2
    <3> QED BY <3>1, <3>2
  <2> QED BY <1>1, <2>5, <2>6
<1>14. ASSUME NEW t \in NetThreads, RecvPacketFromSocket(t)
       PROVE  Copies(z, n)' = IF n <= sent'[z] THEN 1 ELSE 0
  <2>1. PICK s \in Sessions : Received(t, s)
    BY <1>14, ReceiveFacts
  <2>2. net[t] = Receive(s) /\ UNCHANGED <<sent, recvq, handlers>> /\ Receive(s) \notin Carried(z, n)
    BY <2>1 DEF Received, Carried, Receive, At, Queue, With
  <2>3. R1 = R /\ M1 = M /\ K1 = K /\ H1 = H
    BY <1>07, <2>2 DEF handlers
  <2>4. Sullied(z) => Sullied(z)'
    <3>1. past[z] \subseteq past'[z]
      BY <1>05, <2>1, ZenonT(60) DEF Received
    <3> QED BY <3>1 DEF Sullied
  <2>5. ASSUME net' = [net EXCEPT ![t] = Idle] PROVE N1 = N
    <3>1. N1 = N - 0 + 0
      BY <1>11, <2>2, <2>5, StateMembers DEF Carried, Idle, Queue, With
    <3> QED BY <1>0, <3>1
  <2>6. CASE net' = [net EXCEPT ![t] = Idle] /\ wire' = wire
    BY <1>1, <1>07, <2>2, <2>3, <2>4, <2>5, <2>6
  <2>7. CASE /\ net' = [net EXCEPT ![t] = Idle]
             /\ wire[s] # << >>
             /\ \/ "garbled" \in past[s] \/ Head(wire[s]).part # "whole"
                \/ Head(wire[s]).op = "refused"
             /\ wire' = [wire EXCEPT ![s] = Tail(wire[s])]
    <3>1. z # s
      <4>1. wire[z] # << >> => Head(wire[z]) = wire[z][1] /\ 1 \in 1..Len(wire[z])
        BY HeadTailFacts
      <4> QED BY <1>06, <2>4, <2>7, <4>1 DEF Traced, Sullied
    <3>2. wire'[z] = wire[z]
      BY <1>05, <2>7, <3>1
    <3> QED BY <1>1, <1>07, <2>2, <2>3, <2>4, <2>5, <2>7, <3>2
  <2>8. ASSUME wire[s] # << >>, wire' = [wire EXCEPT ![s] = Tail(wire[s])],
               NEW m \in 1..MaxPackets, NEW op \in Ops, Head(wire[s]) = Whole(m, op),
               net' = [net EXCEPT ![t] = Queue(s, Packet(m, op))]
        PROVE  Copies(z, n)' = IF n <= sent'[z] THEN 1 ELSE 0
    <3>1. Packet(m, op) \in Packets /\ Packet(m, op).n = m
      BY DEF Packet, Packets
    <3>2. Queue(s, Packet(m, op)) \in NetStates
          /\ (Queue(s, Packet(m, op)) \in Carried(z, n) <=> z = s /\ m = n)
      BY <3>1, HoldsOne, StateMembers
    <3>3. N1 = N + (IF z = s /\ m = n THEN 1 ELSE 0)
      <4>1. N1 = N - 0 + (IF Queue(s, Packet(m, op)) \in Carried(z, n) THEN 1 ELSE 0)
        BY <1>11, <2>2, <2>8, <3>2
      <4> QED BY <1>0, <3>2, <4>1
    <3>4. W = W1 + (IF z = s /\ m = n THEN 1 ELSE 0)
      <4>1. CASE z # s
        <5>1. wire'[z] = wire[z]
          BY <1>05, <2>8, <4>1
        <5> QED BY <1>0, <1>07, <4>1, <5>1
      <4>2. CASE z = s
        <5>1. wire'[z] = Tail(wire[z]) /\ wire[z] \in Seq(Pieces) /\ wire[z] # << >>
          BY <1>05, <2>8, <4>2
        <5>2. HowMany(wire[z], Sent(n))
                 = HowMany(Tail(wire[z]), Sent(n)) + (IF Head(wire[z]) \in Sent(n) THEN 1 ELSE 0)
          BY <5>1, HowManyTail
        <5>3. Head(wire[z]) \in Sent(n) <=> m = n
          BY <2>8, <4>2, PieceFacts, SMTT(30) DEF Sent, Whole, Bytes
        <5> QED BY <4>2, <5>1, <5>2, <5>3 DEF W, W1
      <4> QED BY <4>1, <4>2
    <3>5. W1 \in Nat
      <4>1. wire'[z] \in Seq(Pieces)
        BY DEF Types
      <4> QED BY <4>1, HowManyBounds DEF W1
    <3>6. W1 + N1 + R1 + M1 + K1 + H1 = W + N + R + M + K + H
      <4>1. CASE z = s /\ m = n
        BY <1>0, <2>3, <3>3, <3>4, <3>5, <4>1
      <4>2. CASE ~ (z = s /\ m = n)
        BY <1>0, <2>3, <3>3, <3>4, <3>5, <4>2
      <4> QED BY <4>1, <4>2
    <3> QED BY <1>1, <2>2, <2>4, <3>6
  <2> QED BY <2>1, <2>6, <2>7, <2>8 DEF Received
<1>15. ASSUME NEW s \in Sessions, recvq[s] # << >>, recvq' = [recvq EXCEPT ![s] = Tail(@)]
       PROVE  /\ R = R1 + (IF z = s /\ Head(recvq[s]).n = n THEN 1 ELSE 0)
              /\ R1 \in Nat /\ Head(recvq[s]) \in Packets
  <2>1. Head(recvq[s]) \in Packets
    BY <1>15, HeadTailFacts
  <2>2. R1 \in Nat
    <3>1. recvq'[z] \in Seq(Packets)
      BY DEF Types
    <3> QED BY <3>1, HowManyBounds DEF R1
  <2>3. CASE z # s
    <3>1. recvq'[z] = recvq[z]
      BY <1>05, <1>15, <2>3
    <3> QED BY <1>0, <1>07, <2>1, <2>2, <2>3, <3>1
  <2>4. CASE z = s
    <3>1. recvq'[z] = Tail(recvq[z]) /\ recvq[z] \in Seq(Packets) /\ recvq[z] # << >>
      BY <1>05, <1>15, <2>4
    <3>2. HowMany(recvq[z], Kept(n))
             = HowMany(Tail(recvq[z]), Kept(n)) + (IF Head(recvq[z]) \in Kept(n) THEN 1 ELSE 0)
      BY <3>1, HowManyTail
    <3>3. Head(recvq[z]) \in Kept(n) <=> Head(recvq[z]).n = n
      BY <2>1, <2>4 DEF Kept
    <3>4. R = R1 + (IF Head(recvq[z]).n = n THEN 1 ELSE 0)
      BY <3>1, <3>2, <3>3 DEF R, R1
    <3> QED BY <2>1, <2>2, <2>4, <3>4
  <2> QED BY <2>3, <2>4
<1>16. ASSUME NEW s \in Sessions, NEW p \in Packets, handled' = [handled EXCEPT ![s] = Append(@, p.n)]
       PROVE  H1 = H + (IF z = s /\ p.n = n THEN 1 ELSE 0)
  <2>1. CASE z # s
    <3>1. handled'[z] = handled[z]
      BY <1>05, <1>16, <2>1
    <3> QED BY <1>0, <1>07, <2>1, <3>1
  <2>2. CASE z = s
    <3>1. handled'[z] = Append(handled[z], p.n) /\ handled[z] \in Seq(1..MaxPackets)
          /\ p.n \in 1..MaxPackets
      BY <1>05, <1>16, <2>2 DEF Packets
    <3>2. PICK X : X = {n}
      OBVIOUS
    <3>3. HowMany(Append(handled[z], p.n), X)
             = HowMany(handled[z], X) + (IF p.n \in X THEN 1 ELSE 0)
      <4>1. PICK S : S = 1..MaxPackets
        OBVIOUS
      <4>2. handled[z] \in Seq(S) /\ p.n \in S
        BY <3>1, <4>1
      <4> QED BY <4>2, HowManyAppend
    <3> QED BY <2>2, <3>1, <3>2, <3>3 DEF H, H1
  <2> QED BY <2>1, <2>2
<1>17. ASSUME NEW s \in Sessions, MainTakes(s)
       PROVE  Copies(z, n)' = IF n <= sent'[z] THEN 1 ELSE 0
  <2>1. /\ recvq[s] # << >> /\ main = Idle /\ main' = Handle(s, Head(recvq[s]))
        /\ recvq' = [recvq EXCEPT ![s] = Tail(@)]
        /\ UNCHANGED <<kernel, net, work, handled, past>>
    BY <1>17 DEF MainTakes, Handle
  <2>2. /\ R = R1 + (IF z = s /\ Head(recvq[s]).n = n THEN 1 ELSE 0)
        /\ R1 \in Nat /\ Head(recvq[s]) \in Packets
    BY <1>15, <2>1
  <2>3. M = 0
    BY <1>08, <2>1 DEF Idle
  <2>4. M1 = IF z = s /\ Head(recvq[s]).n = n THEN 1 ELSE 0
    <3>1. PICK p \in Packets : p = Head(recvq[s])
      BY <2>2
    <3>2. Handle(s, p) \in MainOn(z, n) <=> z = s /\ p.n = n
      BY <3>1, HoldsOne
    <3>3. M1 = IF z = s /\ p.n = n THEN 1 ELSE 0
      BY <2>1, <3>1, <3>2 DEF M1
    <3> QED BY <3>1, <3>3
  <2>5. W1 = W /\ N1 = N /\ K1 = K /\ H1 = H /\ sent' = sent /\ past' = past
    BY <1>07, <2>1 DEF kernel
  <2>6. W1 + N1 + R1 + M1 + K1 + H1 = W + N + R + M + K + H
    <3>1. CASE z = s /\ Head(recvq[s]).n = n
      BY <1>0, <2>2, <2>3, <2>4, <2>5, <3>1
    <3>2. CASE ~ (z = s /\ Head(recvq[s]).n = n)
      BY <1>0, <2>2, <2>3, <2>4, <2>5, <3>2
    <3> QED BY <3>1, <3>2
  <2> QED BY <1>1, <2>5, <2>6
<1>18. CASE MainHandles
  <2>1. PICK s \in Sessions, p \in Packets : main = Handle(s, p) /\ main.s = s /\ main.p = p
    BY <1>18, <1>05, StateFacts DEF MainHandles
  <2>2. /\ handled' = [handled EXCEPT ![s] = Append(@, p.n)]
        /\ main' = Idle
        /\ UNCHANGED <<kernel, queues, work>>
    BY <1>18, <2>1 DEF MainHandles
  <2>3. past' = past \/ past' = [past EXCEPT ![s] = @ \cup {"kicked"}]
    BY <1>18, <2>1 DEF MainHandles, Note
  <2>4. Sullied(z) => Sullied(z)'
    BY <1>05, <2>3 DEF Sullied
  <2>5. M1 = 0
    BY <1>08, <2>2 DEF Idle
  <2>6. M = IF z = s /\ p.n = n THEN 1 ELSE 0
    BY <2>1, HoldsOne DEF M
  <2>7. H1 = H + (IF z = s /\ p.n = n THEN 1 ELSE 0)
    BY <1>16, <2>2
  <2>8. W1 = W /\ N1 = N /\ R1 = R /\ K1 = K /\ sent' = sent
    BY <1>07, <2>2 DEF kernel, queues
  <2>9. W1 + N1 + R1 + M1 + K1 + H1 = W + N + R + M + K + H
    <3>1. CASE z = s /\ p.n = n
      BY <1>0, <2>5, <2>6, <2>7, <2>8, <3>1
    <3>2. CASE ~ (z = s /\ p.n = n)
      BY <1>0, <2>5, <2>6, <2>7, <2>8, <3>2
    <3> QED BY <3>1, <3>2
  <2> QED BY <1>1, <2>4, <2>8, <2>9
<1>19. ASSUME NEW s \in Sessions, WorkerTakes(s)
       PROVE  Copies(z, n)' = IF n <= sent'[z] THEN 1 ELSE 0
  <2>1. /\ recvq[s] # << >> /\ work[s] = Idle /\ work' = [work EXCEPT ![s] = Handle(s, Head(recvq[s]))]
        /\ recvq' = [recvq EXCEPT ![s] = Tail(@)]
        /\ UNCHANGED <<kernel, net, main, handled, past>>
    BY <1>19 DEF WorkerTakes, Handle
  <2>2. /\ R = R1 + (IF z = s /\ Head(recvq[s]).n = n THEN 1 ELSE 0)
        /\ R1 \in Nat /\ Head(recvq[s]) \in Packets
    BY <1>15, <2>1
  <2>3. CASE z # s
    <3>1. K1 = K /\ R = R1
      BY <1>0, <1>05, <1>07, <2>1, <2>2, <2>3
    <3> QED BY <1>1, <1>07, <2>1, <3>1 DEF kernel
  <2>4. CASE z = s
    <3>1. K = 0
      BY <1>08, <2>1, <2>4 DEF Idle
    <3>2. K1 = IF Head(recvq[s]).n = n THEN 1 ELSE 0
      <4>1. work'[z] = Handle(s, Head(recvq[s]))
        BY <1>05, <2>1, <2>4
      <4> QED BY <2>2, <4>1, HoldsOne DEF K1
    <3>3. W1 = W /\ N1 = N /\ M1 = M /\ H1 = H /\ sent' = sent /\ past' = past
      BY <1>07, <2>1 DEF kernel
    <3>4. W1 + N1 + R1 + M1 + K1 + H1 = W + N + R + M + K + H
      <4>1. CASE Head(recvq[s]).n = n
        BY <1>0, <2>2, <2>4, <3>1, <3>2, <3>3, <4>1
      <4>2. CASE Head(recvq[s]).n # n
        BY <1>0, <2>2, <2>4, <3>1, <3>2, <3>3, <4>2
      <4> QED BY <4>1, <4>2
    <3> QED BY <1>1, <3>3, <3>4
  <2> QED BY <2>3, <2>4
<1>20. ASSUME NEW s \in Sessions, WorkerHandles(s)
       PROVE  Copies(z, n)' = IF n <= sent'[z] THEN 1 ELSE 0
  <2>1. PICK u \in Sessions, p \in Packets : work[s] = Handle(u, p) /\ work[s].p = p
    BY <1>20, <1>05, StateFacts DEF WorkerHandles
  <2>2. /\ handled' = [handled EXCEPT ![s] = Append(@, p.n)]
        /\ work' = [work EXCEPT ![s] = Idle]
        /\ UNCHANGED <<kernel, queues, main, past>>
    BY <1>20, <2>1 DEF WorkerHandles
  <2>3. H1 = H + (IF z = s /\ p.n = n THEN 1 ELSE 0)
    BY <1>16, <2>2
  <2>4. W1 = W /\ N1 = N /\ R1 = R /\ M1 = M /\ sent' = sent /\ past' = past
    BY <1>07, <2>2 DEF kernel, queues
  <2>5. CASE z # s
    <3>1. K1 = K /\ H1 = H
      BY <1>0, <1>05, <1>07, <2>2, <2>3, <2>5
    <3> QED BY <1>1, <2>4, <3>1
  <2>6. CASE z = s
    <3>1. K = IF p.n = n THEN 1 ELSE 0
      BY <2>1, <2>6, HoldsOne DEF K
    <3>2. K1 = 0
      <4>1. work'[z] = Idle
        BY <1>05, <2>2, <2>6
      <4> QED BY <1>08, <4>1 DEF Idle
    <3>3. W1 + N1 + R1 + M1 + K1 + H1 = W + N + R + M + K + H
      <4>1. CASE p.n = n
        BY <1>0, <2>3, <2>4, <2>6, <3>1, <3>2, <4>1
      <4>2. CASE p.n # n
        BY <1>0, <2>3, <2>4, <2>6, <3>1, <3>2, <4>2
      <4> QED BY <4>1, <4>2
    <3> QED BY <1>1, <2>4, <3>3
  <2> QED BY <2>5, <2>6
<1>21. ASSUME NEW t \in NetThreads, RefuseOpcode(t)
       PROVE  Copies(z, n)' = IF n <= sent'[z] THEN 1 ELSE 0
  <2>1. PICK s \in Sessions, p \in Packets : net[t] = Queue(s, p) /\ net[t].s = s /\ net[t].p = p
    BY <1>21, <1>05, StateFacts DEF RefuseOpcode
  <2>2. /\ net' = [net EXCEPT ![t] = Idle] /\ p.op = "refused"
        /\ UNCHANGED <<kernel, recvq, handlers, past>>
    BY <1>21, <2>1 DEF RefuseOpcode
  <2>3. "malformed" \in past[s]
    BY <2>1, <2>2 DEF Tainted
  <2>4. z # s
    BY <2>2, <2>3 DEF Sullied
  <2>5. net[t] \notin Carried(z, n) /\ Idle \notin Carried(z, n)
    BY <2>1, <2>4, HoldsOne
  <2>6. N1 = N - 0 + 0
    BY <1>11, <2>2, <2>5, StateMembers
  <2> QED BY <1>0, <1>1, <1>07, <2>2, <2>6 DEF kernel, handlers, Sullied
<1>22. ASSUME NEW s \in Sessions, NEW what, Note(s, what), UNCHANGED <<kernel, queues, handlers>>
       PROVE  Copies(z, n)' = IF n <= sent'[z] THEN 1 ELSE 0
  <2>1. Sullied(z) => Sullied(z)'
    BY <1>05, <1>22 DEF Note, Sullied
  <2> QED BY <1>1, <1>07, <1>22, <2>1 DEF kernel, queues, handlers
<1>23. ASSUME NEW t \in NetThreads, NEW s \in Sessions, SendFails(t, s)
       PROVE  Copies(z, n)' = IF n <= sent'[z] THEN 1 ELSE 0
  BY <1>22, <1>23 DEF SendFails
<1>24. ASSUME NEW s \in Sessions, LoginTimer(s) PROVE Copies(z, n)' = IF n <= sent'[z] THEN 1 ELSE 0
  BY <1>22, <1>24 DEF LoginTimer
<1> QED BY <1>2, <1>3, <1>4, <1>6, <1>7, <1>8, <1>9, <1>10, <1>12, <1>13, <1>14, <1>17, <1>18, <1>19, <1>20,
           <1>21, <1>23, <1>24
        DEF Next, Epoll, MainEnds, Network, Client, Main, Worker

\* A packet that was sent whole is in exactly one place, whichever threads pass it on:
\* two network threads, the main thread and the workers lose none and handle none twice.
THEOREM NoneLostNoneTwice == Spec => []InOnePlace
<1>1. Types /\ Own => InOnePlace
  <2> SUFFICES ASSUME Types, Own, NEW s \in Sessions, ~ Sullied(s), NEW n \in 1..sent[s]
               PROVE  Places(s, n) = 1
    BY DEF InOnePlace, Sullied
  <2>1. sent[s] \in 0..MaxPackets
    BY DEF Types
  <2>2. n \in 1..MaxPackets /\ n <= sent[s]
    BY <2>1, BoundsAssumption
  <2>3. Copies(s, n) = 1
    BY <2>2 DEF Own, Owned
  <2> QED BY <2>2, <2>3, CopiesArePlaces
<1> QED BY <1>1, TypesInit, TypesStep, ReasonsInit, ReasonsStep, TaintedInit, TaintedStep,
           OwnInit, OwnStep, PTL DEF Spec

-----------------------------------------------------------------------------
(* Order.  With one network thread a packet passes four stages: the wire,   *)
(* the thread's hands, the session's queue, its handler.  Whatever is       *)
(* further ahead was sent earlier.                                          *)

\* Among pieces or packets, one with number m that is the start of a packet.
Has(q, m) == \E i \in 1..Len(q) : q[i].op \in Ops /\ q[i].n = m
Sorted(q) == \A i, j \in 1..Len(q) :
                i < j /\ q[i].op \in Ops /\ q[j].op \in Ops => q[i].n < q[j].n

Coming(s, m) == Has(wire[s], m)
InNet(s, m) == \E t \in NetThreads : net[t] \in Carried(s, m)
Queued(s, m) == Has(recvq[s], m)
Passed(s, m) == \/ \E i \in 1..Len(handled[s]) : handled[s][i] = m
                \/ main \in MainOn(s, m)
                \/ work[s] \in WorkOn(m)

Ahead(s, a, b) ==
    \/ Passed(s, a) /\ (Queued(s, b) \/ InNet(s, b) \/ Coming(s, b))
    \/ Queued(s, a) /\ (InNet(s, b) \/ Coming(s, b))
    \/ InNet(s, a) /\ Coming(s, b)

Ordered(s) ==
    /\ \A a, b \in 0..MaxPackets : Ahead(s, a, b) => a < b
    /\ \A a \in 0..MaxPackets :
          Passed(s, a) \/ Queued(s, a) \/ InNet(s, a) \/ Coming(s, a) => a <= sent[s]
    /\ Sorted(wire[s]) /\ Sorted(recvq[s])

Order == SingleThread => \A s \in Sessions : Ordered(s)

LEMMA HasAppend ==
  ASSUME NEW S, NEW q \in Seq(S), NEW e \in S
  PROVE  /\ \A m : Has(Append(q, e), m) <=> Has(q, m) \/ (e.op \in Ops /\ m = e.n)
         /\ Sorted(q) /\ (\A m : e.op \in Ops /\ Has(q, m) => m < e.n) => Sorted(Append(q, e))
<1> DEFINE r == Append(q, e)
<1>1. /\ Len(q) \in Nat /\ Len(r) = Len(q) + 1
      /\ \A i \in 1..Len(q) : r[i] = q[i]
      /\ r[Len(q) + 1] = e
  BY LenProperties, AppendProperties
<1> HIDE DEF r
<1>2. \A i \in 1..Len(r) : i \in 1..Len(q) \/ i = Len(q) + 1
  BY <1>1
<1>3. Len(q) + 1 \in 1..Len(r) /\ \A i \in 1..Len(q) : i \in 1..Len(r)
  BY <1>1
<1>4. \A m : Has(r, m) <=> Has(q, m) \/ (e.op \in Ops /\ m = e.n)
  BY <1>1, <1>2, <1>3 DEF Has
<1>5. ASSUME Sorted(q), \A m : e.op \in Ops /\ Has(q, m) => m < e.n,
             NEW i \in 1..Len(r), NEW j \in 1..Len(r), i < j, r[i].op \in Ops, r[j].op \in Ops
      PROVE  r[i].n < r[j].n
  <2>1. i \in 1..Len(q)
    BY <1>1, <1>2, <1>5
  <2>2. CASE j \in 1..Len(q)
    BY <1>1, <1>5, <2>1, <2>2 DEF Sorted
  <2>3. CASE j = Len(q) + 1
    <3>1. r[j] = e /\ r[i] = q[i]
      BY <1>1, <2>1, <2>3
    <3>2. Has(q, q[i].n)
      BY <1>5, <2>1, <3>1 DEF Has
    <3> QED BY <1>5, <3>1, <3>2
  <2> QED BY <1>2, <2>2, <2>3
<1>6. Sorted(q) /\ (\A m : e.op \in Ops /\ Has(q, m) => m < e.n) => Sorted(r)
  BY <1>5 DEF Sorted
<1> QED BY <1>4, <1>6 DEF r

LEMMA HasTail ==
  ASSUME NEW S, NEW q \in Seq(S), q # << >>
  PROVE  /\ \A m : Has(Tail(q), m) => Has(q, m)
         /\ Head(q).op \in Ops => Has(q, Head(q).n)
         /\ Sorted(q) => /\ Sorted(Tail(q))
                         /\ \A m : Has(Tail(q), m) /\ Head(q).op \in Ops => Head(q).n < m
<1> DEFINE r == Tail(q)
<1>1. /\ Len(q) \in Nat \ {0} /\ Len(r) = Len(q) - 1
      /\ \A i \in 1..Len(r) : r[i] = q[i + 1]
      /\ Head(q) = q[1]
  BY LenProperties, EmptySeq, HeadTailProperties
<1> HIDE DEF r
<1>2. 1 \in 1..Len(q) /\ \A i \in 1..Len(r) : i + 1 \in 1..Len(q) /\ 1 < i + 1
  BY <1>1
<1>3. \A m : Has(r, m) => Has(q, m)
  BY <1>1, <1>2 DEF Has
<1>4. Head(q).op \in Ops => Has(q, Head(q).n)
  BY <1>1, <1>2 DEF Has
<1>5. ASSUME Sorted(q) PROVE Sorted(r)
  <2> SUFFICES ASSUME NEW i \in 1..Len(r), NEW j \in 1..Len(r), i < j, r[i].op \in Ops, r[j].op \in Ops
               PROVE  r[i].n < r[j].n
    BY DEF Sorted
  <2>1. i + 1 < j + 1 /\ i + 1 \in 1..Len(q) /\ j + 1 \in 1..Len(q)
    BY <1>1, <1>2
  <2>2. r[i] = q[i + 1] /\ r[j] = q[j + 1]
    BY <1>1
  <2> QED BY <1>5, <2>1, <2>2 DEF Sorted
<1>6. ASSUME Sorted(q), NEW m, Has(r, m), Head(q).op \in Ops PROVE Head(q).n < m
  <2>1. PICK i \in 1..Len(r) : r[i].op \in Ops /\ r[i].n = m
    BY <1>6 DEF Has
  <2>2. q[i + 1].op \in Ops /\ q[i + 1].n = m /\ i + 1 \in 1..Len(q) /\ 1 < i + 1
    BY <1>1, <1>2, <2>1
  <2> QED BY <1>1, <1>2, <1>6, <2>2 DEF Sorted
<1> QED BY <1>3, <1>4, <1>5, <1>6 DEF r

LEMMA OrderInit == Init => Order
<1> SUFFICES ASSUME Init, NEW s \in Sessions PROVE Ordered(s)
  BY DEF Order
<1>1. wire[s] = << >> /\ recvq[s] = << >> /\ handled[s] = << >> /\ main = Idle /\ work[s] = Idle
  BY DEF Init
<1>2. \A m : ~ Has(<< >>, m)
  BY DEF Has
<1>3. Sorted(<< >>)
  BY DEF Sorted
<1>4. \A m : ~ Passed(s, m)
  BY <1>1, HoldsNothing DEF Passed, Idle
<1>5. \A m : ~ InNet(s, m)
  <2>1. PICK T \in SUBSET NetThreads \ {{}} :
           net = [t \in NetThreads |-> IF t \in T THEN Idle ELSE [at |-> "off"]]
    BY DEF Init
  <2>2. \A t \in NetThreads : net[t].at # "queue"
    BY <2>1 DEF Idle
  <2> QED BY <2>2 DEF InNet, Carried, Queue, With
<1> QED BY <1>1, <1>2, <1>3, <1>4, <1>5 DEF Ordered, Ahead, Coming, Queued

LEMMA NumbersFacts ==
  ASSUME Types, NEW s \in Sessions, NEW m
  PROVE  Passed(s, m) \/ Queued(s, m) \/ InNet(s, m) \/ Coming(s, m) => m \in 0..MaxPackets
<1>1. /\ wire[s] \in Seq(Pieces) /\ recvq[s] \in Seq(Packets) /\ handled[s] \in Seq(1..MaxPackets)
  BY DEF Types
<1>2. \A p \in Packets : p.n \in 0..MaxPackets
  BY BoundsAssumption DEF Packets
<1>3. Coming(s, m) => m \in 0..MaxPackets
  BY <1>1, PieceFacts, ElementOfSeq, ZenonT(60) DEF Coming, Has
<1>4. Queued(s, m) => m \in 0..MaxPackets
  BY <1>1, <1>2, ElementOfSeq DEF Queued, Has
<1>5. InNet(s, m) => m \in 0..MaxPackets
  BY <1>2 DEF InNet, Carried, Kept
<1>6. Passed(s, m) => m \in 0..MaxPackets
  <2>1. \A i \in 1..Len(handled[s]) : handled[s][i] \in 0..MaxPackets
    BY <1>1, ElementOfSeq, BoundsAssumption
  <2> QED BY <1>2, <2>1 DEF Passed, MainOn, WorkOn, Kept
<1> QED BY <1>3, <1>4, <1>5, <1>6

LEMMA OrderedKept ==
  ASSUME NEW s, Ordered(s), sent'[s] = sent[s],
         \A m : Passed(s, m)' => Passed(s, m),
         \A m : Queued(s, m)' => Queued(s, m),
         \A m : InNet(s, m)' => InNet(s, m),
         \A m : Coming(s, m)' => Coming(s, m),
         Sorted(wire[s]) => Sorted(wire'[s]),
         Sorted(recvq[s]) => Sorted(recvq'[s])
  PROVE  Ordered(s)'
<1>1. Sorted(wire[s])' /\ Sorted(recvq[s])'
  BY DEF Ordered, Sorted, Ops
<1>2. \A a, b : Ahead(s, a, b)' => Ahead(s, a, b)
  BY DEF Ahead
<1> QED BY <1>1, <1>2 DEF Ordered

LEMMA OrderStep == Types /\ Types' /\ Reasons /\ Order /\ [Next]_vars => Order'
<1> SUFFICES ASSUME Types, Types', Reasons, Order, [Next]_vars, SingleThread', NEW z \in Sessions
             PROVE  Ordered(z)'
  BY DEF Order
<1>0. /\ wire \in [Sessions -> Seq(Pieces)] /\ net \in [NetThreads -> NetStates]
      /\ recvq \in [Sessions -> Seq(Packets)] /\ main \in MainStates
      /\ work \in [Sessions -> WorkStates] /\ handled \in [Sessions -> Seq(1..MaxPackets)]
      /\ past \in [Sessions -> SUBSET Events] /\ sent \in [Sessions -> 0..MaxPackets]
  BY DEF Types
<1>01. Traced(z)
  BY DEF Reasons
\* Which threads there are does not change.
<1>1. ASSUME net' = net PROVE Ordered(z)
  <2>1. SingleThread
    BY <1>1 DEF SingleThread
  <2> QED BY <2>1 DEF Order
<1>2. ASSUME NEW t \in NetThreads, NEW x, net' = [net EXCEPT ![t] = x], net[t].at # "off", x.at # "off"
      PROVE  /\ Ordered(z) /\ \A u \in NetThreads : u # t => net[u].at = "off"
             /\ net'[t] = x /\ \A u \in NetThreads : u # t => net'[u] = net[u]
  <2>1. net'[t] = x /\ \A u \in NetThreads : u # t => net'[u] = net[u]
    BY <1>0, <1>2
  <2> DEFINE On == {u \in NetThreads : net[u].at # "off"}
  <2>2. {u \in NetThreads : net'[u].at # "off"} = On
    BY <1>2, <2>1
  <2>3. Cardinality(On) = 1
    BY <2>2 DEF SingleThread
  <2>4. Ordered(z)
    BY <2>3 DEF SingleThread, Order
  <2>5. IsFiniteSet(On)
    BY SetsAssumption, FS_Subset
  <2>6. PICK y : On = {y}
    <3> HIDE DEF On
    <3> QED BY <2>3, <2>5, FS_Singleton
  <2>7. t \in On
    BY <1>2
  <2> QED BY <2>1, <2>4, <2>6, <2>7
<1>3. ASSUME Ordered(z)
      PROVE  /\ \A a, b : Ahead(z, a, b) => a < b
             /\ \A a : Passed(z, a) \/ Queued(z, a) \/ InNet(z, a) \/ Coming(z, a) => a <= sent[z]
             /\ Sorted(wire[z]) /\ Sorted(recvq[z])
  <2>1. \A a, b : Ahead(z, a, b) => a \in 0..MaxPackets /\ b \in 0..MaxPackets
    BY NumbersFacts DEF Ahead
  <2>2. \A a : Passed(z, a) \/ Queued(z, a) \/ InNet(z, a) \/ Coming(z, a) => a \in 0..MaxPackets
    BY NumbersFacts
  <2> QED BY <1>3, <2>1, <2>2 DEF Ordered
<1>4. ASSUME \A a, b \in Int : Ahead(z, a, b)' => a < b,
             \A a \in Int : (Passed(z, a) \/ Queued(z, a) \/ InNet(z, a) \/ Coming(z, a))' => a <= sent'[z],
             Sorted(wire'[z]), Sorted(recvq'[z])
      PROVE  Ordered(z)'
  <2>1. Sorted(wire[z])' /\ Sorted(recvq[z])'
    BY <1>4 DEF Sorted, Ops
  <2>2. 0..MaxPackets \subseteq Int
    OBVIOUS
  <2> QED BY <1>4, <2>1, <2>2 DEF Ordered
<1>5. /\ \A m : Kept(m)' = Kept(m) /\ Carried(z, m)' = Carried(z, m)
      /\ \A m : MainOn(z, m)' = MainOn(z, m) /\ WorkOn(m)' = WorkOn(m)
  <2>1. Packets' = Packets
    BY DEF Packets, Ops
  <2>2. NetStates' = NetStates /\ WorkStates' = WorkStates /\ MainStates' = MainStates
    BY <2>1 DEF NetStates, WorkStates, MainStates, Idle, Off, Receive, Queue, Handle, At, With
  <2> QED BY <2>1, <2>2 DEF Kept, Carried, MainOn, WorkOn, Queue, Handle, With
<1>6. /\ \A m : Coming(z, m)' <=> Has(wire'[z], m)
      /\ \A m : Queued(z, m)' <=> Has(recvq'[z], m)
      /\ \A m : InNet(z, m)' <=> \E t \in NetThreads : net'[t] \in Carried(z, m)
      /\ \A m : Passed(z, m)' <=> \/ \E i \in 1..Len(handled'[z]) : handled'[z][i] = m
                                  \/ main' \in MainOn(z, m)
                                  \/ work'[z] \in WorkOn(m)
  BY <1>5 DEF Coming, Queued, InNet, Passed, Has, Ops
<1>7. /\ wire'[z] = wire[z] => (\A m : Coming(z, m)' <=> Coming(z, m))
      /\ recvq'[z] = recvq[z] => (\A m : Queued(z, m)' <=> Queued(z, m))
      /\ net' = net => (\A m : InNet(z, m)' <=> InNet(z, m))
      /\ handled'[z] = handled[z] /\ main' = main /\ work'[z] = work[z] =>
            (\A m : Passed(z, m)' <=> Passed(z, m))
      /\ handled'[z] = handled[z] /\ main.at # "handle" /\ main'.at # "handle" /\ work'[z] = work[z] =>
            (\A m : Passed(z, m)' <=> Passed(z, m))
  <2>1. \A m : (main.at # "handle" => main \notin MainOn(z, m))
               /\ (main'.at # "handle" => main' \notin MainOn(z, m))
    BY HoldsNothing
  <2> QED BY <1>6, <2>1 DEF Coming, Queued, InNet, Passed
\* Steps that move no packet.
<1>8. ASSUME net' = net, wire'[z] = wire[z], recvq'[z] = recvq[z], handled'[z] = handled[z],
             sent'[z] = sent[z], work'[z] = work[z],
             main' = main \/ (main.at # "handle" /\ main'.at # "handle")
      PROVE  Ordered(z)'
  BY <1>1, <1>7, <1>8, OrderedKept
<1>9. CASE UNCHANGED vars
  BY <1>8, <1>9 DEF vars, kernel, epoll, queues, handlers
<1>10. CASE EpollWait \/ Watch \/ QueueRecive \/ (\E s \in Sessions : Accept(s))
  BY <1>8, <1>10 DEF EpollWait, Watch, QueueRecive, Accept, kernel, epoll, queues, handlers
<1>11. CASE OtherBegins \/ OtherEnds \/ InsertEnds \/ EraseEnds
  <2>1. UNCHANGED <<wire, net, recvq, work, handled, sent>>
    BY <1>11 DEF OtherBegins, OtherEnds, InsertEnds, EraseEnds, kernel, queues
  <2>2. main.at # "handle" /\ main'.at # "handle"
    BY <1>11 DEF OtherBegins, OtherEnds, InsertEnds, EraseEnds, Idle, At
  <2> QED BY <1>8, <2>1, <2>2
<1>12. ASSUME NEW s \in Sessions, InsertBegins(s) \/ EraseBegins(s) \/ Greet(s) PROVE Ordered(z)'
  <2>1. UNCHANGED <<wire, net, recvq, work, handled, sent>>
    BY <1>12 DEF InsertBegins, EraseBegins, Greet, kernel, queues
  <2>2. main.at # "handle" /\ main'.at # "handle"
    BY <1>12 DEF InsertBegins, EraseBegins, Greet, Idle, At
  <2> QED BY <1>8, <2>1, <2>2
\* Steps of the client.
<1>13. ASSUME NEW s \in Sessions, ClientHangsUp(s) PROVE Ordered(z)'
  <2>1. wire' = [wire EXCEPT ![s] = Append(wire[s], Fin)] /\ UNCHANGED <<sent, queues, handlers>>
    BY <1>13 DEF ClientHangsUp, Arrives
  <2>2. UNCHANGED <<net, recvq, work, main, handled, sent>>
    BY <2>1 DEF queues, handlers
  <2>3. CASE z # s
    BY <1>0, <1>8, <2>1, <2>2, <2>3
  <2>4. CASE z = s
    <3>1. wire'[z] = Append(wire[z], Fin) /\ wire[z] \in Seq(Pieces)
      BY <1>0, <2>1, <2>4
    <3>2. Fin \in Pieces /\ Fin.op \notin Ops
      BY PieceFacts DEF Fin, Bytes, Ops
    <3>3. /\ \A m : Has(Append(wire[z], Fin), m) <=> Has(wire[z], m)
          /\ Sorted(wire[z]) => Sorted(Append(wire[z], Fin))
      BY <3>1, <3>2, HasAppend
    <3>4. \A m : Coming(z, m)' <=> Coming(z, m)
      BY <1>6, <3>1, <3>3 DEF Coming
    <3> QED BY <1>1, <1>7, <2>2, <3>1, <3>3, <3>4, OrderedKept
  <2> QED BY <2>3, <2>4
<1>14. ASSUME NEW s \in Sessions, RestArrives(s) PROVE Ordered(z)'
  <2>1. UNCHANGED <<net, recvq, work, main, handled, sent>>
    BY <1>14, RestFacts DEF queues, handlers
  <2>2. CASE z # s
    <3>1. PICK q : Arrives(s, q)
      BY <1>14, RestFacts
    <3>2. wire'[z] = wire[z]
      BY <1>0, <2>2, <3>1 DEF Arrives
    <3> QED BY <1>8, <2>1, <3>2
  <2>3. ASSUME \A m : Has(wire'[z], m) <=> Has(wire[z], m), Sorted(wire[z]) => Sorted(wire'[z])
        PROVE  Ordered(z)'
    <3>1. \A m : Coming(z, m)' <=> Coming(z, m)
      BY <1>6, <2>3 DEF Coming
    <3> QED BY <1>1, <1>7, <2>1, <2>3, <3>1, OrderedKept
  <2>4. CASE z = s /\ Arrives(s, Append(wire[s], Rest(sent[s])))
    <3>1. wire'[z] = Append(wire[z], Rest(sent[s])) /\ wire[z] \in Seq(Pieces)
          /\ Rest(sent[s]) \in Pieces
      BY <1>0, <2>4, PieceFacts DEF Arrives
    <3>2. Rest(sent[s]).op \notin Ops
      BY DEF Rest, Bytes, Ops
    <3>3. /\ \A m : Has(Append(wire[z], Rest(sent[s])), m) <=> Has(wire[z], m)
          /\ Sorted(wire[z]) => Sorted(Append(wire[z], Rest(sent[s])))
      BY <3>1, <3>2, HasAppend
    <3> QED BY <2>3, <3>1, <3>3
  <2>5. ASSUME z = s, wire[s] # << >>, NEW n \in 1..MaxPackets, NEW op \in Ops,
               wire[s][Len(wire[s])] = First(n, op),
               Arrives(s, [wire[s] EXCEPT ![Len(wire[s])] = Whole(n, op)])
        PROVE  Ordered(z)'
    <3>1. wire'[z] = [wire[z] EXCEPT ![Len(wire[z])] = Whole(n, op)] /\ wire[z] \in Seq(Pieces)
      BY <1>0, <2>5 DEF Arrives
    <3>2. /\ Len(wire'[z]) = Len(wire[z])
          /\ \A i \in 1..Len(wire[z]) :
                wire'[z][i] = wire[z][i] \/ (wire[z][i] = First(n, op) /\ wire'[z][i] = Whole(n, op))
      BY <2>5, <3>1
    <3>3. First(n, op).n = Whole(n, op).n /\ First(n, op).op = Whole(n, op).op
      BY DEF First, Whole, Bytes
    <3>4. \A i \in 1..Len(wire[z]) : wire'[z][i].n = wire[z][i].n /\ wire'[z][i].op = wire[z][i].op
      BY <3>2, <3>3
    <3>5. \A m : Has(wire'[z], m) <=> Has(wire[z], m)
      BY <3>2, <3>4 DEF Has
    <3>6. Sorted(wire[z]) => Sorted(wire'[z])
      BY <3>2, <3>4 DEF Sorted
    <3> QED BY <2>3, <3>5, <3>6
  <2> QED BY <1>14, <2>2, <2>4, <2>5, RestFacts
<1>15. ASSUME NEW s \in Sessions, ClientSends(s) PROVE Ordered(z)'
  <2>1. PICK b \in Pieces :
           /\ \E op \in Ops : b = Whole(sent[s] + 1, op) \/ b = First(sent[s] + 1, op)
           /\ Arrives(s, Append(wire[s], b))
    BY <1>15, SendFacts
  <2>2. sent' = [sent EXCEPT ![s] = sent[s] + 1] /\ UNCHANGED <<net, recvq, work, main, handled>>
    BY <1>15, SendFacts DEF queues, handlers
  <2>3. CASE z # s
    <3>1. wire'[z] = wire[z] /\ sent'[z] = sent[z]
      BY <1>0, <2>1, <2>2, <2>3 DEF Arrives
    <3> QED BY <1>8, <2>2, <3>1
  <2>4. CASE z = s
    <3>1. /\ wire'[z] = Append(wire[z], b) /\ wire[z] \in Seq(Pieces)
          /\ sent'[z] = sent[z] + 1 /\ sent[z] \in Nat
      BY <1>0, <2>1, <2>2, <2>4, BoundsAssumption DEF Arrives
    <3>2. b.op \in Ops /\ b.n = sent[z] + 1
      BY <2>1, <2>4 DEF Whole, First, Bytes
    <3>3. /\ \A a, c : Ahead(z, a, c) => a < c
          /\ \A a : Passed(z, a) \/ Queued(z, a) \/ InNet(z, a) \/ Coming(z, a) => a <= sent[z]
          /\ Sorted(wire[z]) /\ Sorted(recvq[z])
      BY <1>1, <1>3, <2>2
    <3>4. \A m : Has(Append(wire[z], b), m) <=> Has(wire[z], m) \/ m = sent[z] + 1
      BY <3>1, <3>2, HasAppend
    <3>5. Sorted(Append(wire[z], b))
      <4>1. \A m : Has(wire[z], m) => m < sent[z] + 1
        <5> SUFFICES ASSUME NEW m, Has(wire[z], m) PROVE m < sent[z] + 1
          OBVIOUS
        <5>1. m \in 0..MaxPackets
          BY NumbersFacts DEF Coming
        <5> QED BY <3>1, <3>3, <5>1, BoundsAssumption DEF Coming
      <4> QED BY <3>1, <3>2, <3>3, <4>1, HasAppend
    <3>6. /\ \A m : Coming(z, m)' <=> Coming(z, m) \/ m = sent[z] + 1
          /\ \A m : Queued(z, m)' <=> Queued(z, m)
          /\ \A m : InNet(z, m)' <=> InNet(z, m)
          /\ \A m : Passed(z, m)' <=> Passed(z, m)
      BY <1>6, <1>7, <2>2, <3>1, <3>4 DEF Coming
    <3>7. \A a, c \in Int : Ahead(z, a, c)' => a < c
      <4> SUFFICES ASSUME NEW a \in Int, NEW c \in Int, Ahead(z, a, c)' PROVE a < c
        OBVIOUS
      <4>1. Ahead(z, a, c) \/ (c = sent[z] + 1 /\ (Passed(z, a) \/ Queued(z, a) \/ InNet(z, a)))
        BY <3>6 DEF Ahead
      <4> QED BY <3>1, <3>3, <4>1
    <3>8. \A a \in Int :
             (Passed(z, a) \/ Queued(z, a) \/ InNet(z, a) \/ Coming(z, a))' => a <= sent'[z]
      BY <3>1, <3>3, <3>6
    <3> QED BY <1>4, <2>2, <3>1, <3>3, <3>5, <3>7, <3>8
  <2> QED BY <2>3, <2>4
\* Steps of the network thread.
<1>16. ASSUME NEW t \in NetThreads, GetNextSession(t) PROVE Ordered(z)'
  <2>1. /\ net' = [net EXCEPT ![t] = Receive(Head(requests))] /\ net[t].at = "idle"
        /\ UNCHANGED <<wire, sent, recvq, work, main, handled>>
    BY <1>16 DEF GetNextSession, Receive, kernel, handlers
  <2>2. Receive(Head(requests)).at = "receive"
    BY DEF Receive, At
  <2>3. Ordered(z) /\ net'[t] = Receive(Head(requests)) /\ \A u \in NetThreads : u # t => net'[u] = net[u]
    BY <1>2, <2>1, <2>2
  <2>4. \A m : net'[t] \notin Carried(z, m)
    BY <2>2, <2>3 DEF Carried, Queue, With
  <2>5. \A m : InNet(z, m)' => InNet(z, m)
    BY <1>6, <2>3, <2>4 DEF InNet
  <2> QED BY <1>7, <2>1, <2>3, <2>5, OrderedKept
<1>17. ASSUME NEW t \in NetThreads, QueuePacket(t) PROVE Ordered(z)'
  <2>1. PICK s \in Sessions, p \in Packets : net[t] = Queue(s, p) /\ net[t].s = s /\ net[t].p = p
    BY <1>17, <1>0, StateFacts DEF QueuePacket
  <2>2. /\ recvq' = [recvq EXCEPT ![s] = Append(@, p)]
        /\ net' = [net EXCEPT ![t] = Idle] /\ net[t].at = "queue"
        /\ UNCHANGED <<wire, sent, work, main, handled>>
    BY <1>17, <2>1 DEF QueuePacket, kernel, handlers
  <2>3. Ordered(z) /\ net'[t] = Idle /\ \A u \in NetThreads : u # t => net'[u].at = "off"
    <3>1. Idle.at = "idle"
      BY DEF Idle
    <3> QED BY <1>2, <2>2, <3>1
  <2>4. \A u \in NetThreads : net'[u].at # "queue"
    BY <2>3 DEF Idle
  <2>5. \A m : ~ InNet(z, m)'
    BY <1>6, <2>4 DEF Carried, Queue, With
  <2>6. CASE z # s
    <3>1. recvq'[z] = recvq[z]
      BY <1>0, <2>2, <2>6
    <3> QED BY <1>7, <2>2, <2>3, <2>5, <3>1, OrderedKept
  <2>7. CASE z = s
    <3>1. recvq'[z] = Append(recvq[z], p) /\ recvq[z] \in Seq(Packets)
      BY <1>0, <2>2, <2>7
    <3>2. p.op \in Ops /\ InNet(z, p.n) /\ p.n \in Nat
      BY <2>1, <2>7, HoldsOne DEF InNet, Packets
    <3>3. /\ \A a, c : Ahead(z, a, c) => a < c
          /\ \A a : Passed(z, a) \/ Queued(z, a) \/ InNet(z, a) \/ Coming(z, a) => a <= sent[z]
          /\ Sorted(wire[z]) /\ Sorted(recvq[z])
      BY <1>3, <2>3
    <3>4. \A m : Has(recvq[z], m) => m < p.n
      BY <3>2, <3>3 DEF Ahead, Queued, Coming
    <3>5. /\ \A m : Has(Append(recvq[z], p), m) <=> Has(recvq[z], m) \/ m = p.n
          /\ Sorted(Append(recvq[z], p))
      BY <3>1, <3>2, <3>3, <3>4, HasAppend
    <3>6. /\ \A m : Queued(z, m)' <=> Queued(z, m) \/ m = p.n
          /\ \A m : Coming(z, m)' <=> Coming(z, m)
          /\ \A m : Passed(z, m)' <=> Passed(z, m)
      BY <1>6, <1>7, <2>2, <3>1, <3>5 DEF Queued
    <3>7. \A a, c \in Int : Ahead(z, a, c)' => a < c
      <4> SUFFICES ASSUME NEW a \in Int, NEW c \in Int, Ahead(z, a, c)' PROVE a < c
        OBVIOUS
      <4>1. Ahead(z, a, c)
        BY <2>5, <3>2, <3>6 DEF Ahead
      <4> QED BY <3>3, <4>1
    <3>8. \A a \in Int :
             (Passed(z, a) \/ Queued(z, a) \/ InNet(z, a) \/ Coming(z, a))' => a <= sent'[z]
      BY <2>2, <2>5, <3>2, <3>3, <3>6
    <3> QED BY <1>4, <2>2, <3>1, <3>3, <3>5, <3>7, <3>8
  <2> QED BY <2>6, <2>7
<1>18. ASSUME NEW t \in NetThreads, RecvPacketFromSocket(t) PROVE Ordered(z)'
  <2>1. PICK s \in Sessions : Received(t, s)
    BY <1>18, ReceiveFacts
  <2>2. net[t] = Receive(s) /\ net[t].at = "receive" /\ UNCHANGED <<sent, recvq, work, main, handled>>
    BY <2>1 DEF Received, handlers, Receive, At
  <2>3. /\ \A m : Queued(z, m)' <=> Queued(z, m)
        /\ \A m : Passed(z, m)' <=> Passed(z, m)
    BY <1>7, <2>2
  <2>4. ASSUME net' = [net EXCEPT ![t] = Idle],
               wire'[z] = wire[z] \/ (wire[z] # << >> /\ wire'[z] = Tail(wire[z]))
        PROVE  Ordered(z)'
    <3>1. Ordered(z) /\ net'[t] = Idle /\ \A u \in NetThreads : u # t => net'[u] = net[u]
      <4>1. Idle.at = "idle"
        BY DEF Idle
      <4> QED BY <1>2, <2>2, <2>4, <4>1
    <3>2. \A m : InNet(z, m)' => InNet(z, m)
      BY <1>6, <3>1 DEF InNet, Carried, Idle, Queue, With
    <3>3. (\A m : Has(wire'[z], m) => Has(wire[z], m)) /\ (Sorted(wire[z]) => Sorted(wire'[z]))
      <4>1. wire[z] # << >> => /\ \A m : Has(Tail(wire[z]), m) => Has(wire[z], m)
                               /\ Sorted(wire[z]) => Sorted(Tail(wire[z]))
        BY <1>0, HasTail
      <4> QED BY <2>4, <4>1
    <3>4. \A m : Coming(z, m)' => Coming(z, m)
      BY <1>6, <3>3 DEF Coming
    <3> QED BY <2>2, <2>3, <3>1, <3>2, <3>3, <3>4, OrderedKept
  <2>5. CASE net' = [net EXCEPT ![t] = Idle] /\ wire' = wire
    BY <2>4, <2>5
  <2>6. CASE /\ net' = [net EXCEPT ![t] = Idle] /\ wire[s] # << >>
             /\ wire' = [wire EXCEPT ![s] = Tail(wire[s])]
    <3>1. wire'[z] = wire[z] \/ (wire[z] # << >> /\ wire'[z] = Tail(wire[z]))
      BY <1>0, <2>6
    <3> QED BY <2>4, <2>6, <3>1
  <2>7. ASSUME wire[s] # << >>, wire' = [wire EXCEPT ![s] = Tail(wire[s])],
               NEW n \in 1..MaxPackets, NEW op \in Ops, Head(wire[s]) = Whole(n, op),
               net' = [net EXCEPT ![t] = Queue(s, Packet(n, op))]
        PROVE  Ordered(z)'
    <3>1. Packet(n, op) \in Packets /\ Packet(n, op).n = n /\ n \in Nat
      BY DEF Packet, Packets
    <3>2. Queue(s, Packet(n, op)).at = "queue"
      BY DEF Queue, With
    <3>3. /\ Ordered(z) /\ net'[t] = Queue(s, Packet(n, op))
          /\ \A u \in NetThreads : u # t => net[u].at = "off"
          /\ \A u \in NetThreads : u # t => net'[u] = net[u]
      BY <1>2, <2>2, <2>7, <3>2
    <3>4. \A m : InNet(z, m)' <=> z = s /\ m = n
      <4>1. \A m : Queue(s, Packet(n, op)) \in Carried(z, m) <=> s = z /\ n = m
        BY <3>1, HoldsOne
      <4>2. \A m : \A u \in NetThreads : u # t => net'[u] \notin Carried(z, m)
        BY <3>3 DEF Carried, Queue, With
      <4> QED BY <1>6, <3>3, <4>1, <4>2
    <3>5. CASE z # s
      <4>1. wire'[z] = wire[z]
        BY <1>0, <2>7, <3>5
      <4> QED BY <1>7, <2>2, <2>3, <3>3, <3>4, <3>5, <4>1, OrderedKept
    <3>6. CASE z = s
      <4>1. wire'[z] = Tail(wire[z]) /\ wire[z] \in Seq(Pieces) /\ wire[z] # << >>
        BY <1>0, <2>7, <3>6
      <4>2. Head(wire[z]).op \in Ops /\ Head(wire[z]).n = n
        BY <2>7, <3>6 DEF Whole, Bytes
      <4>3. /\ \A a, c : Ahead(z, a, c) => a < c
            /\ \A a : Passed(z, a) \/ Queued(z, a) \/ InNet(z, a) \/ Coming(z, a) => a <= sent[z]
            /\ Sorted(wire[z]) /\ Sorted(recvq[z])
        BY <1>3, <3>3
      <4>4. /\ Coming(z, n)
            /\ Sorted(Tail(wire[z]))
            /\ \A m : Has(Tail(wire[z]), m) => Coming(z, m) /\ n < m
        BY <4>1, <4>2, <4>3, HasTail DEF Coming
      <4>5. \A m : Coming(z, m)' => Coming(z, m) /\ n < m
        BY <1>6, <4>1, <4>4
      <4>6. \A a, c \in Int : Ahead(z, a, c)' => a < c
        <5> SUFFICES ASSUME NEW a \in Int, NEW c \in Int, Ahead(z, a, c)' PROVE a < c
          OBVIOUS
        <5>1. Ahead(z, a, c) \/ (a = n /\ n < c)
          BY <2>3, <3>4, <4>4, <4>5 DEF Ahead
        <5> QED BY <4>3, <5>1
      <4>7. \A a \in Int :
               (Passed(z, a) \/ Queued(z, a) \/ InNet(z, a) \/ Coming(z, a))' => a <= sent'[z]
        BY <2>2, <2>3, <3>4, <4>3, <4>4, <4>5
      <4> QED BY <1>4, <2>2, <4>1, <4>3, <4>4, <4>6, <4>7
    <3> QED BY <3>5, <3>6
  <2> QED BY <2>1, <2>5, <2>6, <2>7 DEF Received
\* Steps of the main thread and of the workers that move a packet.
<1>19. ASSUME NEW s \in Sessions, recvq[s] # << >>, recvq' = [recvq EXCEPT ![s] = Tail(@)],
              UNCHANGED <<wire, net, sent>>,
              \A m : Passed(z, m)' => Passed(z, m) \/ (z = s /\ m = Head(recvq[s]).n)
       PROVE  Ordered(z)'
  <2>1. Ordered(z) /\ (\A m : InNet(z, m)' <=> InNet(z, m)) /\ (\A m : Coming(z, m)' <=> Coming(z, m))
    BY <1>1, <1>7, <1>19
  <2>2. CASE z # s
    <3>1. recvq'[z] = recvq[z]
      BY <1>0, <1>19, <2>2
    <3> QED BY <1>7, <1>19, <2>1, <2>2, <3>1, OrderedKept
  <2>3. CASE z = s
    <3>1. recvq'[z] = Tail(recvq[z]) /\ recvq[z] \in Seq(Packets) /\ recvq[z] # << >>
      BY <1>0, <1>19, <2>3
    <3>2. Head(recvq[z]) \in Packets
      BY <3>1, HeadTailProperties
    <3>3. PICK n : n = Head(recvq[z]).n
      OBVIOUS
    <3>4. n \in Nat /\ Head(recvq[z]).op \in Ops
      BY <3>2, <3>3 DEF Packets
    <3>5. /\ \A a, c : Ahead(z, a, c) => a < c
          /\ \A a : Passed(z, a) \/ Queued(z, a) \/ InNet(z, a) \/ Coming(z, a) => a <= sent[z]
          /\ Sorted(wire[z]) /\ Sorted(recvq[z])
      BY <1>3, <2>1
    <3>6. /\ Queued(z, n)
          /\ Sorted(Tail(recvq[z]))
          /\ \A m : Has(Tail(recvq[z]), m) => Queued(z, m) /\ n < m
      BY <3>1, <3>3, <3>4, <3>5, HasTail DEF Queued
    <3>7. /\ \A m : Queued(z, m)' => Queued(z, m) /\ n < m
          /\ \A m : Passed(z, m)' => Passed(z, m) \/ m = n
      BY <1>6, <1>19, <2>3, <3>1, <3>3, <3>6
    <3>8. \A a, c \in Int : Ahead(z, a, c)' => a < c
      <4> SUFFICES ASSUME NEW a \in Int, NEW c \in Int, Ahead(z, a, c)' PROVE a < c
        OBVIOUS
      <4>1. Ahead(z, a, c) \/ (a = n /\ n < c) \/ (a = n /\ Ahead(z, n, c))
        BY <2>1, <3>6, <3>7 DEF Ahead
      <4> QED BY <3>5, <4>1
    <3>9. \A a \in Int :
             (Passed(z, a) \/ Queued(z, a) \/ InNet(z, a) \/ Coming(z, a))' => a <= sent'[z]
      BY <1>19, <2>1, <3>5, <3>6, <3>7
    <3> QED BY <1>4, <1>19, <3>1, <3>5, <3>6, <3>8, <3>9
  <2> QED BY <2>2, <2>3
<1>20. ASSUME NEW s \in Sessions, MainTakes(s) PROVE Ordered(z)'
  <2>1. /\ recvq[s] # << >> /\ main' = Handle(s, Head(recvq[s]))
        /\ recvq' = [recvq EXCEPT ![s] = Tail(@)]
        /\ UNCHANGED <<wire, sent, net, work, handled>>
    BY <1>20 DEF MainTakes, Handle, kernel
  <2>2. Head(recvq[s]) \in Packets
    BY <1>0, <2>1, HeadTailProperties
  <2>3. \A m : main' \in MainOn(z, m) => z = s /\ m = Head(recvq[s]).n
    <3>1. PICK p \in Packets : p = Head(recvq[s])
      BY <2>2
    <3>2. \A m : Handle(s, p) \in MainOn(z, m) <=> s = z /\ p.n = m
      BY HoldsOne
    <3>3. main' = Handle(s, p)
      BY <2>1, <3>1
    <3> QED BY <3>1, <3>2, <3>3
  <2>4. \A m : Passed(z, m)' => Passed(z, m) \/ (z = s /\ m = Head(recvq[s]).n)
    BY <1>6, <2>1, <2>3 DEF Passed
  <2> QED BY <1>19, <2>1, <2>4
<1>21. ASSUME NEW s \in Sessions, WorkerTakes(s) PROVE Ordered(z)'
  <2>1. /\ recvq[s] # << >> /\ work' = [work EXCEPT ![s] = Handle(s, Head(recvq[s]))]
        /\ recvq' = [recvq EXCEPT ![s] = Tail(@)]
        /\ UNCHANGED <<wire, sent, net, main, handled>>
    BY <1>21 DEF WorkerTakes, Handle, kernel
  <2>2. Head(recvq[s]) \in Packets
    BY <1>0, <2>1, HeadTailProperties
  <2>3. \A m : work'[z] \in WorkOn(m) => work[z] \in WorkOn(m) \/ (z = s /\ m = Head(recvq[s]).n)
    <3>1. IF z = s THEN work'[z] = Handle(s, Head(recvq[s])) ELSE work'[z] = work[z]
      BY <1>0, <2>1
    <3> QED BY <2>2, <3>1, HoldsOne
  <2>4. \A m : Passed(z, m)' => Passed(z, m) \/ (z = s /\ m = Head(recvq[s]).n)
    BY <1>6, <2>1, <2>3 DEF Passed
  <2> QED BY <1>19, <2>1, <2>4
<1>22. ASSUME NEW s \in Sessions, NEW p \in Packets,
              handled' = [handled EXCEPT ![s] = Append(@, p.n)], UNCHANGED <<wire, net, recvq, sent>>,
              z = s => Passed(z, p.n),
              \A m : main' \in MainOn(z, m) => main \in MainOn(z, m),
              \A m : work'[z] \in WorkOn(m) => work[z] \in WorkOn(m)
       PROVE  Ordered(z)'
  <2>1. \A m : (\E i \in 1..Len(handled'[z]) : handled'[z][i] = m) => Passed(z, m)
    <3>1. CASE z # s
      <4>1. handled'[z] = handled[z]
        BY <1>0, <1>22, <3>1
      <4> QED BY <4>1 DEF Passed
    <3>2. CASE z = s
      <4>1. PICK S : S = 1..MaxPackets
        OBVIOUS
      <4>2. handled[z] \in Seq(S) /\ p.n \in S /\ handled'[z] = Append(handled[z], p.n)
        BY <1>0, <1>22, <3>2, <4>1 DEF Packets
      <4>3. /\ Len(handled[z]) \in Nat /\ Len(handled'[z]) = Len(handled[z]) + 1
            /\ \A i \in 1..Len(handled[z]) : handled'[z][i] = handled[z][i]
            /\ handled'[z][Len(handled[z]) + 1] = p.n
        BY <4>2, LenProperties, AppendProperties
      <4>4. \A i \in 1..Len(handled'[z]) : i \in 1..Len(handled[z]) \/ i = Len(handled[z]) + 1
        BY <4>3
      <4> QED BY <1>22, <3>2, <4>3, <4>4 DEF Passed
    <3> QED BY <3>1, <3>2
  <2>2. \A m : Passed(z, m)' => Passed(z, m)
    BY <1>6, <1>22, <2>1 DEF Passed
  <2> QED BY <1>1, <1>7, <1>22, <2>2, OrderedKept
<1>23. CASE MainHandles
  <2>1. PICK s \in Sessions, p \in Packets : main = Handle(s, p) /\ main.s = s /\ main.p = p
    BY <1>23, <1>0, StateFacts DEF MainHandles
  <2>2. /\ handled' = [handled EXCEPT ![s] = Append(@, p.n)] /\ main' = Idle
        /\ UNCHANGED <<wire, net, recvq, sent, work>>
    BY <1>23, <2>1 DEF MainHandles, kernel, queues
  <2>3. z = s => Passed(z, p.n)
    BY <2>1, HoldsOne DEF Passed
  <2>4. \A m : main' \notin MainOn(z, m)
    BY <2>2, HoldsNothing DEF Idle
  <2> QED BY <1>22, <2>2, <2>3, <2>4
<1>24. ASSUME NEW s \in Sessions, WorkerHandles(s) PROVE Ordered(z)'
  <2>1. PICK u \in Sessions, p \in Packets : work[s] = Handle(u, p) /\ work[s].p = p
    BY <1>24, <1>0, StateFacts DEF WorkerHandles
  <2>2. /\ handled' = [handled EXCEPT ![s] = Append(@, p.n)] /\ work' = [work EXCEPT ![s] = Idle]
        /\ UNCHANGED <<wire, net, recvq, sent, main>>
    BY <1>24, <2>1 DEF WorkerHandles, kernel, queues
  <2>3. z = s => Passed(z, p.n)
    BY <2>1, HoldsOne DEF Passed
  <2>4. \A m : work'[z] \in WorkOn(m) => work[z] \in WorkOn(m)
    <3>1. work'[z] = Idle \/ work'[z] = work[z]
      BY <1>0, <2>2
    <3> QED BY <3>1, HoldsNothing DEF Idle
  <2> QED BY <1>22, <2>2, <2>3, <2>4
<1>25. ASSUME NEW t \in NetThreads, RefuseOpcode(t) PROVE Ordered(z)'
  <2>1. /\ net' = [net EXCEPT ![t] = Idle] /\ net[t].at = "queue"
        /\ UNCHANGED <<wire, recvq, sent, main, work, handled>>
    BY <1>25 DEF RefuseOpcode, kernel, handlers
  <2>2. Ordered(z) /\ net'[t] = Idle /\ \A u \in NetThreads : u # t => net'[u] = net[u]
    <3>1. Idle.at = "idle"
      BY DEF Idle
    <3> QED BY <1>2, <2>1, <3>1
  <2>3. \A m : InNet(z, m)' => InNet(z, m)
    BY <1>6, <2>2 DEF InNet, Carried, Idle, Queue, With
  <2> QED BY <1>7, <2>1, <2>2, <2>3, OrderedKept
<1>26. ASSUME NEW t \in NetThreads, NEW s \in Sessions, SendFails(t, s) PROVE Ordered(z)'
  BY <1>8, <1>26 DEF SendFails, kernel, queues, handlers
<1>27. ASSUME NEW s \in Sessions, LoginTimer(s) PROVE Ordered(z)'
  BY <1>8, <1>27 DEF LoginTimer, kernel, queues, handlers
<1> QED BY <1>9, <1>10, <1>11, <1>12, <1>13, <1>14, <1>15, <1>16, <1>17, <1>18, <1>20, <1>21, <1>23, <1>24,
           <1>25, <1>26, <1>27
        DEF Next, Epoll, MainEnds, Network, Client, Main, Worker

\* With one network thread a session's packets wait in the order in which they were sent,
\* and none that waits was sent before one that has been handled.
THEOREM SentOrderIsKept == Spec => []InOrder
<1>1. Types /\ Order => InOrder
  <2> SUFFICES ASSUME Types, Order, SingleThread, NEW s \in Sessions
               PROVE  /\ \A i, j \in DOMAIN recvq[s] : i < j => recvq[s][i].n < recvq[s][j].n
                      /\ \A i \in DOMAIN recvq[s], j \in DOMAIN handled[s] :
                            handled[s][j] < recvq[s][i].n
    BY DEF InOrder
  <2>1. recvq[s] \in Seq(Packets) /\ handled[s] \in Seq(1..MaxPackets)
    BY DEF Types
  <2>2. /\ DOMAIN recvq[s] = 1..Len(recvq[s]) /\ DOMAIN handled[s] = 1..Len(handled[s])
        /\ \A i \in 1..Len(recvq[s]) : recvq[s][i] \in Packets
        /\ \A i \in 1..Len(handled[s]) : handled[s][i] \in 1..MaxPackets
    BY <2>1, ElementOfSeq, LenProperties
  <2>3. \A p \in Packets : p.op \in Ops /\ p.n \in 0..MaxPackets
    BY BoundsAssumption DEF Packets
  <2>4. Ordered(s)
    BY DEF Order
  <2>5. ASSUME NEW i \in 1..Len(recvq[s]), NEW j \in 1..Len(recvq[s]), i < j
        PROVE  recvq[s][i].n < recvq[s][j].n
    BY <2>2, <2>3, <2>4, <2>5 DEF Ordered, Sorted
  <2>6. ASSUME NEW i \in 1..Len(recvq[s]), NEW j \in 1..Len(handled[s])
        PROVE  handled[s][j] < recvq[s][i].n
    <3>1. Passed(s, handled[s][j]) /\ handled[s][j] \in 0..MaxPackets
      BY <2>2, BoundsAssumption DEF Passed
    <3>2. Queued(s, recvq[s][i].n) /\ recvq[s][i].n \in 0..MaxPackets
      BY <2>2, <2>3 DEF Queued, Has
    <3> QED BY <2>4, <3>1, <3>2 DEF Ordered, Ahead
  <2> QED BY <2>2, <2>5, <2>6
<1> QED BY <1>1, TypesInit, TypesStep, ReasonsInit, ReasonsStep, TaintedInit, TaintedStep,
           OrderInit, OrderStep, PTL DEF Spec

-----------------------------------------------------------------------------
(* Packets: the operations of a buffer.                                     *)

(* A buffer as every operation leaves it: the code writes at the end only.  *)
IsBuffer(b) ==
    /\ b \in [store : Seq(Byte), rpos : Nat, wpos : Nat]
    /\ b.wpos = Len(b.store)
    /\ b.rpos <= b.wpos

(* The bytes still to be read.                                              *)
Unread(b) == SubSeq(b.store, b.rpos + 1, b.wpos)

-----------------------------------------------------------------------------
(* An append puts the bytes behind those that are there, and moves nothing  *)
(* else (ByteBuffer::append overwrites from wpos on, which is the end).     *)
LEMMA AppendAddsAtTheEnd ==
    ASSUME NEW b, IsBuffer(b), NEW src \in Seq(Byte)
    PROVE  /\ AppendBytes(b, src).store = b.store \o src
           /\ AppendBytes(b, src).rpos = b.rpos
           /\ IsBuffer(AppendBytes(b, src))
<1> DEFINE c == AppendBytes(b, src)
<1>1. /\ b.store \in Seq(Byte) /\ b.rpos \in Nat /\ b.wpos = Len(b.store)
      /\ b.rpos <= b.wpos /\ b.wpos \in Nat /\ Len(src) \in Nat
  BY LenProperties DEF IsBuffer
<1>2. SubSeq(b.store, 1, b.wpos) = b.store
  BY <1>1, SubSeqFull
<1>3. SubSeq(b.store, b.wpos + Len(src) + 1, Len(b.store)) = << >>
  BY <1>1, SubSeqEmpty
<1>4. b.store \o src \in Seq(Byte) /\ Len(b.store \o src) = Len(b.store) + Len(src)
  BY <1>1, ConcatProperties
<1>5. (b.store \o src) \o << >> = b.store \o src
  BY <1>4, ConcatEmptySeq
<1>6. c = [b EXCEPT !.store = (b.store \o src) \o << >>, !.wpos = b.wpos + Len(src)]
  BY <1>2, <1>3 DEF AppendBytes, IsBuffer
<1>7. c = [store |-> b.store \o src, rpos |-> b.rpos, wpos |-> b.wpos + Len(src)]
  BY <1>5, <1>6 DEF IsBuffer
<1>8. c.store = b.store \o src /\ c.rpos = b.rpos /\ c.wpos = b.wpos + Len(src)
  BY <1>7
<1>9. c \in [store : Seq(Byte), rpos : Nat, wpos : Nat]
  BY <1>1, <1>4, <1>7
<1> QED BY <1>1, <1>4, <1>8, <1>9 DEF IsBuffer

(* The new, cleared buffer is one.                                          *)
LEMMA EmptyIsBuffer == IsBuffer(Empty) /\ Empty.store = << >>
<1>1. << >> \in Seq(Byte) /\ Len(<< >>) = 0
  BY EmptySeq
<1> QED BY <1>1 DEF Empty, IsBuffer

(* A read that does not throw takes the first of the unread bytes, and      *)
(* leaves a buffer whose unread bytes are the others.                       *)
LEMMA ReadsInOrder ==
    ASSUME NEW b, IsBuffer(b), NEW n \in Nat, ~ReadThrows(b, n)
    PROVE  /\ IsBuffer(Skip(b, n))
           /\ Peek(b, n) \in Seq(Byte) /\ Len(Peek(b, n)) = n
           /\ Unread(b) = Peek(b, n) \o Unread(Skip(b, n))
<1>1. /\ b.store \in Seq(Byte) /\ b.rpos \in Nat /\ b.wpos = Len(b.store)
      /\ b.rpos + n <= b.wpos /\ b.wpos \in Nat
  BY LenProperties DEF IsBuffer, ReadThrows, Size
<1>2. Skip(b, n) = [store |-> b.store, rpos |-> b.rpos + n, wpos |-> b.wpos]
  BY DEF Skip, IsBuffer
<1>3. IsBuffer(Skip(b, n))
  BY <1>1, <1>2 DEF IsBuffer
<1>4. \A i \in b.rpos + 1 .. b.rpos + n : b.store[i] \in Byte
  BY <1>1, ElementOfSeq
<1>5. Peek(b, n) \in Seq(Byte) /\ Len(Peek(b, n)) = n
  <2> DEFINE first == b.rpos + 1
             last == b.rpos + n
  <2>1. first \in Int /\ last \in Int /\ \A i \in first .. last : b.store[i] \in Byte
    BY <1>1, <1>4
  <2>2. last - first + 1 = n /\ (first <= last \/ n = 0)
    BY <1>1
  <2> HIDE DEF first, last
  <2>3. /\ SubSeq(b.store, first, last) \in Seq(Byte)
        /\ Len(SubSeq(b.store, first, last)) = IF first <= last THEN last - first + 1 ELSE 0
    BY <2>1, SubSeqProperties
  <2>4. Len(SubSeq(b.store, first, last)) = n
    BY <2>1, <2>2, <2>3
  <2> QED BY <2>3, <2>4 DEF Peek, first, last
<1>6. SubSeq(b.store, b.rpos + 1, b.rpos + n) \o SubSeq(b.store, b.rpos + n + 1, b.wpos)
        = SubSeq(b.store, b.rpos + 1, b.wpos)
  <2>1. /\ b.rpos + 1 \in 1 .. Len(b.store) + 1
        /\ b.rpos + n \in (b.rpos + 1) - 1 .. Len(b.store)
        /\ b.wpos \in b.rpos + n .. Len(b.store)
    BY <1>1
  <2> QED BY <1>1, <2>1, ConcatAdjacentSubSeq
<1>7. Skip(b, n).store = b.store /\ Skip(b, n).rpos = b.rpos + n /\ Skip(b, n).wpos = b.wpos
  BY <1>2
<1>8. Unread(Skip(b, n)) = SubSeq(b.store, b.rpos + n + 1, b.wpos)
  BY <1>7 DEF Unread
<1>9. Unread(b) = Peek(b, n) \o Unread(Skip(b, n))
  BY <1>6, <1>8, Zenon DEF Unread, Peek
<1> QED BY <1>3, <1>5, <1>9, Zenon

-----------------------------------------------------------------------------
(* The integers: what is written is read back, but for the width.           *)
LEMMA Uint16IsRead ==
    ASSUME NEW v \in Nat
    PROVE  /\ Uint16(v) \in Seq(Byte) /\ Len(Uint16(v)) = 2
           /\ Uint16(v)[1] + 256 * Uint16(v)[2] = v % Max16
BY DEF Uint16, Byte, Max16

LEMMA Uint16Fits ==
    ASSUME NEW v \in Nat, v < Max16
    PROVE  v % Max16 = v
BY DEF Max16

LEMMA Uint32IsRead ==
    ASSUME NEW v \in Nat, v < Max32
    PROVE  /\ Uint32(v) \in Seq(Byte) /\ Len(Uint32(v)) = 4
           /\ Uint32(v)[1] + 256 * Uint32(v)[2] + 65536 * Uint32(v)[3]
                + 16777216 * Uint32(v)[4] = v
<1>0. Max32 = 4294967296
  BY SMT DEF Max32
<1>1. v \in Nat /\ v < 4294967296
  BY <1>0, SMT
<1>2. /\ v % 256 \in Byte /\ (v \div 256) % 256 \in Byte
      /\ (v \div 65536) % 256 \in Byte /\ (v \div 16777216) % 256 \in Byte
  BY <1>1 DEF Byte
<1>3. (v % 256) + 256 * ((v \div 256) % 256) + 65536 * ((v \div 65536) % 256)
        + 16777216 * ((v \div 16777216) % 256) = v
  BY <1>1
<1> QED BY <1>2, <1>3 DEF Uint32

(* The fields of a header, read from a buffer that is long enough.          *)
LEMMA FieldsAreRead ==
    ASSUME NEW b, IsBuffer(b), Size(b) >= 8
    PROVE  /\ OpOf(b) = b.store[1] + 256 * b.store[2]
           /\ SizeOf(b) = b.store[3] + 256 * b.store[4]
           /\ TimeOf(b) = b.store[5] + 256 * b.store[6] + 65536 * b.store[7]
                            + 16777216 * b.store[8]
<1>1. b.store \in Seq(Byte) /\ Len(b.store) \in Nat /\ Len(b.store) >= 8
  BY LenProperties DEF IsBuffer, Size
<1>2. \A i \in 1 .. 8 : b.store[i] \in Byte
  BY <1>1, ElementOfSeq
<1>3. \A i \in 1 .. 2 : SubSeq(b.store, 1, 2)[i] = b.store[i]
  BY <1>2, SubSeqProperties
<1>4. \A i \in 1 .. 2 : SubSeq(b.store, 3, 4)[i] = b.store[i + 2]
  BY <1>2, SubSeqProperties
<1>5. \A i \in 1 .. 4 : SubSeq(b.store, 5, 8)[i] = b.store[i + 4]
  BY <1>2, SubSeqProperties
<1> QED BY <1>3, <1>4, <1>5 DEF OpOf, SizeOf, TimeOf, AsUint16, AsUint32

LEMMA NumberIsRead ==
    ASSUME NEW b, IsBuffer(b), Size(b) >= 12
    PROVE  NumberOf(b) = b.store[9] + 256 * b.store[10] + 65536 * b.store[11]
                        + 16777216 * b.store[12]
<1>1. b.store \in Seq(Byte) /\ Len(b.store) \in Nat /\ Len(b.store) >= 12
  BY LenProperties DEF IsBuffer, Size
<1>2. \A i \in 1 .. 12 : b.store[i] \in Byte
  BY <1>1, ElementOfSeq
<1>3. \A i \in 1 .. 4 : SubSeq(b.store, 9, 12)[i] = b.store[i + 8]
  BY <1>2, SubSeqProperties
<1> QED BY <1>3 DEF NumberOf, AsUint32

-----------------------------------------------------------------------------
(* What the three first fields of a store say, and the number.              *)
Says(store, op, size, time) ==
    /\ store[1] + 256 * store[2] = op % Max16
    /\ store[3] + 256 * store[4] = size % Max16
    /\ store[5] + 256 * store[6] + 65536 * store[7] + 16777216 * store[8] = time

Numbers(store, seq) ==
    store[9] + 256 * store[10] + 65536 * store[11] + 16777216 * store[12] = seq

LEMMA SaysTheSame ==
    ASSUME NEW s, NEW t, \A i \in 1 .. 8 : s[i] = t[i], NEW op, NEW size, NEW time,
           Says(t, op, size, time)
    PROVE  Says(s, op, size, time)
<1>1. /\ s[1] = t[1] /\ s[2] = t[2] /\ s[3] = t[3] /\ s[4] = t[4]
      /\ s[5] = t[5] /\ s[6] = t[6] /\ s[7] = t[7] /\ s[8] = t[8]
  OBVIOUS
<1> QED BY <1>1 DEF Says

(* The two parts of a concatenation.                                        *)
LEMMA PartsOfConcat ==
    ASSUME NEW s \in Seq(Byte), NEW t \in Seq(Byte)
    PROVE  /\ Len(s \o t) = Len(s) + Len(t)
           /\ \A i \in 1 .. Len(s) : (s \o t)[i] = s[i]
           /\ \A i \in 1 .. Len(t) : (s \o t)[Len(s) + i] = t[i]
<1>1. Len(s) \in Nat /\ Len(t) \in Nat
  BY LenProperties
<1>2. /\ Len(s \o t) = Len(s) + Len(t)
      /\ \A i \in 1 .. Len(s) + Len(t) :
            (s \o t)[i] = IF i <= Len(s) THEN s[i] ELSE t[i - Len(s)]
  BY ConcatProperties
<1>3. ASSUME NEW i \in 1 .. Len(s) PROVE (s \o t)[i] = s[i]
  BY <1>1, <1>2
<1>4. ASSUME NEW i \in 1 .. Len(t) PROVE (s \o t)[Len(s) + i] = t[i]
  <2>1. /\ Len(s) + i \in 1 .. Len(s) + Len(t) /\ ~(Len(s) + i <= Len(s))
        /\ Len(s) + i - Len(s) = i
    BY <1>1
  <2> QED BY <1>2, <2>1
<1> QED BY <1>2, <1>3, <1>4

(* t, of length n + m, is s, of length n, and then u.                       *)
Extends(t, s, u, n, m) ==
    /\ Len(t) = n + m
    /\ \A i \in 1 .. n : t[i] = s[i]
    /\ \A i \in 1 .. m : t[n + i] = u[i]

LEMMA AppendKeepsAndAdds ==
    ASSUME NEW b, IsBuffer(b), NEW src \in Seq(Byte), NEW c, c = AppendBytes(b, src)
    PROVE  /\ IsBuffer(c) /\ c.rpos = b.rpos
           /\ Extends(c.store, b.store, src, Len(b.store), Len(src))
<1>1. b.store \in Seq(Byte)
  BY DEF IsBuffer
<1>2. IsBuffer(c) /\ c.rpos = b.rpos /\ c.store = b.store \o src
  BY AppendAddsAtTheEnd
<1>3. Extends(b.store \o src, b.store, src, Len(b.store), Len(src))
  BY <1>1, PartsOfConcat DEF Extends
<1> QED BY <1>2, <1>3

(* The header has its size and says what it was given.                      *)
LEMMA HeaderIsWritten ==
    ASSUME NEW op \in Nat, NEW size \in Nat, NEW time \in Nat, time < Max32,
           NEW seq \in Nat, seq < Max32, NEW numbered \in BOOLEAN,
           NEW h, h = Header(op, size, time, seq, numbered)
    PROVE  /\ IsBuffer(h) /\ h.rpos = 0 /\ Len(h.store) = HeaderSize(numbered)
           /\ Says(h.store, op, size, time)
           /\ numbered => Numbers(h.store, seq)
<1> DEFINE a == AppendBytes(Empty, Uint16(op))
           b == AppendBytes(a, Uint16(size))
           c == AppendBytes(b, Uint32(time))
           d == AppendBytes(c, Uint32(seq))
<1>0. h = IF numbered THEN d ELSE c
  BY DEF Header
<1>a. /\ a = AppendBytes(Empty, Uint16(op)) /\ b = AppendBytes(a, Uint16(size))
      /\ c = AppendBytes(b, Uint32(time)) /\ d = AppendBytes(c, Uint32(seq))
  OBVIOUS
<1> HIDE DEF a, b, c, d
<1>1. /\ Uint16(op) \in Seq(Byte) /\ Len(Uint16(op)) = 2
      /\ Uint16(size) \in Seq(Byte) /\ Len(Uint16(size)) = 2
      /\ Uint32(time) \in Seq(Byte) /\ Len(Uint32(time)) = 4
      /\ Uint32(seq) \in Seq(Byte) /\ Len(Uint32(seq)) = 4
  BY Uint16IsRead, Uint32IsRead
<1>2. IsBuffer(Empty) /\ Empty.rpos = 0 /\ Len(Empty.store) = 0
  BY EmptyIsBuffer, EmptySeq DEF Empty
<1>3. /\ IsBuffer(a) /\ a.rpos = 0 /\ Len(a.store) = 2
      /\ Extends(a.store, Empty.store, Uint16(op), 0, 2)
  <2>1. IsBuffer(a) /\ a.rpos = 0 /\ Extends(a.store, Empty.store, Uint16(op), 0, 2)
    BY <1>a, <1>1, <1>2, AppendKeepsAndAdds
  <2> QED BY <2>1 DEF Extends
<1>4. /\ IsBuffer(b) /\ b.rpos = 0 /\ Len(b.store) = 4
      /\ Extends(b.store, a.store, Uint16(size), 2, 2)
  <2>1. IsBuffer(b) /\ b.rpos = 0 /\ Extends(b.store, a.store, Uint16(size), 2, 2)
    BY <1>a, <1>1, <1>3, AppendKeepsAndAdds, ZenonT(60)
  <2> QED BY <2>1 DEF Extends
<1>5. /\ IsBuffer(c) /\ c.rpos = 0 /\ Len(c.store) = 8
      /\ Extends(c.store, b.store, Uint32(time), 4, 4)
  <2>0. /\ IsBuffer(c) /\ c.rpos = b.rpos
        /\ Extends(c.store, b.store, Uint32(time), Len(b.store), Len(Uint32(time)))
    <3>1. IsBuffer(b) /\ Uint32(time) \in Seq(Byte) /\ c = AppendBytes(b, Uint32(time))
      BY <1>a, <1>1, <1>4
    <3> QED BY <3>1, AppendKeepsAndAdds
  <2>1. IsBuffer(c) /\ c.rpos = 0 /\ Extends(c.store, b.store, Uint32(time), 4, 4)
    BY <2>0, <1>1, <1>4
  <2> QED BY <2>1 DEF Extends
<1>6. /\ IsBuffer(d) /\ d.rpos = 0 /\ Len(d.store) = 12
      /\ Extends(d.store, c.store, Uint32(seq), 8, 4)
  <2>0. /\ IsBuffer(d) /\ d.rpos = c.rpos
        /\ Extends(d.store, c.store, Uint32(seq), Len(c.store), Len(Uint32(seq)))
    <3>1. IsBuffer(c) /\ Uint32(seq) \in Seq(Byte) /\ d = AppendBytes(c, Uint32(seq))
      BY <1>a, <1>1, <1>5
    <3> QED BY <3>1, AppendKeepsAndAdds
  <2>1. IsBuffer(d) /\ d.rpos = 0 /\ Extends(d.store, c.store, Uint32(seq), 8, 4)
    BY <2>0, <1>1, <1>5
  <2> QED BY <2>1 DEF Extends
<1>7. Says(c.store, op, size, time)
  <2>1. /\ c.store[1] = Uint16(op)[1] /\ c.store[2] = Uint16(op)[2]
        /\ c.store[3] = Uint16(size)[1] /\ c.store[4] = Uint16(size)[2]
        /\ c.store[5] = Uint32(time)[1] /\ c.store[6] = Uint32(time)[2]
        /\ c.store[7] = Uint32(time)[3] /\ c.store[8] = Uint32(time)[4]
    BY <1>3, <1>4, <1>5 DEF Extends
  <2> QED BY <2>1, Uint16IsRead, Uint32IsRead DEF Says
<1>8. Says(d.store, op, size, time)
  <2>1. \A i \in 1 .. 8 : d.store[i] = c.store[i]
    BY <1>6 DEF Extends
  <2> QED BY <1>7, <2>1, SaysTheSame
<1>9. Numbers(d.store, seq)
  <2>1. /\ d.store[9] = Uint32(seq)[1] /\ d.store[10] = Uint32(seq)[2]
        /\ d.store[11] = Uint32(seq)[3] /\ d.store[12] = Uint32(seq)[4]
    BY <1>6 DEF Extends
  <2> QED BY <2>1, Uint32IsRead DEF Numbers
<1>10. CASE numbered
  <2>1. h = d
    BY <1>0, <1>10
  <2>2. HeaderSize(numbered) = 12
    BY <1>10 DEF HeaderSize
  <2> QED BY <1>6, <1>8, <1>9, <2>1, <2>2
<1>11. CASE ~numbered
  <2>1. h = c
    BY <1>0, <1>11
  <2>2. HeaderSize(numbered) = 8
    BY <1>11 DEF HeaderSize
  <2> QED BY <1>5, <1>7, <1>11, <2>1, <2>2
<1> QED BY <1>10, <1>11

(* So does the packet, and its content follows the header.                  *)
LEMMA PacketIsWritten ==
    ASSUME NEW op \in Nat, NEW data \in Seq(Byte), NEW time \in Nat, time < Max32,
           NEW seq \in Nat, seq < Max32, NEW numbered \in BOOLEAN,
           NEW p, p = Incapsulate(op, data, time, seq, numbered)
    PROVE  /\ IsBuffer(p) /\ p.rpos = 0
           /\ Len(p.store) = HeaderSize(numbered) + Len(data)
           /\ Says(p.store, op, Len(data), time)
           /\ numbered => Numbers(p.store, seq)
           /\ \A i \in 1 .. Len(data) : p.store[HeaderSize(numbered) + i] = data[i]
<1> DEFINE h == Header(op, Len(data), time, seq, numbered)
<1>1. Len(data) \in Nat
  BY LenProperties
<1>2. /\ IsBuffer(h) /\ h.rpos = 0 /\ Len(h.store) = HeaderSize(numbered)
      /\ Says(h.store, op, Len(data), time)
      /\ numbered => Numbers(h.store, seq)
  BY <1>1, HeaderIsWritten
<1> HIDE DEF h
<1>3. HeaderSize(numbered) \in {8, 12} /\ (numbered => HeaderSize(numbered) = 12)
  BY DEF HeaderSize
<1>4. /\ IsBuffer(p) /\ p.rpos = 0 /\ Len(p.store) = HeaderSize(numbered) + Len(data)
      /\ \A i \in 1 .. HeaderSize(numbered) : p.store[i] = h.store[i]
      /\ \A i \in 1 .. Len(data) : p.store[HeaderSize(numbered) + i] = data[i]
  <2>1. CASE data = << >>
    <3>1. p = h
      BY <2>1 DEF Incapsulate, h
    <3>2. Len(data) = 0
      BY <2>1
    <3> QED BY <1>2, <1>3, <3>1, <3>2
  <2>2. CASE data # << >>
    <3>1. p = AppendBytes(h, data)
      BY <2>2 DEF Incapsulate, h
    <3>2. IsBuffer(p) /\ p.rpos = 0 /\ Extends(p.store, h.store, data, HeaderSize(numbered), Len(data))
      BY <1>2, <3>1, AppendKeepsAndAdds
    <3> QED BY <3>2 DEF Extends
  <2> QED BY <2>1, <2>2
<1>5. Says(p.store, op, Len(data), time)
  <2>1. \A i \in 1 .. 8 : i \in 1 .. HeaderSize(numbered)
    BY <1>3
  <2>2. \A i \in 1 .. 8 : p.store[i] = h.store[i]
    BY <1>4, <2>1
  <2> QED BY <1>2, <2>2, SaysTheSame
<1>6. ASSUME numbered PROVE Numbers(p.store, seq)
  <2>1. \A i \in 1 .. 12 : p.store[i] = h.store[i]
    BY <1>3, <1>4, <1>6
  <2>2. /\ p.store[9] = h.store[9] /\ p.store[10] = h.store[10]
        /\ p.store[11] = h.store[11] /\ p.store[12] = h.store[12]
    BY <2>1
  <2>3. Numbers(h.store, seq)
    BY <1>2, <1>6
  <2> QED BY <2>2, <2>3 DEF Numbers
<1> QED BY <1>4, <1>5, <1>6

-----------------------------------------------------------------------------
(* A packet that is neither too old nor numbered below the last one is read *)
(* with its operation, and with its content up to what the 16 bits of the   *)
(* size can say (Packet::Incapsulate, Packet::Decapsulate): of a content of *)
(* 65536 bytes or more the rest is lost without an error, which is why      *)
(* nothing of that length may reach Incapsulate.                            *)
THEOREM PacketIsRead ==
    ASSUME NEW op \in Nat, op < Max16, NEW data \in Seq(Byte), NEW time \in Nat, time < Max32,
           NEW seq \in Nat, seq < Max32, NEW numbered \in BOOLEAN,
           NEW now \in Nat, NEW old \in Nat, ~TooOld(time, now), numbered => old <= seq
    PROVE  Decapsulate(Incapsulate(op, data, time, seq, numbered), now, old, numbered)
             = IsPacket(op, SubSeq(data, 1, Len(data) % Max16))
<1> DEFINE p == Incapsulate(op, data, time, seq, numbered)
           header == HeaderSize(numbered)
           rest == Skip(p, header)
           size == Len(data) % Max16
<1>1. /\ IsBuffer(p) /\ p.rpos = 0
      /\ Len(p.store) = header + Len(data)
      /\ Says(p.store, op, Len(data), time)
      /\ numbered => Numbers(p.store, seq)
      /\ \A i \in 1 .. Len(data) : p.store[header + i] = data[i]
  BY PacketIsWritten
<1>2. header \in {8, 12} /\ (numbered => header = 12)
  BY DEF HeaderSize
<1>3. Len(data) \in Nat /\ size \in Nat /\ size <= Len(data) /\ Max16 = 65536
  BY LenProperties DEF Max16
<1> HIDE DEF p, header, size
<1>4. Size(p) = header + Len(data)
  BY <1>1 DEF Size
<1>5. OpOf(p) = op /\ SizeOf(p) = size /\ TimeOf(p) = time
  <2>1. Size(p) >= 8
    BY <1>2, <1>3, <1>4
  <2>2. OpOf(p) = op % Max16 /\ SizeOf(p) = Len(data) % Max16 /\ TimeOf(p) = time
    BY <1>1, <2>1, FieldsAreRead DEF Says
  <2>3. op % Max16 = op
    BY <1>3
  <2> QED BY <2>2, <2>3 DEF size
<1>6. ASSUME numbered PROVE ~(NumberOf(p) < old)
  <2>1. Size(p) >= 12
    BY <1>2, <1>3, <1>4, <1>6
  <2>2. Numbers(p.store, seq)
    BY <1>1, <1>6
  <2>3. NumberOf(p) = seq
    BY <1>1, <2>1, <2>2, NumberIsRead DEF Numbers
  <2> QED BY <1>6, <2>3
<1>7. rest.store = p.store /\ rest.rpos = header
  <2>1. p \in [store : Seq(Byte), rpos : Nat, wpos : Nat]
    BY <1>1 DEF IsBuffer
  <2>2. rest = [p EXCEPT !.rpos = p.rpos + header]
    BY DEF Skip
  <2>3. p.rpos + header = header
    BY <1>1, <1>2
  <2> QED BY <2>1, <2>2, <2>3
<1>8. ~(Size(p) = 0) /\ ~ReadThrows(p, header)
  BY <1>1, <1>2, <1>3, <1>4 DEF ReadThrows
<1>9. ~ReadThrows(rest, SizeOf(p))
  <2>1. Size(rest) = header + Len(data)
    BY <1>1, <1>7 DEF Size
  <2> QED BY <1>2, <1>3, <1>5, <1>7, <2>1 DEF ReadThrows
<1>10. Peek(rest, SizeOf(p)) = SubSeq(data, 1, size)
  <2> DEFINE first == header + 1
             last == header + size
             read == SubSeq(p.store, first, last)
             begun == SubSeq(data, 1, size)
  <2>1. Peek(rest, SizeOf(p)) = read
    BY <1>5, <1>7 DEF Peek
  <2>2. /\ first \in Int /\ last \in Int /\ last - first + 1 = size
        /\ (first <= last \/ size = 0) /\ (first <= last => last - first + 1 = size)
    BY <1>2, <1>3
  <2>3. \A i \in first .. last : p.store[i] \in Byte
    <3>1. p.store \in Seq(Byte)
      BY <1>1 DEF IsBuffer
    <3> QED BY <1>1, <1>2, <1>3, <3>1, ElementOfSeq
  <2>4. \A i \in 1 .. size : data[i] \in Byte
    BY <1>3, ElementOfSeq
  <2>5. \A i \in 1 .. size : p.store[first + i - 1] = data[i]
    <3>1. \A i \in 1 .. size : i \in 1 .. Len(data) /\ first + i - 1 = header + i
      BY <1>2, <1>3
    <3> QED BY <1>1, <3>1
  <2> HIDE DEF first, last
  <2>6. /\ read \in Seq(Byte) /\ Len(read) = IF first <= last THEN last - first + 1 ELSE 0
        /\ \A i \in 1 .. last - first + 1 : read[i] = p.store[first + i - 1]
    BY <2>2, <2>3, SubSeqProperties
  <2>7. /\ begun \in Seq(Byte) /\ Len(begun) = IF 1 <= size THEN size - 1 + 1 ELSE 0
        /\ \A i \in 1 .. size - 1 + 1 : begun[i] = data[1 + i - 1]
    <3>1. 1 \in Int /\ size \in Int
      BY <1>3
    <3>2. /\ SubSeq(data, 1, size) \in Seq(Byte)
          /\ Len(SubSeq(data, 1, size)) = IF 1 <= size THEN size - 1 + 1 ELSE 0
          /\ \A i \in 1 .. size - 1 + 1 : SubSeq(data, 1, size)[i] = data[i + 1 - 1]
      BY <2>4, <3>1, SubSeqProperties
    <3>3. \A i \in 1 .. size - 1 + 1 : data[i + 1 - 1] = data[1 + i - 1]
      BY <1>3
    <3> QED BY <3>2, <3>3
  <2> HIDE DEF read, begun
  <2>8. Len(read) = size /\ Len(begun) = size
    BY <1>3, <2>2, <2>6, <2>7
  <2>9. \A i \in 1 .. size : read[i] = begun[i]
    <3>1. \A i \in 1 .. size : read[i] = p.store[first + i - 1]
      BY <2>2, <2>6
    <3>2. \A i \in 1 .. size : begun[i] = data[i]
      <4>1. \A i \in 1 .. size : i \in 1 .. size - 1 + 1 /\ 1 + i - 1 = i
        BY <1>3
      <4> QED BY <2>7, <4>1
    <3> QED BY <2>5, <3>1, <3>2
  <2>10. read = begun
    BY <2>6, <2>7, <2>8, <2>9, SeqEqual
  <2> QED BY <2>1, <2>10 DEF begun
<1>11. ~TooOld(TimeOf(p), now) /\ ~(numbered /\ NumberOf(p) < old)
  BY <1>5, <1>6
<1>12. Decapsulate(p, now, old, numbered) = IsPacket(OpOf(p), Peek(rest, SizeOf(p)))
  BY <1>8, <1>9, <1>11 DEF Decapsulate, header
<1>13. Decapsulate(p, now, old, numbered) = IsPacket(op, SubSeq(data, 1, size))
  BY <1>5, <1>10, <1>12
<1> QED BY <1>13 DEF p, size

(* Up to that length, as it was written.                                    *)
THEOREM RoundTrip ==
    ASSUME NEW op \in Nat, op < Max16, NEW data \in Seq(Byte), Len(data) < Max16,
           NEW time \in Nat, time < Max32, NEW seq \in Nat, seq < Max32,
           NEW numbered \in BOOLEAN, NEW now \in Nat, NEW old \in Nat,
           ~TooOld(time, now), numbered => old <= seq
    PROVE  Decapsulate(Incapsulate(op, data, time, seq, numbered), now, old, numbered)
             = IsPacket(op, data)
<1>1. Len(data) \in Nat /\ Max16 = 65536
  BY LenProperties DEF Max16
<1>2. Len(data) % Max16 = Len(data)
  BY <1>1, Uint16Fits
<1>3. SubSeq(data, 1, Len(data)) = data
  BY SubSeqFull
<1>4. Decapsulate(Incapsulate(op, data, time, seq, numbered), now, old, numbered)
        = IsPacket(op, SubSeq(data, 1, Len(data) % Max16))
  BY PacketIsRead
<1> QED BY <1>2, <1>3, <1>4

(* A packet cut short anywhere, in its header or in its content, throws,    *)
(* and is never taken for a shorter packet (the short reads of a socket     *)
(* that the length before the packet lets through).                         *)
THEOREM ShortPacketThrows ==
    ASSUME NEW op \in Nat, NEW data \in Seq(Byte), Len(data) < Max16,
           NEW time \in Nat, time < Max32, NEW seq \in Nat, seq < Max32,
           NEW numbered \in BOOLEAN, NEW now, NEW old,
           NEW b, IsBuffer(b), b.rpos = 0, b.store # << >>,
           Len(b.store) < Len(Incapsulate(op, data, time, seq, numbered).store),
           \A i \in 1 .. Len(b.store) :
               b.store[i] = Incapsulate(op, data, time, seq, numbered).store[i]
    PROVE  Decapsulate(b, now, old, numbered) = Throws
<1> DEFINE p == Incapsulate(op, data, time, seq, numbered)
           header == HeaderSize(numbered)
           rest == Skip(b, header)
<1>1. /\ IsBuffer(p) /\ p.rpos = 0
      /\ Len(p.store) = header + Len(data)
      /\ Says(p.store, op, Len(data), time)
      /\ numbered => Numbers(p.store, seq)
      /\ \A i \in 1 .. Len(data) : p.store[header + i] = data[i]
  BY PacketIsWritten
<1>2. header \in {8, 12}
  BY DEF HeaderSize
<1>3. Len(data) \in Nat /\ Max16 = 65536 /\ Len(b.store) \in Nat
  BY LenProperties DEF Max16, IsBuffer
<1>4. Len(b.store) # 0
  <2>1. b.store \in Seq(Byte)
    BY DEF IsBuffer
  <2> QED BY <2>1, EmptySeq
<1>5. /\ Len(b.store) < Len(p.store)
      /\ \A i \in 1 .. Len(b.store) : b.store[i] = p.store[i]
  OBVIOUS
<1> HIDE DEF p, header
<1>6. CASE Len(b.store) < header
  <2>1. ReadThrows(b, header)
    BY <1>2, <1>3, <1>6 DEF ReadThrows, Size
  <2> QED BY <1>4, <2>1 DEF Decapsulate, Size, header
<1>7. CASE Len(b.store) >= header
  <2>1. Size(b) >= 8
    BY <1>2, <1>3, <1>7 DEF Size
  <2>2. b.store[3] = p.store[3] /\ b.store[4] = p.store[4]
    BY <1>2, <1>3, <1>5, <1>7
  <2>3. SizeOf(b) = Len(data) % Max16
    <3>1. SizeOf(b) = b.store[3] + 256 * b.store[4]
      BY <2>1, FieldsAreRead
    <3>2. p.store[3] + 256 * p.store[4] = Len(data) % Max16
      BY <1>1 DEF Says
    <3> QED BY <2>2, <3>1, <3>2
  <2>4. Len(data) % Max16 = Len(data)
    BY <1>3, Uint16Fits
  <2>5. rest.store = b.store /\ rest.rpos = header
    <3>1. b \in [store : Seq(Byte), rpos : Nat, wpos : Nat]
      BY DEF IsBuffer
    <3>2. rest = [b EXCEPT !.rpos = b.rpos + header]
      BY DEF Skip
    <3>3. b.rpos + header = header
      BY <1>2
    <3> QED BY <3>1, <3>2, <3>3
  <2>6. Size(rest) < header + Len(data)
    BY <1>1, <1>5, <2>5 DEF Size
  <2>7. ReadThrows(rest, SizeOf(b))
    BY <1>2, <1>3, <2>3, <2>4, <2>5, <2>6 DEF ReadThrows, Size
  <2> QED BY <1>4, <2>7 DEF Decapsulate, Size, header
<1> QED BY <1>2, <1>3, <1>6, <1>7

-----------------------------------------------------------------------------
Char == Byte \ {0}

(* The end of a string is the first 0, and what is read are the bytes       *)
(* before it.                                                               *)
LEMMA StringIsRead ==
    ASSUME NEW b, IsBuffer(b), NEW str \in Seq(Char),
           b.rpos + Len(str) + 1 <= Len(b.store), b.store[b.rpos + Len(str) + 1] = 0,
           \A i \in 1 .. Len(str) : b.store[b.rpos + i] = str[i]
    PROVE  ReadString(b) = str /\ StringEnd(b) = b.rpos + Len(str) + 1
<1> DEFINE end == b.rpos + Len(str) + 1
           IsEnd(e) == /\ e = Size(b) + 1 \/ b.store[e] = 0
                       /\ \A i \in b.rpos + 1 .. e - 1 : b.store[i] # 0
<1>1. /\ b.store \in Seq(Byte) /\ Len(b.store) \in Nat
      /\ b.rpos \in Nat /\ Len(str) \in Nat
  BY LenProperties DEF IsBuffer
<1>2. \A i \in 1 .. Len(str) : str[i] \in Char
  BY ElementOfSeq
<1>3. \A i \in b.rpos + 1 .. end - 1 : b.store[i] # 0
  <2> SUFFICES ASSUME NEW i \in b.rpos + 1 .. end - 1 PROVE b.store[i] # 0
    OBVIOUS
  <2>1. i - b.rpos \in 1 .. Len(str) /\ b.rpos + (i - b.rpos) = i
    BY <1>1, SMTT(30)
  <2>2. b.store[b.rpos + (i - b.rpos)] = str[i - b.rpos]
    BY <2>1
  <2>3. b.store[i] = str[i - b.rpos]
    BY <2>1, <2>2
  <2>4. str[i - b.rpos] \in Char
    BY <1>2, <2>1
  <2> QED BY <2>3, <2>4 DEF Char
<1>4. end \in b.rpos + 1 .. Size(b) + 1 /\ IsEnd(end)
  BY <1>1, <1>3 DEF Size
<1>5. ASSUME NEW e \in b.rpos + 1 .. Size(b) + 1, IsEnd(e) PROVE e = end
  <2>1. CASE e < end
    <3>1. e \in b.rpos + 1 .. end - 1 /\ e # Size(b) + 1
      BY <1>1, <2>1 DEF Size
    <3> QED BY <1>3, <1>5, <3>1
  <2>2. CASE end < e
    <3>1. end \in b.rpos + 1 .. e - 1
      BY <1>1, <1>4, <2>2 DEF Size
    <3> QED BY <1>5, <3>1
  <2> QED BY <1>1, <1>4, <2>1, <2>2 DEF Size
<1>6. StringEnd(b) = end
  <2>1. StringEnd(b) = CHOOSE e \in b.rpos + 1 .. Size(b) + 1 : IsEnd(e)
    BY DEF StringEnd
  <2> HIDE DEF IsEnd, end
  <2> QED BY <1>4, <1>5, <2>1
<1>7. SubSeq(b.store, b.rpos + 1, end - 1) = str
  <2> DEFINE first == b.rpos + 1
             last == end - 1
             read == SubSeq(b.store, first, last)
  <2>0. end - 1 = b.rpos + Len(str)
    BY <1>1
  <2>1. /\ first \in Int /\ last \in Int /\ last - first + 1 = Len(str)
        /\ (first <= last \/ Len(str) = 0)
    <3> HIDE DEF end
    <3> QED BY <1>1, <2>0
  <2>2. \A i \in 1 .. Len(str) : b.store[first + i - 1] = str[i]
    <3>1. \A i \in 1 .. Len(str) : first + i - 1 = b.rpos + i
      BY <1>1
    <3> QED BY <3>1
  <2>3. \A i \in first .. last : b.store[i] \in Byte
    <3>1. \A i \in first .. last : i \in 1 .. Len(b.store)
      BY <1>1
    <3> QED BY <1>1, <3>1, ElementOfSeq
  <2>4. str \in Seq(Byte)
    <3>1. Char \subseteq Byte
      BY DEF Char
    <3> QED BY <3>1, SeqMonotonic
  <2> HIDE DEF first, last
  <2>5. /\ read \in Seq(Byte) /\ Len(read) = IF first <= last THEN last - first + 1 ELSE 0
        /\ \A i \in 1 .. last - first + 1 : read[i] = b.store[first + i - 1]
    BY <2>1, <2>3, SubSeqProperties
  <2> HIDE DEF read
  <2>6. Len(read) = Len(str)
    BY <1>1, <2>1, <2>5
  <2>7. \A i \in 1 .. Len(str) : read[i] = str[i]
    BY <2>1, <2>2, <2>5
  <2>8. read = str
    BY <2>4, <2>5, <2>6, <2>7, SeqEqual
  <2> QED BY <2>8 DEF read, first, last
<1> QED BY <1>6, <1>7 DEF ReadString

(* The name of a login request is read from its content as it was written,  *)
(* whatever follows it (Packet::Decrypt reads it before the packet is       *)
(* decapsulated): the server looks up the key of the user who asks.         *)
THEOREM UserIsRead ==
    ASSUME NEW op \in Nat, NEW name \in Seq(Char), NEW data \in Seq(Byte),
           Len(name) < Len(data), data[Len(name) + 1] = 0,
           \A i \in 1 .. Len(name) : data[i] = name[i],
           NEW time \in Nat, time < Max32, NEW seq \in Nat, seq < Max32,
           NEW numbered \in BOOLEAN, ~numbered
    PROVE  UserOf(Incapsulate(op, data, time, seq, numbered)) = name
<1> DEFINE p == Incapsulate(op, data, time, seq, numbered)
           b == Skip(p, 8)
<1>0. Len(name) \in Nat /\ Len(data) \in Nat
  BY LenProperties
<1>1. HeaderSize(numbered) = 8 /\ HeaderSize(FALSE) = 8
  BY DEF HeaderSize
<1>2. /\ IsBuffer(p) /\ p.rpos = 0 /\ Len(p.store) = 8 + Len(data)
      /\ \A i \in 1 .. Len(data) : p.store[8 + i] = data[i]
  <2>1. /\ IsBuffer(p) /\ p.rpos = 0
        /\ Len(p.store) = HeaderSize(numbered) + Len(data)
        /\ Says(p.store, op, Len(data), time)
        /\ numbered => Numbers(p.store, seq)
        /\ \A i \in 1 .. Len(data) : p.store[HeaderSize(numbered) + i] = data[i]
    BY PacketIsWritten
  <2> QED BY <1>1, <2>1
<1> HIDE DEF p
<1>3. IsBuffer(b) /\ b.rpos = 8 /\ b.store = p.store
  <2>1. p \in [store : Seq(Byte), rpos : Nat, wpos : Nat] /\ p.wpos = Len(p.store)
    BY <1>2 DEF IsBuffer
  <2>2. b = [p EXCEPT !.rpos = p.rpos + 8]
    BY DEF Skip
  <2>3. p.rpos + 8 = 8
    BY <1>2
  <2>4. /\ b \in [store : Seq(Byte), rpos : Nat, wpos : Nat]
        /\ b.store = p.store /\ b.rpos = 8 /\ b.wpos = p.wpos
    BY <2>1, <2>2, <2>3
  <2>5. 8 <= p.wpos
    BY <1>0, <1>2, <2>1
  <2> QED BY <2>1, <2>4, <2>5 DEF IsBuffer
<1> HIDE DEF b
<1>4. /\ b.rpos + Len(name) + 1 <= Len(b.store)
      /\ b.store[b.rpos + Len(name) + 1] = 0
      /\ \A i \in 1 .. Len(name) : b.store[b.rpos + i] = name[i]
  <2>1. \A i \in 1 .. Len(name) : i \in 1 .. Len(data)
    BY <1>0
  <2>2. \A i \in 1 .. Len(name) : b.store[8 + i] = name[i]
    BY <1>2, <1>3, <2>1
  <2>3. Len(name) + 1 \in 1 .. Len(data) /\ 8 + (Len(name) + 1) = 8 + Len(name) + 1
    BY <1>0
  <2>4. b.store[8 + Len(name) + 1] = 0
    BY <1>2, <1>3, <2>3
  <2>5. 8 + Len(name) + 1 <= Len(b.store)
    BY <1>0, <1>2, <1>3
  <2> QED BY <1>3, <2>2, <2>4, <2>5
<1>5. ReadString(b) = name
  BY <1>3, <1>4, StringIsRead
<1> QED BY <1>1, <1>5 DEF UserOf, b, p

(* A string that is appended is read back, and the reading goes on behind   *)
(* it: the names of the keys that SessionBase passes to Packet::Encrypt and *)
(* Decrypt, one after the other.                                            *)
THEOREM StringIsKept ==
    ASSUME NEW b, IsBuffer(b), NEW str \in Seq(Char),
           NEW c, c = [AppendString(b, str) EXCEPT !.rpos = b.wpos]
    PROVE  ReadString(c) = str /\ AfterString(c).rpos = Size(c)
<1> DEFINE chars == IF str = << >> THEN b ELSE AppendBytes(b, str)
           s == AppendBytes(chars, << 0 >>)
<1>1. /\ b.store \in Seq(Byte) /\ Len(b.store) \in Nat /\ b.wpos = Len(b.store)
      /\ b.rpos \in Nat /\ Len(str) \in Nat
  BY LenProperties DEF IsBuffer
<1>2. str \in Seq(Byte) /\ << 0 >> \in Seq(Byte) /\ Len(<< 0 >>) = 1 /\ << 0 >>[1] = 0
  <2>1. Char \subseteq Byte /\ 0 \in Byte
    BY DEF Char, Byte
  <2>2. str \in Seq(Byte)
    BY <2>1, SeqMonotonic
  <2> QED BY <2>1, <2>2
<1>3. IsBuffer(chars) /\ Extends(chars.store, b.store, str, Len(b.store), Len(str))
  <2>1. CASE str = << >>
    <3>1. chars = b /\ Len(str) = 0
      BY <2>1
    <3> HIDE DEF chars
    <3> QED BY <1>1, <3>1 DEF Extends
  <2>2. CASE str # << >>
    <3>1. chars = AppendBytes(b, str)
      BY <2>2
    <3> HIDE DEF chars
    <3> QED BY <1>2, <3>1, AppendKeepsAndAdds
  <2> QED BY <2>1, <2>2
<1> HIDE DEF chars
<1>4. IsBuffer(s) /\ Extends(s.store, chars.store, << 0 >>, Len(chars.store), 1)
  BY <1>2, <1>3, AppendKeepsAndAdds
<1> HIDE DEF s
<1>5. c = [s EXCEPT !.rpos = b.wpos]
  BY DEF AppendString, s, chars
<1>6. /\ Len(s.store) = Len(b.store) + Len(str) + 1
      /\ s.store[Len(b.store) + Len(str) + 1] = 0
      /\ \A i \in 1 .. Len(str) : s.store[Len(b.store) + i] = str[i]
  <2>1. Len(chars.store) = Len(b.store) + Len(str)
    BY <1>3 DEF Extends
  <2>2. s.store[Len(chars.store) + 1] = << 0 >>[1]
    BY <1>4 DEF Extends
  <2>3. \A i \in 1 .. Len(str) : Len(b.store) + i \in 1 .. Len(chars.store)
    BY <1>1, <2>1
  <2>4. \A i \in 1 .. Len(str) : s.store[Len(b.store) + i] = chars.store[Len(b.store) + i]
    BY <1>4, <2>3 DEF Extends
  <2>5. Len(s.store) = Len(chars.store) + 1
    BY <1>4 DEF Extends
  <2> QED BY <1>2, <1>3, <2>1, <2>2, <2>4, <2>5 DEF Extends
<1>7. IsBuffer(c) /\ c.rpos = Len(b.store) /\ c.store = s.store
  <2>1. s \in [store : Seq(Byte), rpos : Nat, wpos : Nat] /\ s.wpos = Len(s.store)
    BY <1>4 DEF IsBuffer
  <2>2. /\ c \in [store : Seq(Byte), rpos : Nat, wpos : Nat]
        /\ c.store = s.store /\ c.rpos = Len(b.store) /\ c.wpos = s.wpos
    BY <1>1, <1>5, <2>1
  <2>3. Len(b.store) <= Len(s.store)
    BY <1>1, <1>6
  <2> QED BY <2>1, <2>2, <2>3 DEF IsBuffer
<1>8. ReadString(c) = str /\ StringEnd(c) = Len(b.store) + Len(str) + 1
  <2>1. /\ c.rpos + Len(str) + 1 <= Len(c.store)
        /\ c.store[c.rpos + Len(str) + 1] = 0
        /\ \A i \in 1 .. Len(str) : c.store[c.rpos + i] = str[i]
    BY <1>1, <1>6, <1>7
  <2>2. ReadString(c) = str /\ StringEnd(c) = c.rpos + Len(str) + 1
    <3>1. IsBuffer(c)
      BY <1>7
    <3> QED BY <2>1, <3>1, StringIsRead, ZenonT(60)
  <2> QED BY <1>7, <2>2
<1>9. Size(c) = Len(b.store) + Len(str) + 1
  BY <1>6, <1>7 DEF Size
<1>10. AfterString(c).rpos = Size(c)
  <2>1. c \in [store : Seq(Byte), rpos : Nat, wpos : Nat]
    BY <1>7 DEF IsBuffer
  <2>2. StringEnd(c) = Size(c)
    BY <1>8, <1>9
  <2> QED BY <2>1, <2>2 DEF AfterString
<1> QED BY <1>8, <1>10

-----------------------------------------------------------------------------
(* Whatever arrives, the number below which packets are replays never goes  *)
(* down, and a numbered packet that is let through is not below it          *)
(* (Packet::Decapsulate).                                                   *)
THEOREM NumbersNeverFall ==
    ASSUME NEW b, IsBuffer(b), b.rpos = 0, NEW now \in Nat, NEW old \in Nat,
           NEW numbered \in BOOLEAN
    PROVE  /\ NumberAfter(b, now, old, numbered) >= old
           /\ numbered /\ Decapsulate(b, now, old, numbered).is = "packet"
                => NumberAfter(b, now, old, numbered) = NumberOf(b)
<1>1. CASE ~(numbered /\ Decapsulate(b, now, old, numbered).is = "packet")
  BY <1>1 DEF NumberAfter
<1>2. CASE numbered /\ Decapsulate(b, now, old, numbered).is = "packet"
  <2>1. HeaderSize(numbered) = 12
    BY <1>2 DEF HeaderSize
  <2>2. /\ Size(b) # 0 /\ ~ReadThrows(b, 12)
        /\ ~(TooOld(TimeOf(b), now) \/ (numbered /\ NumberOf(b) < old))
    BY <1>2, <2>1 DEF Decapsulate, Ignored, Throws
  <2>3. Size(b) \in Nat /\ Size(b) >= 12
    <3>1. Size(b) \in Nat
      BY LenProperties DEF IsBuffer, Size
    <3> QED BY <2>2, <3>1 DEF ReadThrows
  <2>4. NumberOf(b) \in Nat
    <3>1. NumberOf(b) = b.store[9] + 256 * b.store[10] + 65536 * b.store[11]
                       + 16777216 * b.store[12]
      BY <2>3, NumberIsRead
    <3>2. b.store \in Seq(Byte)
      BY DEF IsBuffer
    <3>3. \A i \in 1 .. Len(b.store) : b.store[i] \in Byte
      BY <3>2, ElementOfSeq
    <3>4. /\ b.store[9] \in Byte /\ b.store[10] \in Byte
          /\ b.store[11] \in Byte /\ b.store[12] \in Byte
      BY <2>3, <3>3 DEF Size
    <3>5. \A x \in Byte : x \in Nat
      BY DEF Byte
    <3>6. /\ b.store[9] \in Nat /\ b.store[10] \in Nat
          /\ b.store[11] \in Nat /\ b.store[12] \in Nat
      BY <3>4, <3>5
    <3> QED BY <3>1, <3>6
  <2>5. NumberAfter(b, now, old, numbered) = NumberOf(b)
    BY <1>2 DEF NumberAfter
  <2>6. ~(NumberOf(b) < old)
    BY <1>2, <2>2
  <2> QED BY <2>4, <2>5, <2>6
<1> QED BY <1>1, <1>2
=============================================================================
