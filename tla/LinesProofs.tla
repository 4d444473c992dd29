---------------------------- MODULE LinesProofs ----------------------------
(***************************************************************************)
(* Proofs about Lines, for any set of lines and any number of them.        *)
(***************************************************************************)
EXTENDS Lines, FiniteSetTheorems, SequenceTheorems, TLAPS

-----------------------------------------------------------------------------
(* What a command may do.                                                    *)

Parts == STRING \cup {"j", "oin", "c", "reate", "l", "eave", "i", "nfo", "ist", "k", "ick",
                     "hannel", "u", "tility", "p", "ing", "ommands", "h", "elp", "w", "hisp",
                     "send"}
Words == Seq(Parts)

Says == {"available", "names", "subcommands", "syntax", "no subcommand", "no help", "no command",
         "too long", "join help", "create help", "list help", "help"}
Outcomes == [ok : BOOLEAN, says : Seq(Says), sends : Seq([op : Kinds, arg : Words])]

\* Help that succeeds shows something, and none sends anything.
Answers(d) == d \in Outcomes /\ d.sends = << >> /\ (d.ok => d.says # << >>)

\* A command sends at most one packet.
Ops(d) == {p.op : p \in Range(d.sends)}
SendsOne(d) == /\ d \in Outcomes
               /\ \/ d.sends = << >> /\ Ops(d) = {}
                  \/ \E p \in [op : Kinds, arg : Words] : d.sends = << p >> /\ Ops(d) = {p.op}


-----------------------------------------------------------------------------
(* The inductive invariant.                                                 *)

Packet == [op : Kinds, seq : Nat, frame : Nat \ {0}]

\* Byte i of the frame of packet k and its length.
Bytes(packets) == {b \in [k : DOMAIN packets, i : Nat \ {0}] : b.i <= packets[b.k].frame + 2}

Types ==
    /\ typed \in Seq(Typeable) /\ Len(typed) <= MaxLines
    /\ sent \in Seq(Packet) /\ Len(sent) <= Len(typed)
    /\ \A k \in DOMAIN sent : sent[k].seq = k - 1
    /\ wire \in Seq(Bytes(sent)) /\ arrived \in Seq(Bytes(sent))
    /\ reading \in 1 .. MaxFrame \cup {NotReading}
    /\ open \in BOOLEAN /\ late \in BOOLEAN /\ joined \in BOOLEAN
    /\ seqIn \in 0 .. MaxLines
    /\ recvq \in Seq(0 .. Len(sent))
    /\ handled \in Seq([n : 1 .. Len(sent), with : {"relayed", "answered"}])
    /\ past \subseteq {"oversize", "short", "garbled"}

\* Every line that sent something has a packet.
Sends(i) == Effect[typed[i]].sends # << >>
Counted == /\ Len(sent) = Cardinality({j \in DOMAIN typed : Sends(j)})
           /\ \A i \in DOMAIN typed : Sends(i) => PacketOf(i) \in DOMAIN sent

\* The bytes that the server has not taken: from each of them to the end of its frame none is
\* missing, then comes the next packet, and the last packet is the last one sent.
Stream == arrived \o wire
Left(packets, b) == packets[b.k].frame + 2 - b.i
Goes(packets, s, p, left) ==
    /\ p + left <= Len(s)
    /\ \A d \in 0 .. left : s[p + d] = [k |-> s[p].k, i |-> s[p].i + d]
    /\ p + left = Len(s) => s[p].k = Len(packets)
    /\ p + left # Len(s) => s[p + left + 1] = [k |-> s[p].k + 1, i |-> 1]
Flows(packets, s) == \A p \in 1 .. Len(s) : Goes(packets, s, p, Left(packets, s[p]))

\* While nothing has happened that counts as an excuse: the receiver is at the beginning of a
\* packet, or after its length.
Placed(s) == IF reading = NotReading THEN s # << >> => s[1].i = 1
             ELSE s # << >> /\ s[1].i = 3 /\ reading = sent[s[1].k].frame

\* The packets before that one were handled or are in the queue, in their order.
Received(s) == IF s = << >> THEN Len(sent) ELSE s[1].k - 1
Ordered(s) == IF late THEN handled = << >> /\ recvq = << >>
              ELSE /\ \A j \in DOMAIN handled : handled[j].n = j
                   /\ \A j \in DOMAIN recvq : recvq[j] = Len(handled) + j
                   /\ open => /\ Len(handled) + Len(recvq) = Received(s)
                              /\ seqIn <= Len(handled) + Len(recvq)

Aligned ==
    IF past \cap {"oversize", "short"} = {}
    THEN /\ past = {}
         /\ \A k \in DOMAIN sent : sent[k].frame < LenMod
         /\ open => Placed(Stream)
         /\ Ordered(Stream)
         /\ open \/ \E k \in DOMAIN sent : sent[k].frame > MaxFrame
    ELSE TRUE

IInv == Types /\ Counted /\ Flows(sent, Stream) /\ Aligned
-----------------------------------------------------------------------------
(* The tables of commands.                                                  *)

\* The first index of a table with a property, for tables of at most six entries.
LEMMA MinFacts ==
  ASSUME NEW I \in SUBSET (1 .. 6), I # {}
  PROVE  Min(I) \in I /\ \A i \in I : Min(I) <= i
<1>1. \E m \in I : \A i \in I : m <= i
  <2>0. I \subseteq {1, 2, 3, 4, 5, 6}
    OBVIOUS
  <2>1. CASE 1 \in I
    BY <2>1
  <2>2. CASE 1 \notin I /\ 2 \in I
    BY <2>2
  <2>3. CASE 1 \notin I /\ 2 \notin I /\ 3 \in I
    BY <2>3
  <2>4. CASE 1 \notin I /\ 2 \notin I /\ 3 \notin I /\ 4 \in I
    BY <2>4
  <2>5. CASE 1 \notin I /\ 2 \notin I /\ 3 \notin I /\ 4 \notin I /\ 5 \in I
    BY <2>5
  <2>6. CASE I = {6}
    BY <2>6
  <2> QED BY <2>0, <2>1, <2>2, <2>3, <2>4, <2>5, <2>6, Zenon
<1> QED BY <1>1 DEF Min

\* Every name has two parts, so a word abbreviates it by the first or is both.
LEMMA AbbrFacts ==
  ASSUME NEW S, NEW a \in S, NEW b \in S, NEW word \in Seq(S)
  PROVE  HasStringAbbr(<<a, b>>, word) <=> word = <<a>> \/ word = <<a, b>>
<1> DEFINE name == <<a, b>>
<1>1. /\ Len(word) \in Nat /\ word \in [1 .. Len(word) -> S]
      /\ name \in Seq(S) /\ Len(name) = 2 /\ name[1] = a /\ name[2] = b
  BY LenProperties
<1>2. word = << >> <=> Len(word) = 0
  BY <1>1
<1>3. Len(word) = 1 => word = <<word[1]>>
  BY <1>1
<1>4. Len(word) = 2 => word = <<word[1], word[2]>>
  BY <1>1
<1>5. SubSeq(word, 1, Len(word)) = word
  BY SubSeqFull
<1>6. SubSeq(name, 1, 2) = name
  BY <1>1, SubSeqFull
<1>7. SubSeq(name, 1, 1) = << a >>
  <2>1. \A i \in 1 .. 1 : name[i] \in S
    BY <1>1
  <2>2. /\ SubSeq(name, 1, 1) \in Seq(S) /\ Len(SubSeq(name, 1, 1)) = 1
        /\ SubSeq(name, 1, 1)[1] = a
    BY <1>1, <2>1, SubSeqProperties
  <2>3. << a >> \in Seq(S) /\ Len(<< a >>) = 1 /\ << a >>[1] = a
    OBVIOUS
  <2>4. \A i \in 1 .. Len(SubSeq(name, 1, 1)) : SubSeq(name, 1, 1)[i] = << a >>[i]
    BY <2>2, <2>3
  <2> QED BY <2>2, <2>3, <2>4, SeqEqual
<1> HIDE DEF name
<1>8. HasStringAbbr(name, word) <=>
        word # << >> /\ Len(word) <= 2 /\ word = SubSeq(name, 1, Len(word))
  BY <1>1, <1>5 DEF HasStringAbbr, IsPrefix
<1>9. CASE Len(word) \notin {1, 2}
  <2>1. word # <<a>> /\ word # <<a, b>>
    BY <1>9
  <2> QED BY <1>1, <1>2, <1>8, <1>9, <2>1 DEF name
<1>10. CASE Len(word) = 1
  BY <1>2, <1>7, <1>8, <1>10 DEF name
<1>11. CASE Len(word) = 2
  BY <1>2, <1>6, <1>8, <1>11 DEF name
<1> QED BY <1>9, <1>10, <1>11 DEF name

LEMMA OneToSix == 1 .. 6 = {1, 2, 3, 4, 5, 6}
OBVIOUS

LEMMA TablesFacts ==
  /\ Len(CommandTable) = 6 /\ DOMAIN CommandTable = 1 .. 6
  /\ Len(ChannelCommands) = 6 /\ DOMAIN ChannelCommands = 1 .. 6
BY DEF CommandTable, ChannelCommands

LEMMA CommandEntries ==
  /\ CommandTable[1].name = <<"c", "hannel">> /\ CommandTable[2].name = <<"u", "tility">> /\ CommandTable[3].name = <<"p", "ing">>
  /\ CommandTable[4].name = <<"c", "ommands">> /\ CommandTable[5].name = <<"h", "elp">> /\ CommandTable[6].name = <<"w", "hisp">>
  /\ CommandTable[1].run = "" /\ CommandTable[2].run = "" /\ CommandTable[3].run = "ping"
  /\ CommandTable[4].run = "commands" /\ CommandTable[5].run = "help" /\ CommandTable[6].run = "whisp"
  /\ CommandTable[1].help = "" /\ CommandTable[2].help = "" /\ CommandTable[3].help = ""
  /\ CommandTable[4].help = "" /\ CommandTable[5].help = "help" /\ CommandTable[6].help = ""
  /\ CommandTable[1].sub = ChannelCommands /\ CommandTable[2].sub = << >> /\ CommandTable[3].sub = << >>
  /\ CommandTable[4].sub = << >> /\ CommandTable[5].sub = << >> /\ CommandTable[6].sub = << >>
BY DEF CommandTable, Command

LEMMA ChannelEntries ==
  /\ ChannelCommands[1].name = <<"j", "oin">> /\ ChannelCommands[2].name = <<"c", "reate">> /\ ChannelCommands[3].name = <<"l", "eave">>
  /\ ChannelCommands[4].name = <<"i", "nfo">> /\ ChannelCommands[5].name = <<"l", "ist">> /\ ChannelCommands[6].name = <<"k", "ick">>
  /\ ChannelCommands[1].run = "join" /\ ChannelCommands[2].run = "create" /\ ChannelCommands[3].run = "leave"
  /\ ChannelCommands[4].run = "info" /\ ChannelCommands[5].run = "list" /\ ChannelCommands[6].run = "kick"
  /\ ChannelCommands[1].help = "join help" /\ ChannelCommands[2].help = "create help" /\ ChannelCommands[3].help = "list help"
  /\ ChannelCommands[4].help = "" /\ ChannelCommands[5].help = "" /\ ChannelCommands[6].help = ""
  /\ ChannelCommands[1].sub = << >> /\ ChannelCommands[2].sub = << >> /\ ChannelCommands[3].sub = << >>
  /\ ChannelCommands[4].sub = << >> /\ ChannelCommands[5].sub = << >> /\ ChannelCommands[6].sub = << >>
BY DEF ChannelCommands, Command

\* The entry that is chosen is one the word abbreviates.
LEMMA ChosenFacts ==
  ASSUME NEW table, Len(table) \in 0 .. 6, DOMAIN table = 1 .. Len(table), NEW word, NEW caps,
         NEW e, e = ChosenEntry(table, word, caps)
  PROVE  /\ e # 0 => e \in DOMAIN table /\ HasStringAbbr(table[e].name, word)
         /\ \A i \in DOMAIN table : table[i].name = word /\ HasStringAbbr(table[i].name, word) => e # 0
<1> DEFINE InFull == ~caps /\ \E i \in DOMAIN table : table[i].name = word
           I == {i \in 1 .. Len(table) : /\ HasStringAbbr(table[i].name, word)
                                         /\ ~(Len(table[i].name) > Len(word) /\ InFull)}
<1>1. e = IF I # {} THEN Min(I) ELSE 0
  BY DEF ChosenEntry, First, SelectInSeq
<1>2. I \in SUBSET (1 .. 6)
  OBVIOUS
<1> HIDE DEF InFull
<1>3. ASSUME NEW i \in DOMAIN table, table[i].name = word, HasStringAbbr(table[i].name, word)
      PROVE  i \in I
  BY <1>3
<1>4. \A i \in I : HasStringAbbr(table[i].name, word)
  OBVIOUS
<1> HIDE DEF I
<1>5. I # {} => Min(I) \in I /\ Min(I) \in 1 .. 6
  BY <1>2, MinFacts
<1>6. CASE I = {}
  BY <1>1, <1>3, <1>6
<1>7. CASE I # {}
  <2>1. e \in I /\ e # 0
    BY <1>1, <1>5, <1>7
  <2>2. e \in DOMAIN table
    BY <2>1 DEF I
  <2> QED BY <1>4, <2>1, <2>2
<1> QED BY <1>6, <1>7

\* The same for the help.
LEMMA HelpEntryFacts ==
  ASSUME NEW table, Len(table) \in 0 .. 6, NEW words
  PROVE  HelpEntry(table, words) \in 0 .. Len(table)
<1> DEFINE I == {i \in 1 .. Len(table) : HasStringAbbr(table[i].name, Word(words))}
           e == HelpEntry(table, words)
<1>1. e = IF I # {} THEN Min(I) ELSE 0
  BY DEF HelpEntry, First, SelectInSeq
<1>2. I \in SUBSET (1 .. 6) /\ I \subseteq 1 .. Len(table)
  OBVIOUS
<1> SUFFICES e \in 0 .. Len(table)
  OBVIOUS
<1> HIDE DEF I, e
<1>3. I # {} => Min(I) \in I
  BY <1>2, MinFacts
<1>4. CASE I = {}
  BY <1>1, <1>4
<1>5. CASE I # {}
  <2>1. e \in 1 .. Len(table)
    BY <1>1, <1>2, <1>3, <1>5, Zenon
  <2> QED BY <2>1
<1> QED BY <1>4, <1>5

-----------------------------------------------------------------------------
(* What is shown and sent.                                                  *)

LEMMA ShortSeqs ==
  ASSUME NEW S
  PROVE  /\ << >> \in Seq(S) /\ << >> \o << >> = << >>
         /\ \A x \in S : << x >> \in Seq(S) /\ << x >> # << >>
         /\ \A x, y \in S : << x, y >> \in Seq(S) /\ << x, y >> # << >>
<1>1. << >> \in Seq(S) /\ << >> \o << >> = << >>
  BY EmptySeq, ConcatEmptySeq
<1>2. ASSUME NEW x \in S
      PROVE  << x >> \in Seq(S) /\ << x >> # << >>
  OBVIOUS
<1>3. ASSUME NEW x \in S, NEW y \in S
      PROVE  << x, y >> \in Seq(S) /\ << x, y >> # << >>
  OBVIOUS
<1> QED BY <1>1, <1>2, <1>3

LEMMA AddsTo ==
  ASSUME NEW S, NEW s \in Seq(S), NEW t \in Seq(S)
  PROVE  s \o t \in Seq(S) /\ (s # << >> \/ t # << >> => s \o t # << >>)
BY ConcatProperties, ConcatEqualIffEmpty

LEMMA Shown ==
  /\ << "available", "names" >> \in Seq(Says) /\ << "available", "names" >> # << >>
  /\ \A s \in Says : << s >> \in Seq(Says) /\ << s >> # << >>
<1>1. "available" \in Says /\ "names" \in Says
  BY DEF Says
<1> QED BY <1>1, ShortSeqs, Zenon

LEMMA WordsFacts ==
  ASSUME NEW words \in Seq(Words)
  PROVE  /\ Word(words) \in Words /\ Rest(words) \in Seq(Words)
         /\ words # << >> => Word(words) = words[1] /\ Len(words) >= 1
         /\ Rest(words) # << >> =>
              Len(words) >= 2 /\ Word(Rest(words)) = words[2] /\ words # << >>
<1>1. CASE words = << >>
  BY <1>1, EmptySeq DEF Word, Rest, Words
<1>2. CASE words # << >>
  <2>1. Word(words) = Head(words) /\ Rest(words) = Tail(words)
    BY <1>2 DEF Word, Rest
  <2>2. /\ Head(words) \in Words /\ Tail(words) \in Seq(Words) /\ Len(Tail(words)) = Len(words) - 1
        /\ \A i \in 1 .. Len(Tail(words)) : Tail(words)[i] = words[i + 1]
    BY <1>2, HeadTailProperties
  <2>3. Len(words) \in Nat /\ Len(words) >= 1 /\ Head(words) = words[1]
    BY <1>2, EmptySeq
  <2>4. ASSUME Tail(words) # << >>
        PROVE  Len(words) >= 2 /\ Word(Tail(words)) = words[2]
    <3>1. Len(Tail(words)) >= 1 /\ Len(Tail(words)) \in Nat
      BY <2>2, <2>4, EmptySeq
    <3>2. Word(Tail(words)) = Head(Tail(words)) /\ Head(Tail(words)) = Tail(words)[1]
      BY <2>2, <2>4 DEF Word
    <3> QED BY <2>2, <2>3, <3>1, <3>2
  <2> QED BY <1>2, <2>1, <2>2, <2>3, <2>4
<1> QED BY <1>1, <1>2

LEMMA DoesFacts ==
  ASSUME NEW ok \in BOOLEAN, NEW says \in Seq(Says)
  PROVE  /\ Does(ok, says, << >>) \in Outcomes
         /\ Does(ok, says, << >>).ok = ok
         /\ Does(ok, says, << >>).says = says /\ Does(ok, says, << >>).sends = << >>
         /\ SendsOne(Does(ok, says, << >>)) /\ Ops(Does(ok, says, << >>)) = {}
         /\ (ok => says # << >>) => Answers(Does(ok, says, << >>))
BY DEF Does, Outcomes, SendsOne, Ops, Range, Answers

LEMMA PackFacts ==
  ASSUME NEW op \in Kinds, NEW arg \in Words
  PROVE  /\ Does(TRUE, << >>, << Pack(op, arg) >>) \in Outcomes
         /\ Does(TRUE, << >>, << Pack(op, arg) >>).ok
         /\ Does(TRUE, << >>, << Pack(op, arg) >>).says = << >>
         /\ Does(TRUE, << >>, << Pack(op, arg) >>).sends = << Pack(op, arg) >>
         /\ SendsOne(Does(TRUE, << >>, << Pack(op, arg) >>))
         /\ Ops(Does(TRUE, << >>, << Pack(op, arg) >>)) = {op}
<1>1. Pack(op, arg) \in [op : Kinds, arg : Words] /\ Pack(op, arg).op = op
  BY DEF Pack
<1>2. Range(<< Pack(op, arg) >>) = {Pack(op, arg)}
  BY DEF Range
<1> HIDE DEF Pack
<1>3. << Pack(op, arg) >> \in Seq([op : Kinds, arg : Words]) /\ << >> \in Seq(Says)
  BY <1>1
<1>4. Ops(Does(TRUE, << >>, << Pack(op, arg) >>)) = {op}
  BY <1>1, <1>2 DEF Ops, Does
<1> QED BY <1>1, <1>3, <1>4 DEF Does, Outcomes, SendsOne

LEMMA ThenFacts ==
  ASSUME NEW a, Answers(a), NEW b, Answers(b)
  PROVE  Answers(Then(a, b)) /\ Then(a, b).says = a.says \o b.says
<1>1. /\ a.says \in Seq(Says) /\ b.says \in Seq(Says) /\ b.ok \in BOOLEAN
      /\ a.sends = << >> /\ b.sends = << >> /\ (b.ok => b.says # << >>)
  BY DEF Answers, Outcomes
<1>2. /\ a.says \o b.says \in Seq(Says)
      /\ b.says # << >> => a.says \o b.says # << >>
  BY <1>1, AddsTo
<1>3. a.sends \o b.sends = << >>
  BY <1>1, ShortSeqs, Zenon
<1>4. Then(a, b) = Does(b.ok, a.says \o b.says, << >>)
  BY <1>3 DEF Then
<1>5. PICK ok \in BOOLEAN : ok = b.ok
  BY <1>1
<1>6. PICK says \in Seq(Says) : says = a.says \o b.says
  BY <1>2
<1>7. Answers(Does(ok, says, << >>)) /\ Does(ok, says, << >>).says = says
  BY <1>1, <1>2, <1>5, <1>6, DoesFacts
<1> QED BY <1>4, <1>5, <1>6, <1>7

LEMMA FailsAnswers == Answers(Fails) /\ ~ Fails.ok
<1>1. << >> \in Seq(Says) /\ FALSE \in BOOLEAN
  BY ShortSeqs
<1> QED BY <1>1, DoesFacts DEF Fails, Answers

LEMMA SubCommandsAnswer ==
  ASSUME NEW table, NEW isTop, NEW word
  PROVE  Answers(ShowHelpForSubCommands(table, isTop, word))
<1>1. /\ << "available", "names" >> \in Seq(Says) /\ << "subcommands" >> \in Seq(Says)
      /\ << "available", "names" >> # << >> /\ << "subcommands" >> # << >>
  BY Shown DEF Says
<1> QED BY <1>1, DoesFacts, FailsAnswers DEF ShowHelpForSubCommands, Answers

LEMMA ShowHelpAnswers ==
  ASSUME NEW command, command.help \in Says \cup {""}, NEW inSub, Answers(inSub), NEW names, Answers(names)
  PROVE  Answers(ShowHelp(command, inSub, names))
<1> DEFINE own == Does(command.help # "", HelpOf(command), << >>)
           shown == Does(TRUE, HelpOf(command), << >>)
<1>1. HelpOf(command) \in Seq(Says) /\ (command.help # "" => HelpOf(command) # << >>)
  BY ShortSeqs DEF HelpOf
<1>2. Answers(own)
  BY <1>1, DoesFacts DEF Answers
<1>3. shown.says = HelpOf(command) /\ shown.sends = << >>
  BY <1>1, DoesFacts
<1>4. Answers(Then(shown, names))
  <2>1. names.says \in Seq(Says) /\ names.ok \in BOOLEAN /\ names.sends = << >>
        /\ (names.ok => names.says # << >>)
    BY DEF Answers, Outcomes
  <2>2. /\ HelpOf(command) \o names.says \in Seq(Says)
        /\ names.says # << >> => HelpOf(command) \o names.says # << >>
    <3>1. PICK h : h = HelpOf(command)
      OBVIOUS
    <3>2. PICK t : t = names.says
      OBVIOUS
    <3>3. h \in Seq(Says) /\ t \in Seq(Says)
      BY <1>1, <2>1, <3>1, <3>2
    <3>4. h \o t \in Seq(Says) /\ (t # << >> => h \o t # << >>)
      BY <3>3, AddsTo
    <3> QED BY <3>1, <3>2, <3>4
  <2>3. Then(shown, names) = Does(names.ok, HelpOf(command) \o names.says, << >>)
    <3>1. shown.sends \o names.sends = << >>
      BY <1>3, <2>1, ShortSeqs, Zenon
    <3> QED BY <1>3, <3>1 DEF Then
  <2>4. PICK ok \in BOOLEAN : ok = names.ok
    BY <2>1
  <2>5. PICK says \in Seq(Says) : says = HelpOf(command) \o names.says
    BY <2>2
  <2>6. Answers(Does(ok, says, << >>))
    BY <2>1, <2>2, <2>4, <2>5, DoesFacts
  <2> QED BY <2>3, <2>4, <2>5, <2>6
<1>5. Answers(OrElse(Then(shown, names), own))
  BY <1>2, <1>4 DEF OrElse
<1>6. Answers(Then(inSub, OrElse(Then(shown, names), own)))
  BY <1>5, ThenFacts
<1> QED BY <1>6 DEF ShowHelp, OrElse

LEMMA HelpAtAnswers ==
  ASSUME NEW table, \A i \in DOMAIN table : table[i].help \in Says \cup {""},
         NEW entry \in {0} \cup DOMAIN table, NEW isTop, NEW words, NEW below,
         entry # 0 => Answers(below)
  PROVE  Answers(HelpAt(entry, table, isTop, words, below))
BY SubCommandsAnswer, ShowHelpAnswers, FailsAnswers DEF HelpAt

LEMMA HelpForSubAnswers ==
  ASSUME NEW table \in {ChannelCommands, << >>}, NEW words
  PROVE  Answers(HelpForSub(table, words))
<1>1. /\ Len(table) \in 0 .. 6 /\ DOMAIN table = 1 .. Len(table)
      /\ \A i \in DOMAIN table : table[i].help \in Says \cup {""}
  <2>1. CASE table = ChannelCommands
    <3>1. /\ ChannelCommands[1].help \in Says \cup {""} /\ ChannelCommands[2].help \in Says \cup {""}
          /\ ChannelCommands[3].help \in Says \cup {""} /\ ChannelCommands[4].help \in Says \cup {""}
          /\ ChannelCommands[5].help \in Says \cup {""} /\ ChannelCommands[6].help \in Says \cup {""}
      BY ChannelEntries DEF Says
    <3>2. \A i \in 1 .. 6 : ChannelCommands[i].help \in Says \cup {""}
      BY <3>1, OneToSix, Zenon
    <3>3. 6 \in 0 .. 6
      OBVIOUS
    <3> QED BY <2>1, <3>2, <3>3, TablesFacts, Zenon
  <2>2. CASE table = << >>
    BY <2>2
  <2> QED BY <2>1, <2>2
<1>2. HelpEntry(table, words) \in 0 .. Len(table)
  BY <1>1, HelpEntryFacts, Zenon
<1>3. PICK e \in 0 .. Len(table) : e = HelpEntry(table, words)
  BY <1>2, Zenon
<1>4. e \in {0} \cup DOMAIN table
  <2>1. PICK n \in 0 .. 6 : n = Len(table)
    BY <1>1, Zenon
  <2>2. e \in 0 .. n
    BY <2>1, Zenon
  <2>3. e \in {0} \cup 1 .. n
    BY <2>2
  <2> QED BY <1>1, <2>1, <2>3, Zenon
<1>5. Answers(HelpAt(e, table, FALSE, words, Fails))
  BY <1>1, <1>4, HelpAtAnswers, FailsAnswers
<1> QED BY <1>3, <1>5 DEF HelpForSub

LEMMA EntriesFacts ==
  \A e \in 1 .. 6 :
    /\ CommandTable[e].help \in Says \cup {""}
    /\ CommandTable[e].sub \in {ChannelCommands, << >>}
<1>1. /\ CommandTable[1].help \in Says \cup {""} /\ CommandTable[2].help \in Says \cup {""}
      /\ CommandTable[3].help \in Says \cup {""} /\ CommandTable[4].help \in Says \cup {""}
      /\ CommandTable[5].help \in Says \cup {""} /\ CommandTable[6].help \in Says \cup {""}
  BY CommandEntries DEF Says
<1> QED BY <1>1, CommandEntries, OneToSix, Zenon

LEMMA HelpForCommandAnswers ==
  ASSUME NEW words
  PROVE  Answers(ShowHelpForCommand(words))
<1>1. HelpEntry(CommandTable, words) \in 0 .. 6
  <2>1. Len(CommandTable) \in 0 .. 6
    BY TablesFacts
  <2> QED BY <2>1, TablesFacts, HelpEntryFacts, Zenon
<1>2. PICK entry \in 0 .. 6 : entry = HelpEntry(CommandTable, words)
  BY <1>1, Zenon
<1>3. entry = 0 \/ entry \in 1 .. 6
  OBVIOUS
<1>4. entry # 0 => Answers(HelpForSub(CommandTable[entry].sub, Rest(words)))
  BY <1>3, EntriesFacts, HelpForSubAnswers, Zenon
<1>5. \A i \in DOMAIN CommandTable : CommandTable[i].help \in Says \cup {""}
  BY TablesFacts, EntriesFacts
<1>6. PICK below : below = HelpForSub(CommandTable[entry].sub, Rest(words))
  OBVIOUS
<1>7. Answers(HelpAt(entry, CommandTable, TRUE, words, below))
  BY <1>3, <1>4, <1>5, <1>6, TablesFacts, HelpAtAnswers
<1> QED BY <1>2, <1>6, <1>7 DEF ShowHelpForCommand

-----------------------------------------------------------------------------
(* Commands.                                                                *)

Silent(d) == d.says = << >> /\ d.sends = << >>

\* The help without a word lists the commands.
LEMMA TopHelp == ShowHelpForCommand(<< >>).says # << >>
<1>1. HelpEntry(CommandTable, << >>) = 0
  <2>1. \A i \in 1 .. Len(CommandTable) : ~ HasStringAbbr(CommandTable[i].name, Word(<< >>))
    BY DEF HasStringAbbr, Word
  <2> QED BY <2>1 DEF HelpEntry, First, SelectInSeq
<1>2. PICK below : below = HelpForSub(CommandTable[0].sub, Rest(<< >>))
  OBVIOUS
<1>3. HelpAt(0, CommandTable, TRUE, << >>, below) = Does(TRUE, << "available", "names" >>, << >>)
  <2>1. Word(<< >>) = << >> /\ 1 \in DOMAIN CommandTable
    BY TablesFacts DEF Word
  <2> QED BY <2>1 DEF HelpAt, ShowHelpForSubCommands
<1>4. ShowHelpForCommand(<< >>) = Does(TRUE, << "available", "names" >>, << >>)
  BY <1>1, <1>2, <1>3 DEF ShowHelpForCommand
<1> QED BY <1>4, Shown, DoesFacts

\* What a command does that is no message: it sends at most one packet, and one that succeeds
\* shows or sends something.
Runs == {"join", "create", "leave", "list", "ping", "whisp", "commands", "help", "info", "kick"}

LEMMA HandleFacts ==
  ASSUME NEW run \in Runs, NEW words \in Seq(Words), NEW d, d = Handle(run, words)
  PROVE  /\ SendsOne(d) /\ "message" \notin Ops(d)
         /\ d.ok /\ Silent(d) => run \in {"info", "kick"}
         /\ "whisp" \in Ops(d) => run = "whisp" /\ d.says = << >>
         /\ run = "whisp" /\ d.ok => "whisp" \in Ops(d) /\ d.says = << >>
<1>1. << >> \in Seq(Says) /\ << >> \in Words
  BY ShortSeqs DEF Words
<1>2. ASSUME NEW says \in Seq(Says), d = Does(TRUE, says, << >>), says # << >> \/ run \in {"info", "kick"},
             run # "whisp"
      PROVE  /\ SendsOne(d) /\ "message" \notin Ops(d) /\ "whisp" \notin Ops(d)
             /\ d.ok /\ Silent(d) => run \in {"info", "kick"}
  <2>1. SendsOne(d) /\ Ops(d) = {} /\ d.says = says
    BY <1>2, DoesFacts
  <2> QED BY <1>2, <2>1 DEF Silent
<1>3. ASSUME run \in Kinds \ {"message"}, NEW arg \in Words,
             d = Does(TRUE, << >>, << Pack(run, arg) >>)
      PROVE  /\ SendsOne(d) /\ Ops(d) = {run} /\ d.says = << >>
             /\ ~ Silent(d)
  <2>0. run \in Kinds
    BY <1>3
  <2>1. /\ SendsOne(d) /\ Ops(d) = {run} /\ d.says = << >> /\ d.sends = << Pack(run, arg) >>
    BY <1>3, <2>0, PackFacts, Zenon
  <2>2. << Pack(run, arg) >> # << >>
    OBVIOUS
  <2> QED BY <2>1, <2>2 DEF Silent
<1>4. ASSUME d = Fails
      PROVE  SendsOne(d) /\ Ops(d) = {} /\ ~ d.ok
  BY <1>1, <1>4, DoesFacts DEF Fails
<1>5. CASE run \in {"info", "kick"}
  <2>1. d = Does(TRUE, << >>, << >>)
    BY <1>5 DEF Handle
  <2> QED BY <1>1, <1>2, <1>5, <2>1
<1>6. CASE run \in {"leave", "list", "ping"}
  <2>1. d = Does(TRUE, << >>, << Pack(run, << >>) >>)
    BY <1>6 DEF Handle
  <2>2. run \in Kinds \ {"message"}
    BY <1>6 DEF Kinds
  <2> QED BY <1>1, <1>3, <1>6, <2>1, <2>2
<1>7. CASE run \in {"join", "create"}
  <2>1. CASE words # << >>
    <3>1. d = Does(TRUE, << >>, << Pack(run, words[1]) >>)
      BY <1>7, <2>1 DEF Handle, NamesAChannel
    <3>2. run \in Kinds \ {"message"} /\ words[1] \in Words
      BY <1>7, <2>1, WordsFacts DEF Kinds
    <3> QED BY <1>3, <1>7, <3>1, <3>2
  <2>2. CASE words = << >>
    BY <1>4, <1>7, <2>2 DEF Handle, NamesAChannel
  <2> QED BY <2>1, <2>2
<1>8. CASE run = "whisp"
  <2>1. CASE Whispers(words)
    <3>1. d = Does(TRUE, << >>, << Pack(run, words[1]) >>)
      BY <1>8, <2>1 DEF Handle
    <3>2. run \in Kinds \ {"message"} /\ words[1] \in Words
      BY <1>8, <2>1, ElementOfSeq DEF Kinds, Whispers
    <3> QED BY <1>3, <1>8, <3>1, <3>2
  <2>2. CASE ~ Whispers(words)
    BY <1>4, <1>8, <2>2 DEF Handle
  <2> QED BY <2>1, <2>2
<1>9. CASE run = "commands"
  <2>1. d = Does(TRUE, ShowHelpForCommand(<< >>).says, << >>)
    BY <1>9 DEF Handle
  <2>2. ShowHelpForCommand(<< >>).says \in Seq(Says) /\ ShowHelpForCommand(<< >>).says # << >>
    BY HelpForCommandAnswers, TopHelp DEF Answers, Outcomes
  <2> QED BY <1>2, <1>9, <2>1, <2>2
<1>10. CASE run = "help"
  <2>1. CASE words = << >>
    <3>1. PICK says : says = ShowHelpForCommand(<< <<"h", "elp">> >>).says
                                 \o ShowHelpForCommand(<< >>).says
      OBVIOUS
    <3>2. d = Does(TRUE, says, << >>)
      BY <1>10, <2>1, <3>1 DEF Handle
    <3>3. /\ ShowHelpForCommand(<< <<"h", "elp">> >>).says \in Seq(Says)
          /\ ShowHelpForCommand(<< >>).says \in Seq(Says) /\ ShowHelpForCommand(<< >>).says # << >>
      BY HelpForCommandAnswers, TopHelp DEF Answers, Outcomes
    <3>4. says \in Seq(Says) /\ says # << >>
      BY <3>1, <3>3, AddsTo
    <3> QED BY <1>2, <1>10, <3>2, <3>4
  <2>2. CASE words # << >>
    <3>1. d = OrElse(ShowHelpForCommand(words), Does(TRUE, << "no help" >>, << >>))
      BY <1>10, <2>2 DEF Handle
    <3>2. CASE ShowHelpForCommand(words).ok
      <4>1. d = ShowHelpForCommand(words)
        BY <3>1, <3>2 DEF OrElse
      <4>2. d \in Outcomes /\ d.sends = << >> /\ d.says # << >>
        BY <3>2, <4>1, HelpForCommandAnswers DEF Answers
      <4>3. Ops(d) = {}
        BY <4>2 DEF Ops, Range
      <4> QED BY <1>10, <4>2, <4>3 DEF SendsOne, Silent
    <3>3. CASE ~ ShowHelpForCommand(words).ok
      <4>1. d = Does(TRUE, << "no help" >>, << >>)
        BY <3>1, <3>3 DEF OrElse
      <4>2. << "no help" >> \in Seq(Says) /\ << "no help" >> # << >>
        BY Shown DEF Says
      <4> QED BY <1>2, <1>10, <4>1, <4>2
    <3> QED BY <3>2, <3>3
  <2> QED BY <2>1, <2>2
<1> QED BY <1>5, <1>6, <1>7, <1>8, <1>9, <1>10 DEF Runs

\* A command that its handler refuses shows its help.
LEMMA ExecutedFacts ==
  ASSUME NEW command, command.run \in Runs, command.help \in Says \cup {""},
         NEW words \in Seq(Words), NEW d, d = OrElse(Handle(command.run, words), Refused(command))
  PROVE  /\ SendsOne(d) /\ d.ok /\ "message" \notin Ops(d)
         /\ Silent(d) => command.run \in {"info", "kick"}
         /\ "whisp" \in Ops(d) => command.run = "whisp" /\ d.says = << >>
         /\ command.run = "whisp" /\ d.says = << >> => "whisp" \in Ops(d)
<1>1. PICK h : h = Handle(command.run, words)
  OBVIOUS
<1>2. CASE h.ok
  <2>1. d = h
    BY <1>1, <1>2 DEF OrElse
  <2> QED BY <1>1, <1>2, <2>1, HandleFacts
<1>3. CASE ~ h.ok
  <2>1. d = Refused(command)
    BY <1>1, <1>3 DEF OrElse
  <2>2. PICK says : says = IF command.help = "" THEN << "syntax" >> ELSE << command.help >>
    OBVIOUS
  <2>3. says \in Seq(Says) /\ says # << >>
    BY <2>2, Shown DEF Says
  <2>4. d = Does(TRUE, says, << >>)
    BY <2>1, <2>2 DEF Refused
  <2>5. SendsOne(d) /\ Ops(d) = {} /\ d.says = says /\ d.ok = TRUE
    BY <2>3, <2>4, DoesFacts
  <2> QED BY <2>3, <2>5 DEF Silent
<1> QED BY <1>2, <1>3

\* A command of the channel, which is the second word.
LEMMA ChannelFacts ==
  ASSUME NEW words \in Seq(Words), NEW caps, NEW d, d = ExecuteSub(ChannelCommands, words, caps)
  PROVE  \/ d = Fails
         \/ /\ SendsOne(d) /\ d.ok /\ "message" \notin Ops(d) /\ "whisp" \notin Ops(d)
            /\ Silent(d) => \E name \in {<<"i", "nfo">>, <<"k", "ick">>} :
                              HasStringAbbr(name, Word(words))
<1>1. PICK e : e = ChosenEntry(ChannelCommands, Word(words), caps)
  OBVIOUS
<1>2. e # 0 => e \in 1 .. 6 /\ HasStringAbbr(ChannelCommands[e].name, Word(words))
  <2>1. Len(ChannelCommands) \in 0 .. 6 /\ DOMAIN ChannelCommands = 1 .. Len(ChannelCommands)
    BY TablesFacts
  <2> QED BY <1>1, <2>1, TablesFacts, ChosenFacts, Zenon
<1>3. CASE e = 0
  BY <1>1, <1>3 DEF ExecuteSub, ExecuteAt
<1>4. CASE e \in 1 .. 6
  <2>1. /\ ChannelCommands[e].run \in {"join", "create", "leave", "info", "list", "kick"}
        /\ ChannelCommands[e].help \in {"join help", "create help", "list help", ""}
        /\ ChannelCommands[e].run \in {"info", "kick"} =>
             ChannelCommands[e].name \in {<<"i", "nfo">>, <<"k", "ick">>}
    BY <1>4, ChannelEntries, OneToSix, ZenonT(60)
  <2>2. PICK command : command = ChannelCommands[e]
    OBVIOUS
  <2>3. /\ command.run \in Runs /\ command.run \notin {"", "whisp"}
        /\ command.help \in Says \cup {""}
    BY <2>1, <2>2 DEF Runs, Says
  <2>4. d = OrElse(Handle(command.run, Rest(words)), Refused(command))
    <3>1. e # 0 /\ ~ HasSub(command)
      <4>1. e # 0
        BY <1>4
      <4>2. command.run # ""
        BY <2>3
      <4> QED BY <4>1, <4>2 DEF HasSub
    <3> QED BY <1>1, <2>2, <3>1 DEF ExecuteSub, ExecuteAt
  <2>5. Rest(words) \in Seq(Words)
    BY WordsFacts
  <2>6. /\ SendsOne(d) /\ d.ok /\ "message" \notin Ops(d) /\ "whisp" \notin Ops(d)
        /\ Silent(d) => command.run \in {"info", "kick"}
    BY <2>3, <2>4, <2>5, ExecutedFacts
  <2>7. HasStringAbbr(ChannelCommands[e].name, Word(words))
    <3>1. e # 0
      BY <1>4
    <3> QED BY <1>2, <3>1
  <2> QED BY <2>1, <2>2, <2>6, <2>7
<1> QED BY <1>2, <1>3, <1>4

\* The names and what abbreviates them.
LEMMA Names ==
  ASSUME NEW a, NEW b, NEW word \in Words, a \in Parts, b \in Parts
  PROVE  HasStringAbbr(<<a, b>>, word) <=> word = <<a>> \/ word = <<a, b>>
BY AbbrFacts DEF Words

LEMMA WhispAbbr == HasStringAbbr(<<"w", "hisp">>, <<"w", "hisp">>)
BY ShortSeqs, Names DEF Parts, Words

LEMMA ChannelAbbr ==
  \A word \in Words : HasStringAbbr(<<"c", "hannel">>, word) => word # <<"w", "hisp">>
<1>1. "c" \in Parts /\ "hannel" \in Parts
  BY DEF Parts
<1>2. <<"c">> # <<"w", "hisp">> /\ <<"c", "hannel">> # <<"w", "hisp">>
  OBVIOUS
<1> QED BY <1>1, <1>2, Names, Zenon

LEMMA OtherAbbr ==
  \A name \in {<<"p", "ing">>, <<"c", "ommands">>, <<"h", "elp">>} :
    ~ HasStringAbbr(name, <<"w", "hisp">>)
<1>1. {"p", "ing", "c", "ommands", "h", "elp", "w", "hisp"} \subseteq Parts
  BY DEF Parts
<1>2. <<"w", "hisp">> \in Words
  BY <1>1, ShortSeqs DEF Words
<1>3. \A a \in {"p", "c", "h"} : \A b : <<a>> # <<"w", "hisp">> /\ <<a, b>> # <<"w", "hisp">>
  OBVIOUS
<1> QED BY <1>1, <1>2, <1>3, Names

\* A table without entries has no command, and what is shown when there is none.
LEMMA NoTable == \A words, caps : ExecuteSub(<< >>, words, caps) = Fails
<1> TAKE words, caps
<1>1. ChosenEntry(<< >>, Word(words), caps) = 0
  BY DEF ChosenEntry, First, SelectInSeq
<1> QED BY <1>1 DEF ExecuteSub, ExecuteAt

LEMMA NoSubFacts ==
  ASSUME NEW command, command.sub \in {ChannelCommands, << >>}, NEW words
  PROVE  /\ SendsOne(NoSub(command, words)) /\ NoSub(command, words).ok
         /\ Ops(NoSub(command, words)) = {} /\ NoSub(command, words).says # << >>
<1>1. PICK a \in Seq(Says) : /\ a = IF words = << >> THEN << "syntax" >> ELSE << "no subcommand" >>
                             /\ a # << >>
  BY Shown DEF Says
<1>2. PICK b \in Seq(Says) : b = HelpForSub(command.sub, words).says
  BY HelpForSubAnswers DEF Answers, Outcomes
<1>3. a \o b \in Seq(Says) /\ a \o b # << >>
  BY <1>1, <1>2, AddsTo
<1>4. NoSub(command, words) = Does(TRUE, a \o b, << >>)
  <2>1. << >> \o << >> = << >>
    BY ShortSeqs
  <2>2. Then(Does(TRUE, a, << >>), Does(TRUE, b, << >>)) = Does(TRUE, a \o b, << >> \o << >>)
    BY DEF Then, Does
  <2> QED BY <1>1, <1>2, <2>1, <2>2 DEF NoSub
<1> QED BY <1>3, <1>4, DoesFacts

\* The line as a command: the two words that matter are the first and the second.
LEMMA CommandFacts ==
  ASSUME NEW words \in Seq(Words), words # << >>, NEW caps, NEW d,
         d = ExecuteCommandInTable(words, caps)
  PROVE  \/ d = Fails /\ words[1] # <<"w", "hisp">>
         \/ /\ SendsOne(d) /\ d.ok /\ "message" \notin Ops(d)
            /\ Silent(d) => /\ Len(words) >= 2 /\ HasStringAbbr(<<"c", "hannel">>, words[1])
                            /\ \E name \in {<<"i", "nfo">>, <<"k", "ick">>} :
                                  HasStringAbbr(name, words[2])
            /\ "whisp" \in Ops(d) => d.says = << >>
            /\ words[1] = <<"w", "hisp">> /\ d.says = << >> => "whisp" \in Ops(d)
            /\ \E name \in {<<"c", "hannel">>, <<"u", "tility">>, <<"p", "ing">>, <<"c", "ommands">>,
                            <<"h", "elp">>, <<"w", "hisp">>} :
                  /\ HasStringAbbr(name, words[1])
                  /\ "whisp" \in Ops(d) => name = <<"w", "hisp">>
<1>1. PICK e : e = ChosenEntry(CommandTable, Word(words), caps)
  OBVIOUS
<1>2. Word(words) = words[1] /\ words[1] \in Words /\ Rest(words) \in Seq(Words)
  BY WordsFacts
<1>3. /\ e # 0 => e \in 1 .. 6 /\ HasStringAbbr(CommandTable[e].name, words[1])
      /\ words[1] = <<"w", "hisp">> => e # 0
  <2>1. Len(CommandTable) \in 0 .. 6 /\ DOMAIN CommandTable = 1 .. Len(CommandTable)
    BY TablesFacts
  <2>2. e # 0 => e \in 1 .. 6 /\ HasStringAbbr(CommandTable[e].name, words[1])
    BY <1>1, <1>2, <2>1, TablesFacts, ChosenFacts, Zenon
  <2>3. words[1] = <<"w", "hisp">> => HasStringAbbr(CommandTable[6].name, words[1])
    BY <1>2, CommandEntries, WhispAbbr, Zenon
  <2>4. 6 \in DOMAIN CommandTable
    BY TablesFacts
  <2>5. words[1] = <<"w", "hisp">> => e # 0
    <3>1. \A i \in DOMAIN CommandTable :
            CommandTable[i].name = words[1] /\ HasStringAbbr(CommandTable[i].name, words[1]) => e # 0
      BY <1>1, <1>2, <2>1, ChosenFacts, Zenon
    <3> QED BY <2>3, <2>4, <3>1, CommandEntries, Zenon
  <2> QED BY <2>2, <2>5
<1>4. CASE e = 0
  BY <1>1, <1>3, <1>4 DEF ExecuteCommandInTable, ExecuteAt
<1>5. ASSUME NEW k \in 1 .. 6, e = k
      PROVE  /\ HasStringAbbr(CommandTable[k].name, words[1])
             /\ d = IF HasSub(CommandTable[k])
                     THEN OrElse(ExecuteSub(CommandTable[k].sub, Rest(words), caps),
                                 NoSub(CommandTable[k], Rest(words)))
                     ELSE OrElse(Handle(CommandTable[k].run, Rest(words)), Refused(CommandTable[k]))
  <2>1. e # 0
    BY <1>5
  <2> QED BY <1>1, <1>3, <1>5, <2>1 DEF ExecuteCommandInTable, ExecuteAt
<1>6. CASE e \in {1, 2}
  <2>1. /\ HasSub(CommandTable[e]) /\ CommandTable[e].sub \in {ChannelCommands, << >>}
        /\ CommandTable[e].name \in {<<"c", "hannel">>, <<"u", "tility">>}
        /\ CommandTable[e].sub = ChannelCommands => CommandTable[e].name = <<"c", "hannel">>
    <3>1. << >> # ChannelCommands
      <4>1. Len(<< >>) = 0 /\ 0 # 6
        OBVIOUS
      <4> QED BY <4>1, TablesFacts, Zenon
    <3> QED BY <1>6, <3>1, CommandEntries DEF HasSub
  <2>2. PICK below : below = ExecuteSub(CommandTable[e].sub, Rest(words), caps)
    OBVIOUS
  <2>3. PICK no : no = NoSub(CommandTable[e], Rest(words))
    OBVIOUS
  <2>4. HasStringAbbr(CommandTable[e].name, words[1]) /\ d = OrElse(below, no)
    <3>1. PICK k \in 1 .. 6 : k = e
      BY <1>6
    <3> QED BY <1>5, <2>1, <2>2, <2>3, <3>1, Zenon
  <2>5. /\ SendsOne(no) /\ no.ok /\ Ops(no) = {} /\ ~ Silent(no)
    BY <2>1, <2>3, NoSubFacts DEF Silent
  <2>6. CASE d = no
    <3>1. /\ SendsOne(d) /\ d.ok /\ Ops(d) = {} /\ ~ Silent(d) /\ d.says # << >>
      BY <2>5, <2>6, <2>1, <2>3, NoSubFacts
    <3> QED BY <2>1, <2>4, <3>1
  <2>7. CASE d = below /\ below.ok
    <3>1. CommandTable[e].sub = ChannelCommands
      BY <2>1, <2>2, <2>7, NoTable, FailsAnswers
    <3>2. /\ SendsOne(d) /\ d.ok /\ "message" \notin Ops(d) /\ "whisp" \notin Ops(d)
          /\ Silent(d) => \E name \in {<<"i", "nfo">>, <<"k", "ick">>} :
                            HasStringAbbr(name, Word(Rest(words)))
      BY <1>2, <2>2, <2>7, <3>1, ChannelFacts, FailsAnswers
    <3>3. HasStringAbbr(<<"c", "hannel">>, words[1])
      BY <2>1, <2>4, <3>1
    <3>4. Word(Rest(words)) # << >> => Len(words) >= 2 /\ Word(Rest(words)) = words[2]
      BY WordsFacts DEF Word
    <3>5. Silent(d) => /\ Len(words) >= 2
                       /\ \E name \in {<<"i", "nfo">>, <<"k", "ick">>} : HasStringAbbr(name, words[2])
      BY <3>2, <3>4 DEF HasStringAbbr
    <3>6. words[1] # <<"w", "hisp">>
      BY <1>2, <3>3, ChannelAbbr
    <3> QED BY <3>2, <3>3, <3>5, <3>6
  <2>8. d = no \/ (d = below /\ below.ok)
    BY <2>4 DEF OrElse
  <2> QED BY <2>6, <2>7, <2>8
<1>7. CASE e \in 3 .. 6
  <2>1. PICK command : command = CommandTable[e]
    OBVIOUS
  <2>2. /\ command.run \in {"ping", "commands", "help", "whisp"} /\ command.help \in {"", "help"}
        /\ command.name \in {<<"p", "ing">>, <<"c", "ommands">>, <<"h", "elp">>, <<"w", "hisp">>}
        /\ command.run = "whisp" <=> command.name = <<"w", "hisp">>
    <3>1. e \in {3, 4, 5, 6}
      BY <1>7
    <3>2. /\ <<"p", "ing">> # <<"w", "hisp">> /\ <<"c", "ommands">> # <<"w", "hisp">>
          /\ <<"h", "elp">> # <<"w", "hisp">>
      OBVIOUS
    <3> QED BY <2>1, <3>1, <3>2, CommandEntries, ZenonT(60)
  <2>3. /\ command.run \in Runs /\ command.run \notin {"info", "kick", ""}
        /\ command.help \in Says \cup {""}
    BY <2>2 DEF Runs, Says
  <2>4. /\ HasStringAbbr(command.name, words[1])
        /\ d = OrElse(Handle(command.run, Rest(words)), Refused(command))
    <3>1. PICK k \in 1 .. 6 : k = e
      BY <1>7
    <3>2. ~ HasSub(command)
      BY <2>3 DEF HasSub
    <3> QED BY <1>5, <2>1, <3>1, <3>2, Zenon
  <2>5. /\ SendsOne(d) /\ d.ok /\ "message" \notin Ops(d) /\ ~ Silent(d)
        /\ "whisp" \in Ops(d) => command.run = "whisp" /\ d.says = << >>
        /\ command.run = "whisp" /\ d.says = << >> => "whisp" \in Ops(d)
    BY <1>2, <2>3, <2>4, ExecutedFacts
  <2>6. words[1] = <<"w", "hisp">> => command.name = <<"w", "hisp">>
    BY <1>2, <2>2, <2>4, OtherAbbr
  <2> QED BY <2>2, <2>4, <2>5, <2>6
<1>8. e = 0 \/ e \in {1, 2} \/ e \in 3 .. 6
  BY <1>3
<1> QED BY <1>4, <1>6, <1>7, <1>8

-----------------------------------------------------------------------------
(* Lines.                                                                   *)

LEMMA LineFacts ==
  ASSUME NEW line \in Typeable
  PROVE  /\ line.dots \in 0 .. 2 /\ line.words \in Seq(Words) /\ line.caps \in BOOLEAN
         /\ line.size \in Nat
         /\ line.words # << >> => line.words[1] \in Words
<1>1. line \in [dots : 0 .. 2, words : Seq(Seq(STRING)), caps : BOOLEAN, size : Nat]
  BY LinesAssumption
<1>2. Seq(STRING) \subseteq Words
  BY SeqMonotonic DEF Words, Parts
<1>3. line.words \in Seq(Words)
  BY <1>1, <1>2, SeqMonotonic
<1> QED BY <1>1, <1>3, WordsFacts

\* What a line makes the client say and send.
LEMMA EffectIs ==
  ASSUME NEW line \in Typeable
  PROVE  Effect[line] = IF TooLong(line) THEN Does(FALSE, << "too long" >>, << >>)
                        ELSE IF ~ IsCommand(line) THEN Does(TRUE, << >>, << Pack("message", << >>) >>)
                        ELSE IF ExecuteCommandInTable(line.words, line.caps).ok
                        THEN ExecuteCommandInTable(line.words, line.caps)
                        ELSE Does(TRUE, << "no command" >>, << >>)
BY DEF Effect, HandleSend, ParseCommands, OrElse

\* A first word that begins with "send" is no command's, and one that begins with "whisp" only
\* the whisper's, if it is no longer.
LEMMA SendAbbr ==
  ASSUME NEW word \in Words, IsPrefix(<<"send">>, word)
  PROVE  \A name \in {<<"c", "hannel">>, <<"u", "tility">>, <<"p", "ing">>, <<"c", "ommands">>,
                      <<"h", "elp">>, <<"w", "hisp">>} : ~ HasStringAbbr(name, word)
<1>1. Len(word) >= 1 /\ word[1] = "send"
  <2>1. Len(<<"send">>) = 1 /\ SubSeq(<<"send">>, 1, 1) = SubSeq(word, 1, 1) /\ 1 <= Len(word)
    BY DEF IsPrefix
  <2>2. SubSeq(<<"send">>, 1, 1)[1] = "send"
    OBVIOUS
  <2>3. SubSeq(word, 1, 1)[1] = word[1]
    <3>1. \A i \in 1 .. 1 : word[i] \in Parts
      BY <2>1, ElementOfSeq DEF Words
    <3> QED BY <3>1, SubSeqProperties
  <2> QED BY <2>1, <2>2, <2>3
<1>2. \A a \in {"c", "u", "p", "h", "w"} : \A b : word # <<a>> /\ word # <<a, b>>
  BY <1>1
<1>3. {"c", "hannel", "u", "tility", "p", "ing", "ommands", "h", "elp", "w", "hisp"} \subseteq Parts
  BY DEF Parts
<1> QED BY <1>2, <1>3, Names

LEMMA WhispWords ==
  ASSUME NEW word \in Words
  PROVE  /\ IsPrefix(<<"w", "hisp">>, word) =>
              \A name \in {<<"c", "hannel">>, <<"u", "tility">>, <<"p", "ing">>, <<"c", "ommands">>,
                           <<"h", "elp">>} : ~ HasStringAbbr(name, word)
         /\ IsPrefix(<<"w", "hisp">>, word) /\ HasStringAbbr(<<"w", "hisp">>, word) =>
              word = <<"w", "hisp">>
         /\ IsPrefix(<<"w", "hisp">>, <<"w", "hisp">>)
         /\ ~ IsPrefix(<<"send">>, <<"w", "hisp">>)
<1>1. ASSUME IsPrefix(<<"w", "hisp">>, word)
      PROVE  Len(word) >= 2 /\ word[1] = "w" /\ word[2] = "hisp"
  <2>1. /\ Len(<<"w", "hisp">>) = 2 /\ 2 <= Len(word)
        /\ SubSeq(<<"w", "hisp">>, 1, 2) = SubSeq(word, 1, 2)
    BY <1>1 DEF IsPrefix
  <2>2. SubSeq(<<"w", "hisp">>, 1, 2)[1] = "w" /\ SubSeq(<<"w", "hisp">>, 1, 2)[2] = "hisp"
    OBVIOUS
  <2>3. SubSeq(word, 1, 2)[1] = word[1] /\ SubSeq(word, 1, 2)[2] = word[2]
    <3>1. \A i \in 1 .. 2 : word[i] \in Parts
      BY <2>1, ElementOfSeq DEF Words
    <3> QED BY <3>1, SubSeqProperties
  <2> QED BY <2>1, <2>2, <2>3
<1>2. {"c", "hannel", "u", "tility", "p", "ing", "ommands", "h", "elp", "w", "hisp"} \subseteq Parts
  BY DEF Parts
<1>3. ASSUME IsPrefix(<<"w", "hisp">>, word)
      PROVE  /\ word # <<"w">>
             /\ \A a \in {"c", "u", "p", "h"} : \A b : word # <<a>> /\ word # <<a, b>>
  BY <1>1, <1>3
<1>4. IsPrefix(<<"w", "hisp">>, <<"w", "hisp">>)
  BY DEF IsPrefix
<1>5. ~ IsPrefix(<<"send">>, <<"w", "hisp">>)
  <2>1. SubSeq(<<"send">>, 1, 1)[1] = "send" /\ SubSeq(<<"w", "hisp">>, 1, 1)[1] = "w"
    OBVIOUS
  <2> QED BY <2>1 DEF IsPrefix
<1>6. IsPrefix(<<"w", "hisp">>, word) =>
        \A name \in {<<"c", "hannel">>, <<"u", "tility">>, <<"p", "ing">>, <<"c", "ommands">>,
                     <<"h", "elp">>} : ~ HasStringAbbr(name, word)
  BY <1>2, <1>3, Names
<1>7. IsPrefix(<<"w", "hisp">>, word) /\ HasStringAbbr(<<"w", "hisp">>, word) =>
        word = <<"w", "hisp">>
  BY <1>2, <1>3, Names
<1> QED BY <1>4, <1>5, <1>6, <1>7

LEMMA EffectFacts ==
  ASSUME NEW line \in Typeable
  PROVE  /\ SendsOne(Effect[line])
         /\ Silent(Effect[line]) => DoesNothing(line)
         /\ (\/ "message" \in OpsOf(line) /\ line.dots = 0
             \/ "whisp" \in OpsOf(line) /\ ~line.caps /\ Head(line.words) = <<"w", "hisp">>)
               <=> EchoType(line) \in {"M", "W"} /\ Effect[line].says = << >>
         /\ EchoType(line) = "M" => "whisp" \notin OpsOf(line)
         /\ EchoType(line) = "W" => "message" \notin OpsOf(line)
<1>1. PICK d : d = Effect[line]
  OBVIOUS
<1>2. OpsOf(line) = Ops(d)
  BY <1>1 DEF OpsOf, Ops
<1>3. line.words \in Seq(Words) /\ (line.words # << >> => line.words[1] \in Words)
  BY LineFacts
<1>4. CASE TooLong(line)
  <2>1. d = Does(FALSE, << "too long" >>, << >>)
    BY <1>1, <1>4, EffectIs
  <2>2. << "too long" >> \in Seq(Says) /\ << "too long" >> # << >>
    BY Shown DEF Says
  <2>3. SendsOne(d) /\ Ops(d) = {} /\ d.says # << >>
    BY <2>1, <2>2, DoesFacts
  <2>4. EchoType(line) = "e"
    BY <1>4 DEF EchoType
  <2> QED BY <1>1, <1>2, <2>3, <2>4 DEF Silent
<1>5. CASE ~ TooLong(line) /\ ~ IsCommand(line)
  <2>1. d = Does(TRUE, << >>, << Pack("message", << >>) >>)
    BY <1>1, <1>5, EffectIs
  <2>2. "message" \in Kinds /\ << >> \in Words
    BY ShortSeqs DEF Kinds, Words
  <2>3. /\ SendsOne(d) /\ Ops(d) = {"message"} /\ d.says = << >>
        /\ d.sends = << Pack("message", << >>) >>
    BY <2>1, <2>2, PackFacts
  <2>4. ~ Silent(d)
    BY <2>3 DEF Silent
  <2>5. EchoType(line) = IF line.dots = 0 THEN "M" ELSE "e"
    BY <1>5 DEF EchoType, IsCommand, Starts
  <2> QED BY <1>1, <1>2, <2>3, <2>4, <2>5
<1>6. CASE ~ TooLong(line) /\ IsCommand(line)
  <2>1. PICK x : x = ExecuteCommandInTable(line.words, line.caps)
    OBVIOUS
  <2>2. line.dots = 1 /\ line.words # << >> /\ Head(line.words) = line.words[1]
    BY <1>6 DEF IsCommand
  <2>3. PICK word \in Words : word = line.words[1]
    BY <1>3, <2>2
  <2>4. EchoType(line) = IF ~line.caps /\ IsPrefix(<<"send">>, word) THEN "M"
                         ELSE IF ~line.caps /\ IsPrefix(<<"w", "hisp">>, word) THEN "W" ELSE "e"
    BY <1>6, <2>2, <2>3 DEF EchoType, Starts
  <2>5. CASE x.ok
    <3>1. d = x
      BY <1>1, <1>6, <2>1, <2>5, EffectIs
    <3>2. /\ SendsOne(d) /\ "message" \notin Ops(d)
          /\ Silent(d) => /\ Len(line.words) >= 2 /\ HasStringAbbr(<<"c", "hannel">>, word)
                          /\ \E name \in {<<"i", "nfo">>, <<"k", "ick">>} :
                                HasStringAbbr(name, line.words[2])
          /\ "whisp" \in Ops(d) => d.says = << >>
          /\ word = <<"w", "hisp">> /\ d.says = << >> => "whisp" \in Ops(d)
          /\ \E name \in {<<"c", "hannel">>, <<"u", "tility">>, <<"p", "ing">>, <<"c", "ommands">>,
                          <<"h", "elp">>, <<"w", "hisp">>} :
                /\ HasStringAbbr(name, word)
                /\ "whisp" \in Ops(d) => name = <<"w", "hisp">>
      BY <1>3, <2>1, <2>2, <2>3, <2>5, <3>1, CommandFacts, FailsAnswers, ZenonT(100)
    <3>3. ~ IsPrefix(<<"send">>, word)
      BY <3>2, SendAbbr
    <3>4. IsPrefix(<<"w", "hisp">>, word) => word = <<"w", "hisp">>
      BY <3>2, WhispWords
    <3>5. Silent(d) => DoesNothing(line)
      BY <1>6, <2>3, <3>2 DEF DoesNothing
    <3>6. EchoType(line) = IF ~line.caps /\ word = <<"w", "hisp">> THEN "W" ELSE "e"
      BY <2>4, <3>3, <3>4, WhispWords
    <3> QED BY <1>1, <1>2, <2>2, <2>3, <3>2, <3>5, <3>6
  <2>6. CASE ~ x.ok
    <3>1. d = Does(TRUE, << "no command" >>, << >>)
      BY <1>1, <1>6, <2>1, <2>6, EffectIs
    <3>2. << "no command" >> \in Seq(Says) /\ << "no command" >> # << >>
      BY Shown DEF Says
    <3>3. SendsOne(d) /\ Ops(d) = {} /\ d.says # << >>
      BY <3>1, <3>2, DoesFacts
    <3> QED BY <1>1, <1>2, <3>3 DEF Silent
  <2> QED BY <2>5, <2>6
<1> QED BY <1>4, <1>5, <1>6

-----------------------------------------------------------------------------
(* The stream of bytes.                                                     *)

LEMMA LeftFacts ==
  ASSUME NEW packets \in Seq(Packet), NEW b \in Bytes(packets)
  PROVE  /\ b.k \in 1 .. Len(packets) /\ packets[b.k] \in Packet
         /\ packets[b.k].frame \in Nat \ {0} /\ b.i \in Nat \ {0}
         /\ Left(packets, b) = packets[b.k].frame + 2 - b.i /\ Left(packets, b) \in Nat
<1>1. b.k \in 1 .. Len(packets) /\ b.i \in Nat \ {0} /\ b.i <= packets[b.k].frame + 2
  BY LenProperties DEF Bytes
<1>2. packets[b.k] \in Packet
  BY <1>1, ElementOfSeq
<1>3. packets[b.k].frame \in Nat \ {0}
  BY <1>2 DEF Packet
<1> QED BY <1>1, <1>2, <1>3 DEF Left

LEMMA DropGoes ==
  ASSUME NEW packets, NEW s, NEW t, NEW n \in Nat, NEW l \in Nat, Len(t) = l, Len(s) = n + l,
         \A i \in 1 .. l : t[i] = s[n + i],
         NEW p \in 1 .. l, NEW left \in Nat, Goes(packets, s, n + p, left)
  PROVE  Goes(packets, t, p, left)
<1>1. t[p] = s[n + p]
  OBVIOUS
<1>2. /\ n + p + left <= n + l
      /\ \A d \in 0 .. left : s[n + p + d] = [k |-> s[n + p].k, i |-> s[n + p].i + d]
      /\ n + p + left = n + l => s[n + p].k = Len(packets)
      /\ n + p + left # n + l => s[n + p + left + 1] = [k |-> s[n + p].k + 1, i |-> 1]
  BY DEF Goes
<1>3. p + left <= l
  BY <1>2
<1>4. ASSUME NEW d \in 0 .. left
      PROVE  t[p + d] = [k |-> t[p].k, i |-> t[p].i + d]
  <2>1. p + d \in 1 .. l /\ n + (p + d) = n + p + d
    BY <1>3
  <2>2. t[p + d] = s[n + p + d]
    BY <2>1
  <2> QED BY <1>1, <1>2, <2>2
<1>5. p + left = l => t[p].k = Len(packets)
  BY <1>1, <1>2
<1>6. ASSUME p + left # l
      PROVE  t[p + left + 1] = [k |-> t[p].k + 1, i |-> 1]
  <2>1. p + left + 1 \in 1 .. l /\ n + (p + left + 1) = n + p + left + 1 /\ n + p + left # n + l
    BY <1>3, <1>6
  <2>2. t[p + left + 1] = s[n + p + left + 1]
    BY <2>1
  <2> QED BY <1>1, <1>2, <2>1, <2>2
<1> QED BY <1>3, <1>4, <1>5, <1>6 DEF Goes

LEMMA DropFlows ==
  ASSUME NEW packets \in Seq(Packet), NEW s \in Seq(Bytes(packets)), Flows(packets, s),
         NEW n \in 0 .. Len(s), NEW t \in Seq(Bytes(packets)), Len(t) = Len(s) - n,
         \A i \in 1 .. Len(t) : t[i] = s[n + i]
  PROVE  Flows(packets, t)
<1> SUFFICES ASSUME NEW p \in 1 .. Len(t)
             PROVE  Goes(packets, t, p, Left(packets, t[p]))
  BY DEF Flows
<1>1. PICK l \in Nat : l = Len(t)
  BY LenProperties
<1>2. t[p] \in Bytes(packets)
  BY ElementOfSeq
<1>3. PICK left \in Nat : left = Left(packets, t[p])
  BY <1>2, LeftFacts
<1>4. Len(s) \in Nat /\ n \in Nat /\ Len(s) = n + l
  BY <1>1, LenProperties
<1>5. n + p \in 1 .. Len(s)
  BY <1>1, <1>4
<1>6. Goes(packets, s, n + p, left)
  <2>1. t[p] = s[n + p]
    BY <1>1
  <2> QED BY <1>3, <1>5, <2>1 DEF Flows
<1> QED BY <1>1, <1>3, <1>4, <1>6, DropGoes

LEMMA FrameFacts ==
  ASSUME NEW packets \in Seq(Packet), NEW k \in DOMAIN packets
  PROVE  /\ FrameBytes(k, packets[k].frame) \in Seq(Bytes(packets))
         /\ Len(FrameBytes(k, packets[k].frame)) = packets[k].frame + 2
         /\ packets[k].frame \in Nat \ {0}
         /\ \A i \in 1 .. packets[k].frame + 2 :
               FrameBytes(k, packets[k].frame)[i] = [k |-> k, i |-> i]
<1>1. packets[k] \in Packet
  BY ElementOfSeq, LenProperties
<1>2. PICK n \in Nat : n = packets[k].frame + 2
  BY <1>1 DEF Packet
<1>3. \A i \in 1 .. n : [k |-> k, i |-> i] \in Bytes(packets)
  BY <1>1, <1>2 DEF Bytes, Packet
<1>4. PICK s : s = [i \in 1 .. n |-> [k |-> k, i |-> i]]
  OBVIOUS
<1>5. s \in [1 .. n -> Bytes(packets)] /\ \A i \in 1 .. n : s[i] = [k |-> k, i |-> i]
  BY <1>3, <1>4
<1>6. s \in Seq(Bytes(packets)) /\ Len(s) = n
  BY <1>5, SeqDef, LenProperties
<1> QED BY <1>1, <1>2, <1>4, <1>5, <1>6 DEF FrameBytes, Packet

\* A packet more, with its bytes at the end.
LEMMA NewGoes ==
  ASSUME NEW k \in Nat \ {0}, NEW l \in Nat, NEW m \in Nat, NEW grown, Len(grown) = k,
         NEW t, Len(t) = l + m,
         grown[k].frame \in Nat, grown[k].frame + 2 = m,
         \A i \in 1 .. m : t[l + i] = [k |-> k, i |-> i],
         NEW p \in 1 .. l + m, p > l
  PROVE  Goes(grown, t, p, Left(grown, t[p]))
<1>1. PICK i \in 1 .. m : p = l + i
  <2>1. p - l \in 1 .. m /\ p = l + (p - l)
    OBVIOUS
  <2> QED BY <2>1
<1>2. t[p] = [k |-> k, i |-> i]
  BY <1>1
<1>4. PICK left \in Nat : left = m - i
  OBVIOUS
<1>3. Left(grown, t[p]) = left
  <2>1. t[p].k = k /\ t[p].i = i
    BY <1>2
  <2>2. Left(grown, t[p]) = grown[k].frame + 2 - i
    BY <2>1 DEF Left
  <2> QED BY <1>4, <2>2
<1>5. p + left = l + m
  BY <1>1, <1>4
<1>6. ASSUME NEW d \in 0 .. left
      PROVE  t[p + d] = [k |-> t[p].k, i |-> t[p].i + d]
  <2>0. i + d \in 1 .. m /\ p + d = l + (i + d)
    BY <1>1, <1>4, SMTT(40)
  <2>1. PICK j \in 1 .. m : j = i + d /\ p + d = l + j
    BY <2>0
  <2>2. t[p + d] = [k |-> k, i |-> j]
    BY <2>1
  <2>3. t[p].k = k /\ t[p].i = i
    BY <1>2
  <2> QED BY <2>1, <2>2, <2>3
<1>7. t[p].k = Len(grown)
  BY <1>2
<1>8. Goes(grown, t, p, left)
  BY <1>5, <1>6, <1>7 DEF Goes
<1> QED BY <1>3, <1>8

LEMMA OldGoes ==
  ASSUME NEW k \in Nat \ {0}, NEW l \in Nat, NEW m \in Nat, NEW grown, Len(grown) = k,
         NEW t, Len(t) = l + m,
         NEW packets, Len(packets) = k - 1, NEW s, Len(s) = l, m > 0,
         \A i \in 1 .. l : t[i] = s[i],
         \A i \in 1 .. m : t[l + i] = [k |-> k, i |-> i],
         NEW p \in 1 .. l, Left(grown, s[p]) = Left(packets, s[p]), Left(packets, s[p]) \in Nat,
         Goes(packets, s, p, Left(packets, s[p]))
  PROVE  Goes(grown, t, p, Left(grown, t[p]))
<1>1. t[p] = s[p]
  OBVIOUS
<1>2. PICK left \in Nat : left = Left(packets, s[p]) /\ left = Left(grown, t[p])
  BY <1>1
<1>3. /\ p + left <= l
      /\ \A d \in 0 .. left : s[p + d] = [k |-> s[p].k, i |-> s[p].i + d]
      /\ p + left = l => s[p].k = k - 1
      /\ p + left # l => s[p + left + 1] = [k |-> s[p].k + 1, i |-> 1]
  BY <1>2 DEF Goes
<1>4. ASSUME NEW d \in 0 .. left
      PROVE  t[p + d] = [k |-> t[p].k, i |-> t[p].i + d]
  <2>1. p + d \in 1 .. l
    BY <1>3
  <2>2. t[p + d] = s[p + d]
    BY <2>1
  <2> QED BY <1>1, <1>3, <2>2
<1>5. p + left <= l + m /\ p + left # l + m
  BY <1>3
<1>6. t[p + left + 1] = [k |-> t[p].k + 1, i |-> 1]
  <2>1. CASE p + left = l
    <3>1. t[l + 1] = [k |-> k, i |-> 1]
      OBVIOUS
    <3>2. s[p].k + 1 = k
      BY <1>3, <2>1
    <3> QED BY <1>1, <2>1, <3>1, <3>2
  <2>2. CASE p + left # l
    <3>1. p + left + 1 \in 1 .. l
      BY <1>3, <2>2
    <3>2. t[p + left + 1] = s[p + left + 1]
      BY <3>1
    <3> QED BY <1>1, <1>3, <2>2, <3>2
  <2> QED BY <2>1, <2>2
<1> QED BY <1>2, <1>4, <1>5, <1>6 DEF Goes

LEMMA GrowFlows ==
  ASSUME NEW packets \in Seq(Packet), NEW new \in Packet, NEW s \in Seq(Bytes(packets)),
         Flows(packets, s)
  PROVE  LET grown == Append(packets, new)
             f == FrameBytes(Len(packets) + 1, new.frame)
         IN /\ f \in Seq(Bytes(grown)) /\ Bytes(packets) \subseteq Bytes(grown)
            /\ s \o f \in Seq(Bytes(grown)) /\ Flows(grown, s \o f)
            /\ s \o f # << >>
            /\ (s \o f)[1] = IF s = << >> THEN [k |-> Len(packets) + 1, i |-> 1] ELSE s[1]
<1>1. PICK k \in Nat \ {0} : k = Len(packets) + 1
  BY LenProperties
<1>0. PICK grown : grown = Append(packets, new)
  OBVIOUS
<1>2. /\ grown \in Seq(Packet) /\ Len(grown) = k /\ grown[k] = new
      /\ \A i \in 1 .. k - 1 : grown[i] = packets[i]
      /\ DOMAIN grown = 1 .. k /\ DOMAIN packets = 1 .. k - 1 /\ Len(packets) = k - 1
  BY <1>0, <1>1, AppendProperties, LenProperties
<1>3. Bytes(packets) \subseteq Bytes(grown)
  <2>1. 1 .. k - 1 \subseteq 1 .. k
    OBVIOUS
  <2> QED BY <1>2, <2>1 DEF Bytes
<1>4. PICK f : f = FrameBytes(k, new.frame)
  OBVIOUS
<1>5. k \in DOMAIN grown /\ grown[k].frame = new.frame
  BY <1>2
<1>6. PICK m \in Nat : m = grown[k].frame + 2 /\ m >= 3 /\ grown[k].frame \in Nat
  BY <1>2, <1>5, FrameFacts
<1>7. /\ f \in Seq(Bytes(grown)) /\ Len(f) = m
      /\ \A i \in 1 .. m : f[i] = [k |-> k, i |-> i]
  <2>1. f = FrameBytes(k, grown[k].frame)
    BY <1>4, <1>5
  <2>2. /\ FrameBytes(k, grown[k].frame) \in Seq(Bytes(grown))
        /\ Len(FrameBytes(k, grown[k].frame)) = m
        /\ \A i \in 1 .. m : FrameBytes(k, grown[k].frame)[i] = [k |-> k, i |-> i]
    <3>1. grown[k].frame + 2 = m
      BY <1>6
    <3> QED BY <1>2, <1>5, <3>1, FrameFacts, ZenonT(60)
  <2> QED BY <2>1, <2>2
<1>8. s \in Seq(Bytes(grown))
  BY <1>3, SeqMonotonic
<1>9. PICK l \in Nat : l = Len(s)
  BY LenProperties
<1>10. PICK t : t = s \o f
  OBVIOUS
<1>11. /\ t \in Seq(Bytes(grown)) /\ Len(t) = l + m
       /\ \A i \in 1 .. l + m : t[i] = IF i <= l THEN s[i] ELSE f[i - l]
  BY <1>7, <1>8, <1>9, <1>10, ConcatProperties
<1>12. \A i \in 1 .. l : t[i] = s[i]
  BY <1>11
<1>13. ASSUME NEW i \in 1 .. m
       PROVE  t[l + i] = [k |-> k, i |-> i]
  <2>1. PICK j \in 1 .. l + m : j = l + i /\ ~ (j <= l) /\ j - l = i
    OBVIOUS
  <2> QED BY <1>7, <1>11, <2>1
<1>16. /\ k \in Nat \ {0} /\ l \in Nat /\ m \in Nat /\ m >= 3
       /\ Len(packets) = k - 1 /\ Len(grown) = k
       /\ grown[k].frame \in Nat /\ grown[k].frame + 2 = m /\ Len(s) = l /\ Len(t) = l + m
       /\ \A i \in 1 .. l : t[i] = s[i]
       /\ \A i \in 1 .. m : t[l + i] = [k |-> k, i |-> i]
  BY <1>2, <1>6, <1>9, <1>11, <1>12, <1>13
<1>17. m > 0
  BY <1>6
<1>14. Flows(grown, t)
  <2> SUFFICES ASSUME NEW p \in 1 .. l + m
               PROVE  Goes(grown, t, p, Left(grown, t[p]))
    BY <1>11 DEF Flows
  <2>1. CASE p > l
    BY <1>16, <2>1, NewGoes, ZenonT(100)
  <2>2. CASE ~ (p > l)
    <3>1. p \in 1 .. l /\ p <= l
      BY <2>2
    <3>2. s[p] \in Bytes(packets) /\ s[p] \in Bytes(grown)
      BY <1>3, <1>9, <3>1, ElementOfSeq
    <3>3. s[p].k \in 1 .. k - 1 /\ Left(packets, s[p]) \in Nat
      BY <1>2, <3>2, LeftFacts
    <3>4. Left(grown, s[p]) = Left(packets, s[p])
      BY <1>2, <3>3 DEF Left
    <3>5. Goes(packets, s, p, Left(packets, s[p]))
      BY <1>9, <3>1 DEF Flows
    <3> QED BY <1>16, <1>17, <3>1, <3>3, <3>4, <3>5, OldGoes, ZenonT(60)
  <2> QED BY <2>1, <2>2
<1>15. t # << >> /\ t[1] = IF s = << >> THEN [k |-> k, i |-> 1] ELSE s[1]
  <2>1. Len(t) # 0
    BY <1>6, <1>11, SMTT(40)
  <2>2. CASE s = << >>
    <3>1. l = 0 /\ t[l + 1] = [k |-> k, i |-> 1]
      BY <1>6, <1>9, <1>13, <2>2
    <3> QED BY <2>1, <2>2, <3>1
  <2>3. CASE s # << >>
    <3>1. 1 \in 1 .. l
      BY <1>9, <2>3, EmptySeq
    <3> QED BY <1>12, <2>1, <2>3, <3>1
  <2> QED BY <2>2, <2>3
<1> QED BY <1>0, <1>1, <1>3, <1>4, <1>7, <1>10, <1>11, <1>14, <1>15

-----------------------------------------------------------------------------
(* A line is typed.                                                         *)

LEMMA NewPacket ==
  ASSUME NEW line \in Typeable, NEW p \in [op : Kinds, arg : Words], NEW n \in Nat
  PROVE  Incapsulate(p, line, n) \in Packet /\ Incapsulate(p, line, n).seq = n
<1>1. \A x \in Nat : EncodeBase64(x) \in Nat
  BY DEF EncodeBase64
<1>2. \A x \in Nat : XMLBuildMessage(x) \in Nat
  BY <1>1 DEF XMLBuildMessage
<1>3. line.size \in Nat
  BY LineFacts
<1>4. p.op \in Kinds
  OBVIOUS
<1>5. Payload(p.op, line) \in Nat
  <2>1. PICK small \in Nat : small = XMLBuildMessage(line.size)
    BY <1>2, <1>3
  <2> QED BY <1>4, <2>1 DEF Payload, Kinds
<1> QED BY <1>4, <1>5 DEF Incapsulate, Packet

\* What was sent: nothing, or one packet.
LEMMA TypeStep ==
  ASSUME Types, NEW line \in Typeable, Type(line)
  PROVE  /\ open /\ past = {} /\ Len(typed) < MaxLines /\ typed' = Append(typed, line)
         /\ UNCHANGED <<arrived, reading, open, seqIn, late, recvq, joined, handled>>
         /\ \/ /\ Effect[line].sends = << >>
               /\ sent' = sent /\ wire' = wire /\ past' = past
            \/ /\ Effect[line].sends # << >>
               /\ \E new \in Packet :
                    /\ new.seq = Len(sent) /\ sent' = Append(sent, new)
                    /\ wire' = wire \o FrameBytes(Len(sent) + 1, new.frame)
                    /\ past' = IF new.frame >= LenMod THEN {"oversize"} ELSE {}
<1>1. /\ open /\ past = {} /\ Len(typed) < MaxLines /\ typed' = Append(typed, line)
      /\ UNCHANGED <<arrived, reading, open, seqIn, late, recvq, joined, handled>>
  BY DEF Type, MayType
<1> DEFINE packs == Effect[line].sends
           new == [i \in DOMAIN packs |-> Incapsulate(packs[i], line, Len(sent))]
<1>2. packs = Effect[line].sends
  OBVIOUS
<1>3. new = [i \in DOMAIN packs |-> Incapsulate(packs[i], line, Len(sent))]
  OBVIOUS
<1>4. /\ sent' = sent \o new
      /\ wire' = IF new = << >> THEN wire ELSE wire \o FrameBytes(Len(sent) + 1, new[1].frame)
      /\ past' = past \cup {"oversize" : i \in {j \in DOMAIN new : new[j].frame >= LenMod}}
  BY Zenon DEF Type
<1> HIDE DEF packs, new
<1>5. sent \in Seq(Packet) /\ Len(sent) \in Nat
  BY LenProperties DEF Types
<1>6. CASE packs = << >>
  <2>1. DOMAIN packs = {} /\ new = << >>
    BY <1>3, <1>6
  <2>2. DOMAIN new = {}
    BY <2>1
  <2>3. sent' = sent
    BY <1>4, <1>5, <2>1, ConcatEmptySeq
  <2>4. past' = past
    BY <1>4, <2>2
  <2> QED BY <1>1, <1>2, <1>4, <1>6, <2>1, <2>3, <2>4
<1>7. CASE packs # << >>
  <2>1. PICK p \in [op : Kinds, arg : Words] : packs = << p >>
    BY <1>2, <1>7, EffectFacts DEF SendsOne
  <2>2. PICK one : one = Incapsulate(p, line, Len(sent))
    OBVIOUS
  <2>3. one \in Packet /\ one.seq = Len(sent)
    BY <1>5, <2>2, NewPacket
  <2>4. new = << one >>
    <3>1. DOMAIN packs = 1 .. 1 /\ packs[1] = p
      BY <2>1
    <3>2. new = [i \in 1 .. 1 |-> one]
      BY <1>3, <2>2, <3>1
    <3> QED BY <3>2
  <2>5. new # << >> /\ DOMAIN new = {1} /\ new[1] = one
    BY <2>4
  <2>6. sent' = Append(sent, one)
    BY <1>4, <1>5, <2>3, <2>4, AppendIsConcat
  <2>7. past' = IF one.frame >= LenMod THEN {"oversize"} ELSE {}
    <3>1. {j \in DOMAIN new : new[j].frame >= LenMod} = IF one.frame >= LenMod THEN {1} ELSE {}
      BY <2>5
    <3> QED BY <1>1, <1>4, <3>1
  <2> QED BY <1>1, <1>2, <1>4, <1>7, <2>3, <2>5, <2>6, <2>7
<1> QED BY <1>6, <1>7

LEMMA TypeCounted ==
  ASSUME Types, Counted, NEW line \in Typeable, Type(line)
  PROVE  Counted'
<1>1. PICK n \in Nat : n = Len(typed)
  BY LenProperties DEF Types
<1>2. /\ typed' = Append(typed, line) /\ Len(typed') = n + 1 /\ typed'[n + 1] = line
      /\ \A i \in 1 .. n : typed'[i] = typed[i]
      /\ DOMAIN typed = 1 .. n /\ DOMAIN typed' = 1 .. n + 1
  <2>1. typed \in Seq(Typeable) /\ typed' = Append(typed, line)
    BY TypeStep DEF Types
  <2>2. typed' \in Seq(Typeable) /\ Len(typed') = n + 1
    BY <1>1, <2>1, AppendProperties
  <2> QED BY <1>1, <2>1, <2>2, AppendProperties, LenProperties
<1>3. PICK x \in Nat : x = Len(sent)
  BY LenProperties DEF Types
<1>4. DOMAIN sent = 1 .. x
  BY <1>3, LenProperties DEF Types
<1>5. \A i \in 1 .. n : Sends(i)' <=> Sends(i)
  BY <1>2 DEF Sends
<1>6. PICK old : old = {j \in 1 .. n : Sends(j)}
  OBVIOUS
<1>7. x = Cardinality(old) /\ \A i \in 1 .. n : Sends(i) => PacketOf(i) \in 1 .. x
  BY <1>2, <1>3, <1>4, <1>6 DEF Counted
<1>8. IsFiniteSet(old) /\ n + 1 \notin old
  <2>1. old \in SUBSET (1 .. n) /\ IsFiniteSet(1 .. n)
    BY <1>6, FS_Interval
  <2>2. n + 1 \notin 1 .. n
    OBVIOUS
  <2> QED BY <2>1, <2>2, FS_Subset
<1>9. PICK more : more = {j \in DOMAIN typed' : Sends(j)'}
  OBVIOUS
<1>10. more = old \cup (IF Effect[line].sends # << >> THEN {n + 1} ELSE {})
  <2>1. \A j \in 1 .. n + 1 : j \in 1 .. n \/ j = n + 1
    OBVIOUS
  <2>2. \A j \in 1 .. n : j \in 1 .. n + 1
    OBVIOUS
  <2>3. n + 1 \in 1 .. n + 1
    OBVIOUS
  <2>4. Sends(n + 1)' <=> Effect[line].sends # << >>
    BY <1>2 DEF Sends
  <2> QED BY <1>2, <1>5, <1>6, <1>9, <2>1, <2>2, <2>3, <2>4
<1>11. \A i \in 1 .. n : PacketOf(i)' = PacketOf(i)
  <2> TAKE i \in 1 .. n
  <2>1. \A j \in 1 .. i : j \in 1 .. n
    OBVIOUS
  <2>2. {j \in 1 .. i : Effect[typed'[j]].sends # << >>} = {j \in 1 .. i : Effect[typed[j]].sends # << >>}
    BY <1>2, <2>1
  <2> QED BY <2>2 DEF PacketOf
<1>12. PacketOf(n + 1)' = Cardinality(more)
  <2>1. {j \in 1 .. n + 1 : Effect[typed'[j]].sends # << >>} = more
    BY <1>2, <1>9 DEF Sends
  <2> QED BY <2>1 DEF PacketOf
<1>13. ASSUME NEW y \in Nat, y = Len(sent'), DOMAIN sent' = 1 .. y, y = Cardinality(more), x <= y,
              Sends(n + 1)' => y > 0
       PROVE  Counted'
  <2>1. ASSUME NEW i \in DOMAIN typed', Sends(i)'
        PROVE  PacketOf(i)' \in DOMAIN sent'
    <3>1. CASE i \in 1 .. n
      BY <1>5, <1>7, <1>11, <1>13, <2>1, <3>1
    <3>2. CASE i = n + 1
      BY <1>12, <1>13, <2>1, <3>2
    <3> QED BY <1>2, <3>1, <3>2
  <2> QED BY <1>9, <1>13, <2>1 DEF Counted
<1>14. CASE Effect[line].sends = << >>
  <2>1. sent' = sent
    BY <1>14, TypeStep
  <2>2. more = old /\ ~ Sends(n + 1)'
    BY <1>2, <1>10, <1>14 DEF Sends
  <2> QED BY <1>3, <1>4, <1>7, <1>13, <2>1, <2>2
<1>15. CASE Effect[line].sends # << >>
  <2>1. PICK new \in Packet : sent' = Append(sent, new)
    BY <1>15, TypeStep
  <2>2. Len(sent') = x + 1 /\ DOMAIN sent' = 1 .. x + 1
    <3>1. sent \in Seq(Packet)
      BY DEF Types
    <3>2. sent' \in Seq(Packet) /\ Len(sent') = x + 1
      BY <1>3, <2>1, <3>1, AppendProperties
    <3> QED BY <3>2, LenProperties
  <2>3. Cardinality(more) = x + 1
    BY <1>7, <1>8, <1>10, <1>15, FS_AddElement
  <2> QED BY <1>13, <2>2, <2>3
<1> QED BY <1>14, <1>15

LEMMA StreamFacts ==
  ASSUME Types
  PROVE  /\ Stream \in Seq(Bytes(sent)) /\ Len(Stream) = Len(arrived) + Len(wire)
         /\ \A i \in 1 .. Len(arrived) : Stream[i] = arrived[i]
         /\ Stream = << >> <=> arrived = << >> /\ wire = << >>
         /\ Len(arrived) \in Nat /\ Len(wire) \in Nat
<1>1. arrived \in Seq(Bytes(sent)) /\ wire \in Seq(Bytes(sent))
  BY DEF Types
<1>2. Len(arrived) \in Nat /\ Len(wire) \in Nat
  BY <1>1, LenProperties
<1>3. /\ Stream \in Seq(Bytes(sent)) /\ Len(Stream) = Len(arrived) + Len(wire)
      /\ \A i \in 1 .. Len(arrived) + Len(wire) :
            Stream[i] = IF i <= Len(arrived) THEN arrived[i] ELSE wire[i - Len(arrived)]
  BY <1>1, ConcatProperties DEF Stream
<1>4. \A i \in 1 .. Len(arrived) : Stream[i] = arrived[i]
  BY <1>2, <1>3
<1>5. Stream = << >> <=> arrived = << >> /\ wire = << >>
  BY <1>1, ConcatEqualIffEmpty, ConcatEmptySeq DEF Stream
<1> QED BY <1>2, <1>3, <1>4, <1>5

\* One packet more.
LEMMA TypeStream ==
  ASSUME Types, Flows(sent, Stream), NEW new \in Packet, sent' = Append(sent, new),
         wire' = wire \o FrameBytes(Len(sent) + 1, new.frame), arrived' = arrived
  PROVE  /\ wire' \in Seq(Bytes(sent')) /\ arrived' \in Seq(Bytes(sent'))
         /\ Flows(sent', Stream') /\ Stream' # << >>
         /\ Stream'[1] = IF Stream = << >> THEN [k |-> Len(sent) + 1, i |-> 1] ELSE Stream[1]
         /\ sent' \in Seq(Packet) /\ Len(sent') = Len(sent) + 1 /\ Len(sent) \in Nat
         /\ \A k \in 1 .. Len(sent) : sent'[k] = sent[k]
         /\ sent'[Len(sent) + 1] = new
<1>1. /\ sent \in Seq(Packet) /\ Stream \in Seq(Bytes(sent))
      /\ arrived \in Seq(Bytes(sent)) /\ wire \in Seq(Bytes(sent))
  BY StreamFacts DEF Types
<1>2. PICK f : f = FrameBytes(Len(sent) + 1, new.frame)
  OBVIOUS
<1>3. /\ f \in Seq(Bytes(sent')) /\ Bytes(sent) \subseteq Bytes(sent')
      /\ Stream \o f \in Seq(Bytes(sent')) /\ Flows(sent', Stream \o f)
      /\ Stream \o f # << >>
      /\ (Stream \o f)[1] = IF Stream = << >> THEN [k |-> Len(sent) + 1, i |-> 1] ELSE Stream[1]
  BY <1>1, <1>2, GrowFlows
<1>4. arrived \in Seq(Bytes(sent')) /\ wire \in Seq(Bytes(sent'))
  BY <1>1, <1>3, SeqMonotonic
<1>5. Stream' = Stream \o f
  <2>1. (arrived \o wire) \o f = arrived \o (wire \o f)
    <3>1. PICK bytes : bytes = Bytes(sent')
      OBVIOUS
    <3>2. PICK a \in Seq(bytes) : a = arrived
      BY <1>4, <3>1
    <3>3. PICK w \in Seq(bytes) : w = wire
      BY <1>4, <3>1
    <3>4. PICK e \in Seq(bytes) : e = f
      BY <1>3, <3>1
    <3>5. (a \o w) \o e = a \o (w \o e)
      BY ConcatAssociative, SMTT(40)
    <3> QED BY <3>2, <3>3, <3>4, <3>5
  <2>2. Stream' = arrived \o (wire \o f)
    BY <1>2 DEF Stream
  <2> QED BY <2>1, <2>2 DEF Stream
<1>6. wire' \in Seq(Bytes(sent'))
  BY <1>2, <1>3, <1>4, ConcatProperties
<1>7. /\ sent' \in Seq(Packet) /\ Len(sent') = Len(sent) + 1 /\ Len(sent) \in Nat
      /\ \A k \in 1 .. Len(sent) : sent'[k] = sent[k]
      /\ sent'[Len(sent) + 1] = new
  BY <1>1, AppendProperties, LenProperties
<1> QED BY <1>3, <1>4, <1>5, <1>6, <1>7

LEMMA TypeTypes ==
  ASSUME Types, Flows(sent, Stream), NEW line \in Typeable, Type(line)
  PROVE  Types' /\ Flows(sent, Stream)'
<1>1. PICK n \in Nat : n = Len(typed) /\ n < MaxLines
  BY TypeStep, LenProperties DEF Types
<1>2. typed' \in Seq(Typeable) /\ Len(typed') = n + 1
  <2>1. typed \in Seq(Typeable) /\ typed' = Append(typed, line)
    BY TypeStep DEF Types
  <2> QED BY <1>1, <2>1, AppendProperties
<1>3. n + 1 <= MaxLines
  BY <1>1, LinesAssumption
<1>4. UNCHANGED <<arrived, reading, open, seqIn, late, recvq, joined, handled>>
  BY TypeStep
<1>5. PICK x \in Nat : x = Len(sent) /\ x <= n /\ DOMAIN sent = 1 .. x
  BY <1>1, LenProperties DEF Types
<1>6. CASE Effect[line].sends = << >>
  <2>1. sent' = sent /\ wire' = wire /\ past' = past
    BY <1>6, TypeStep
  <2>2. Len(sent') <= Len(typed')
    BY <1>1, <1>2, <1>5, <2>1
  <2>3. Flows(sent, Stream)'
    BY <1>4, <2>1 DEF Stream
  <2> QED BY <1>2, <1>3, <1>4, <2>1, <2>2, <2>3 DEF Types, NotReading
<1>7. CASE Effect[line].sends # << >>
  <2>1. PICK new \in Packet : /\ new.seq = Len(sent) /\ sent' = Append(sent, new)
                              /\ wire' = wire \o FrameBytes(Len(sent) + 1, new.frame)
                              /\ past' = IF new.frame >= LenMod THEN {"oversize"} ELSE {}
    BY <1>7, TypeStep
  <2>2. /\ wire' \in Seq(Bytes(sent')) /\ arrived' \in Seq(Bytes(sent'))
        /\ Flows(sent', Stream')
        /\ sent' \in Seq(Packet) /\ Len(sent') = x + 1
        /\ \A k \in 1 .. x : sent'[k] = sent[k]
        /\ sent'[x + 1] = new
    BY <1>4, <1>5, <2>1, TypeStream
  <2>3. DOMAIN sent' = 1 .. x + 1
    BY <2>2, LenProperties
  <2>4. \A k \in DOMAIN sent' : sent'[k].seq = k - 1
    <3> TAKE k \in DOMAIN sent'
    <3>1. CASE k \in 1 .. x
      BY <1>5, <2>2, <3>1 DEF Types
    <3>2. CASE k = x + 1
      BY <1>5, <2>1, <2>2, <3>2
    <3> QED BY <2>3, <3>1, <3>2
  <2>5. recvq' \in Seq(0 .. Len(sent'))
    <3>1. 0 .. x \subseteq 0 .. x + 1 /\ recvq \in Seq(0 .. x)
      BY <1>5 DEF Types
    <3>2. recvq \in Seq(0 .. x + 1)
      BY <3>1, SeqMonotonic
    <3> QED BY <1>4, <2>2, <3>2
  <2>6. handled' \in Seq([n : 1 .. Len(sent'), with : {"relayed", "answered"}])
    <3>1. handled \in Seq([n : 1 .. x, with : {"relayed", "answered"}])
      BY <1>5 DEF Types
    <3>2. [n : 1 .. x, with : {"relayed", "answered"}] \subseteq
            [n : 1 .. x + 1, with : {"relayed", "answered"}]
      OBVIOUS
    <3>3. handled \in Seq([n : 1 .. x + 1, with : {"relayed", "answered"}])
      BY <3>1, <3>2, SeqMonotonic
    <3> QED BY <1>4, <2>2, <3>3
  <2>7. Len(sent') <= Len(typed')
    BY <1>2, <1>5, <2>2
  <2>8. past' \subseteq {"oversize", "short", "garbled"}
    BY <2>1
  <2> QED BY <1>2, <1>3, <1>4, <2>2, <2>4, <2>5, <2>6, <2>7, <2>8 DEF Types, NotReading
<1> QED BY <1>6, <1>7

LEMMA TypeAligned ==
  ASSUME Types, Flows(sent, Stream), Aligned, NEW line \in Typeable, Type(line)
  PROVE  Aligned'
<1>1. /\ open /\ past = {}
      /\ UNCHANGED <<arrived, reading, open, seqIn, late, recvq, joined, handled>>
  BY TypeStep
<1>2. CASE Effect[line].sends = << >>
  <2>1. sent' = sent /\ wire' = wire /\ past' = past
    BY <1>2, TypeStep
  <2>2. Stream' = Stream
    BY <1>1, <2>1 DEF Stream
  <2> QED BY <1>1, <2>1, <2>2 DEF Aligned, Placed, Ordered, Received, NotReading
<1>3. CASE Effect[line].sends # << >>
  <2>1. PICK new \in Packet : /\ new.seq = Len(sent) /\ sent' = Append(sent, new)
                              /\ wire' = wire \o FrameBytes(Len(sent) + 1, new.frame)
                              /\ past' = IF new.frame >= LenMod THEN {"oversize"} ELSE {}
    BY <1>3, TypeStep
  <2>2. CASE new.frame >= LenMod
    <3>1. past' = {"oversize"}
      BY <2>1, <2>2
    <3> QED BY <3>1 DEF Aligned
  <2>3. CASE ~ (new.frame >= LenMod)
    <3>1. PICK x \in Nat : x = Len(sent) /\ DOMAIN sent = 1 .. x
      BY LenProperties DEF Types
    <3>2. /\ Stream' # << >>
          /\ Stream'[1] = IF Stream = << >> THEN [k |-> x + 1, i |-> 1] ELSE Stream[1]
          /\ sent' \in Seq(Packet) /\ Len(sent') = x + 1
          /\ \A k \in 1 .. x : sent'[k] = sent[k]
          /\ sent'[x + 1] = new
      BY <1>1, <2>1, <3>1, TypeStream
    <3>3. DOMAIN sent' = 1 .. x + 1
      BY <3>2, LenProperties
    <3>4. new.frame < LenMod
      <4>1. new.frame \in Nat /\ LenMod \in Nat
        BY SizesAssumption DEF LenMod, Packet
      <4> QED BY <2>3, <4>1
    <3>5. /\ \A k \in 1 .. x : sent[k].frame < LenMod
          /\ Placed(Stream) /\ Ordered(Stream)
      BY <1>1, <3>1 DEF Aligned
    <3>6. \A k \in DOMAIN sent' : sent'[k].frame < LenMod
      <4> TAKE k \in DOMAIN sent'
      <4>1. k \in 1 .. x \/ k = x + 1
        BY <3>3
      <4> QED BY <3>2, <3>4, <3>5, <4>1
    <3>7. Stream # << >> => Stream[1].k \in 1 .. x
      <4>1. Stream \in Seq(Bytes(sent))
        BY StreamFacts
      <4>2. ASSUME Stream # << >>
            PROVE  Stream[1] \in Bytes(sent)
        <5>1. 1 \in 1 .. Len(Stream)
          BY <4>1, <4>2, EmptySeq
        <5> QED BY <4>1, <5>1, ElementOfSeq
      <4> QED BY <3>1, <4>2 DEF Bytes
    <3>8. Placed(Stream)'
      BY <1>1, <3>2, <3>5, <3>7 DEF Placed, NotReading
    <3>9. Received(Stream)' = Received(Stream)
      BY <3>1, <3>2 DEF Received
    <3>10. Ordered(Stream)'
      BY <1>1, <3>5, <3>9 DEF Ordered
    <3>11. past' = {}
      BY <2>1, <2>3
    <3> QED BY <1>1, <3>6, <3>8, <3>10, <3>11 DEF Aligned
  <2> QED BY <2>2, <2>3
<1> QED BY <1>2, <1>3

-----------------------------------------------------------------------------
(* The bytes arrive; a packet is handled.                                   *)

LEMMA ArrivesStep ==
  ASSUME Types, Arrives
  PROVE  /\ Stream' = Stream /\ arrived' \in Seq(Bytes(sent)) /\ wire' \in Seq(Bytes(sent))
         /\ UNCHANGED <<typed, sent, reading, open, seqIn, late, recvq, joined, handled, past>>
<1>1. PICK n \in 1 .. Len(wire) : /\ arrived' = arrived \o SubSeq(wire, 1, n)
                                  /\ wire' = SubSeq(wire, n + 1, Len(wire))
  BY DEF Arrives
<1>2. arrived \in Seq(Bytes(sent)) /\ wire \in Seq(Bytes(sent)) /\ Len(wire) \in Nat
  BY LenProperties DEF Types
<1>3. \A i \in 1 .. Len(wire) : wire[i] \in Bytes(sent)
  BY <1>2, ElementOfSeq
<1>4. PICK a : a = SubSeq(wire, 1, n)
  OBVIOUS
<1>5. PICK b : b = SubSeq(wire, n + 1, Len(wire))
  OBVIOUS
<1>6. a \in Seq(Bytes(sent))
  BY <1>2, <1>3, <1>4, SubSeqProperties
<1>7. b \in Seq(Bytes(sent))
  BY <1>2, <1>3, <1>5, SubSeqProperties
<1>8. a \o b = wire
  <2>1. /\ 1 \in 1 .. Len(wire) + 1 /\ n \in 1 - 1 .. Len(wire) /\ Len(wire) \in n .. Len(wire)
    BY <1>2
  <2>2. a \o b = SubSeq(wire, 1, Len(wire))
    BY <1>2, <1>4, <1>5, <2>1, ConcatAdjacentSubSeq
  <2> QED BY <1>2, <2>2, SubSeqFull
<1>9. (arrived \o a) \o b = arrived \o (a \o b)
  <2>1. PICK bytes : bytes = Bytes(sent)
    OBVIOUS
  <2>2. PICK s \in Seq(bytes) : s = arrived
    BY <1>2, <2>1
  <2>3. a \in Seq(bytes) /\ b \in Seq(bytes)
    BY <1>6, <1>7, <2>1
  <2>4. (s \o a) \o b = s \o (a \o b)
    BY <2>3, ConcatAssociative, SMTT(40)
  <2> QED BY <2>2, <2>4
<1>10. Stream' = Stream
  BY <1>1, <1>4, <1>5, <1>8, <1>9 DEF Stream
<1>11. arrived' \in Seq(Bytes(sent)) /\ wire' \in Seq(Bytes(sent))
  BY <1>1, <1>2, <1>4, <1>5, <1>6, <1>7, ConcatProperties
<1> QED BY <1>10, <1>11 DEF Arrives

LEMMA ArrivesKeeps ==
  ASSUME IInv, Arrives
  PROVE  IInv'
<1>1. /\ Stream' = Stream /\ arrived' \in Seq(Bytes(sent)) /\ wire' \in Seq(Bytes(sent))
      /\ UNCHANGED <<typed, sent, reading, open, seqIn, late, recvq, joined, handled, past>>
  BY ArrivesStep DEF IInv
<1>2. Types'
  BY <1>1 DEF IInv, Types, NotReading
<1>3. Counted'
  BY <1>1 DEF IInv, Counted, Sends, PacketOf
<1>4. Flows(sent, Stream)'
  BY <1>1 DEF IInv
<1>5. Aligned'
  BY <1>1 DEF IInv, Aligned, Placed, Ordered, Received, NotReading
<1> QED BY <1>2, <1>3, <1>4, <1>5 DEF IInv

LEMMA HandleStep ==
  ASSUME Types, HandlePacket
  PROVE  /\ open /\ recvq # << >> /\ recvq' = Tail(recvq) /\ joined' \in BOOLEAN
         /\ Head(recvq) = 0 => handled' = handled
         /\ Head(recvq) # 0 => \E with \in {"relayed", "answered"} :
                                  handled' = Append(handled, [n |-> Head(recvq), with |-> with])
         /\ UNCHANGED <<typed, sent, wire, arrived, reading, open, seqIn, late, past>>
<1>1. /\ open /\ recvq # << >> /\ recvq' = Tail(recvq)
      /\ UNCHANGED <<typed, sent, wire, arrived, reading, open, seqIn, late, past>>
  BY DEF HandlePacket
<1>2. joined \in BOOLEAN
  BY DEF Types
<1>3. PICK n : n = Head(recvq)
  OBVIOUS
<1>4. CASE n = 0
  <2>1. HandleJunk
    BY <1>3, <1>4 DEF HandlePacket
  <2> QED BY <1>1, <1>3, <1>4, <2>1 DEF HandleJunk
<1>5. CASE n # 0
  <2>1. HandleMessage(n) \/ HandleWhisp(n) \/ HandleEnter(n) \/ HandleLeave(n) \/ HandleAsk(n)
    BY <1>3, <1>5 DEF HandlePacket
  <2>2. joined' \in BOOLEAN
    BY <1>2, <2>1 DEF HandleMessage, HandleWhisp, HandleEnter, HandleLeave, HandleAsk
  <2>3. \E with \in {"relayed", "answered"} : Ends(n, with)
    BY <2>1 DEF HandleMessage, HandleWhisp, HandleEnter, HandleLeave, HandleAsk
  <2> QED BY <1>1, <1>3, <1>5, <2>2, <2>3 DEF Ends
<1> QED BY <1>4, <1>5

LEMMA HandleKeeps ==
  ASSUME IInv, HandlePacket
  PROVE  IInv'
<1>1. /\ open /\ recvq # << >> /\ recvq' = Tail(recvq) /\ joined' \in BOOLEAN
      /\ Head(recvq) = 0 => handled' = handled
      /\ Head(recvq) # 0 => \E with \in {"relayed", "answered"} :
                               handled' = Append(handled, [n |-> Head(recvq), with |-> with])
      /\ UNCHANGED <<typed, sent, wire, arrived, reading, open, seqIn, late, past>>
  BY HandleStep DEF IInv
<1>2. PICK x \in Nat : x = Len(sent)
  BY LenProperties DEF IInv, Types
<1>3. PICK r \in Nat : r = Len(recvq) - 1
  <2>1. recvq \in Seq(0 .. Len(sent)) /\ recvq # << >>
    BY <1>1 DEF IInv, Types
  <2>2. Len(recvq) \in Nat \ {0}
    BY <2>1, EmptySeq
  <2> QED BY <2>2
<1>4. /\ recvq \in Seq(0 .. x) /\ Len(recvq) = r + 1 /\ DOMAIN recvq = 1 .. r + 1
      /\ Head(recvq) = recvq[1] /\ recvq[1] \in 0 .. x
      /\ recvq' \in Seq(0 .. x) /\ Len(recvq') = r /\ DOMAIN recvq' = 1 .. r
      /\ \A j \in 1 .. r : recvq'[j] = recvq[j + 1]
  <2>1. recvq \in Seq(0 .. x) /\ recvq # << >>
    BY <1>1, <1>2 DEF IInv, Types
  <2>2. /\ Len(recvq) = r + 1
        /\ recvq' \in Seq(0 .. x) /\ Len(recvq') = r
        /\ \A j \in 1 .. r : recvq'[j] = recvq[j + 1]
    BY <1>1, <1>3, <2>1, HeadTailProperties, LenProperties
  <2> QED BY <2>1, <2>2, LenProperties, HeadTailProperties
<1>5. PICK h \in Nat : h = Len(handled)
  BY LenProperties DEF IInv, Types
<1>6. handled \in Seq([n : 1 .. x, with : {"relayed", "answered"}]) /\ DOMAIN handled = 1 .. h
  BY <1>2, <1>5, LenProperties DEF IInv, Types
<1>7. ASSUME Head(recvq) # 0
      PROVE  /\ handled' \in Seq([n : 1 .. x, with : {"relayed", "answered"}])
             /\ Len(handled') = h + 1 /\ DOMAIN handled' = 1 .. h + 1
             /\ \A j \in 1 .. h : handled'[j] = handled[j]
             /\ handled'[h + 1].n = recvq[1]
  <2>1. PICK with \in {"relayed", "answered"} :
                handled' = Append(handled, [n |-> Head(recvq), with |-> with])
    BY <1>1, <1>7
  <2>2. [n |-> Head(recvq), with |-> with] \in [n : 1 .. x, with : {"relayed", "answered"}]
    BY <1>4, <1>7
  <2>3. /\ handled' \in Seq([n : 1 .. x, with : {"relayed", "answered"}])
        /\ Len(handled') = h + 1
        /\ \A j \in 1 .. h : handled'[j] = handled[j]
        /\ handled'[h + 1] = [n |-> Head(recvq), with |-> with]
    BY <1>5, <1>6, <2>1, <2>2, AppendProperties
  <2> QED BY <1>4, <2>3, LenProperties
<1>8. handled' \in Seq([n : 1 .. x, with : {"relayed", "answered"}])
  BY <1>1, <1>6, <1>7
<1>9. Types'
  BY <1>1, <1>2, <1>4, <1>8 DEF IInv, Types, NotReading
<1>10. Counted'
  BY <1>1 DEF IInv, Counted, Sends, PacketOf
<1>11. Stream' = Stream /\ Flows(sent, Stream)'
  BY <1>1 DEF IInv, Stream
<1>12. Aligned'
  <2>1. CASE past \cap {"oversize", "short"} = {}
    <3>1. Aligned
      BY DEF IInv
    <3>2. /\ past = {} /\ Ordered(Stream) /\ Placed(Stream)
          /\ \A k \in DOMAIN sent : sent[k].frame < LenMod
      BY <1>1, <2>1, <3>1 DEF Aligned
    <3>3. ~ late
      BY <1>1, <3>2 DEF Ordered
    <3>4. /\ \A j \in 1 .. h : handled[j].n = j
          /\ \A j \in 1 .. r + 1 : recvq[j] = h + j
          /\ h + (r + 1) = Received(Stream)
          /\ seqIn <= h + (r + 1)
      BY <1>1, <1>4, <1>5, <1>6, <3>2, <3>3 DEF Ordered
    <3>5. recvq[1] = h + 1
      BY <3>4
    <3>6. /\ Len(handled') = h + 1 /\ DOMAIN handled' = 1 .. h + 1
          /\ \A j \in 1 .. h : handled'[j] = handled[j]
          /\ handled'[h + 1].n = h + 1
      BY <1>4, <1>7, <3>5
    <3>7. \A j \in 1 .. h + 1 : handled'[j].n = j
      <4> TAKE j \in 1 .. h + 1
      <4>1. j \in 1 .. h \/ j = h + 1
        OBVIOUS
      <4> QED BY <3>4, <3>6, <4>1
    <3>8. \A j \in 1 .. r : recvq'[j] = (h + 1) + j
      <4> TAKE j \in 1 .. r
      <4>1. j + 1 \in 1 .. r + 1
        OBVIOUS
      <4>2. recvq[j + 1] = h + (j + 1)
        BY <3>4, <4>1
      <4> QED BY <1>4, <4>2
    <3>9. Received(Stream)' = Received(Stream)
      BY <1>1, <1>11 DEF Received
    <3>10. Ordered(Stream)'
      <4>1. (h + 1) + r = Received(Stream)' /\ seqIn' <= (h + 1) + r
        <5>1. (h + 1) + r = h + (r + 1)
          OBVIOUS
        <5> QED BY <1>1, <3>4, <3>9, <5>1
      <4> QED BY <1>1, <1>4, <3>3, <3>6, <3>7, <3>8, <4>1 DEF Ordered
    <3>11. Placed(Stream)'
      BY <1>1, <1>11, <3>2 DEF Placed, NotReading
    <3> QED BY <1>1, <3>2, <3>10, <3>11 DEF Aligned
  <2>2. CASE past \cap {"oversize", "short"} # {}
    BY <1>1, <2>2 DEF Aligned
  <2> QED BY <2>1, <2>2
<1> QED BY <1>9, <1>10, <1>11, <1>12 DEF IInv

-----------------------------------------------------------------------------
(* recv.                                                                    *)

\* What a call of recv returns and what it leaves.
LEMMA TakeFacts ==
  ASSUME Types, Flows(sent, Stream), NEW n \in Nat \ {0}, Take(n),
         sent' = sent, wire' = wire
  PROVE  \E g \in 1 .. Len(arrived) :
           /\ g = Len(Got(n)) /\ g <= n /\ (n <= Len(arrived) => g = n)
           /\ Got(n) \in Seq(Bytes(sent))
           /\ \A i \in 1 .. g : Got(n)[i] = Stream[i]
           /\ arrived' \in Seq(Bytes(sent))
           /\ Stream' \in Seq(Bytes(sent)) /\ Len(Stream') = Len(Stream) - g
           /\ \A i \in 1 .. Len(Stream) - g : Stream'[i] = Stream[g + i]
           /\ Flows(sent, Stream')
<1>1. arrived \in Seq(Bytes(sent)) /\ wire \in Seq(Bytes(sent)) /\ arrived # << >>
  BY DEF Types, Take
<1>2. PICK l \in Nat \ {0} : l = Len(arrived)
  BY <1>1, EmptySeq
<1>3. PICK g \in 1 .. l : g = IF n < l THEN n ELSE l
  OBVIOUS
<1>4. g <= n /\ (n <= l => g = n)
  BY <1>3
<1>5. \A i \in 1 .. l : arrived[i] \in Bytes(sent)
  BY <1>1, <1>2, ElementOfSeq
<1>6. PICK got : got = SubSeq(arrived, 1, g)
  OBVIOUS
<1>7. got = Got(n)
  BY <1>2, <1>3, <1>6 DEF Got
<1>8. got \in Seq(Bytes(sent)) /\ Len(got) = g /\ \A i \in 1 .. g : got[i] = arrived[i]
  <2>1. \A i \in 1 .. g : arrived[i] \in Bytes(sent)
    BY <1>5
  <2>2. /\ got \in Seq(Bytes(sent)) /\ Len(got) = g - 1 + 1
        /\ \A i \in 1 .. g - 1 + 1 : got[i] = arrived[1 + i - 1]
    BY <1>6, <2>1, SubSeqProperties
  <2> QED BY <2>2
<1>9. PICK rest : rest = arrived'
  OBVIOUS
<1>10. rest = SubSeq(arrived, g + 1, l)
  BY <1>2, <1>7, <1>8, <1>9 DEF Take
<1>11. /\ rest \in Seq(Bytes(sent)) /\ Len(rest) = l - g
       /\ \A i \in 1 .. l - g : rest[i] = arrived[g + i]
  <2>1. \A i \in g + 1 .. l : arrived[i] \in Bytes(sent)
    BY <1>5
  <2>2. /\ rest \in Seq(Bytes(sent)) /\ Len(rest) = IF g + 1 <= l THEN l - (g + 1) + 1 ELSE 0
        /\ \A i \in 1 .. l - (g + 1) + 1 : rest[i] = arrived[(g + 1) + i - 1]
    BY <1>10, <2>1, SubSeqProperties
  <2> QED BY <2>2
<1>12. PICK w \in Nat : w = Len(wire)
  BY <1>1, LenProperties
<1>13. PICK s : s = Stream
  OBVIOUS
<1>14. /\ s \in Seq(Bytes(sent)) /\ Len(s) = l + w
       /\ \A i \in 1 .. l + w : s[i] = IF i <= l THEN arrived[i] ELSE wire[i - l]
  BY <1>1, <1>2, <1>12, <1>13, ConcatProperties DEF Stream
<1>15. PICK t : t = rest \o wire
  OBVIOUS
<1>16. /\ t \in Seq(Bytes(sent)) /\ Len(t) = l - g + w
       /\ \A i \in 1 .. l - g + w : t[i] = IF i <= l - g THEN rest[i] ELSE wire[i - (l - g)]
  <2>1. /\ t \in Seq(Bytes(sent)) /\ Len(t) = Len(rest) + Len(wire)
        /\ \A i \in 1 .. Len(rest) + Len(wire) :
              t[i] = IF i <= Len(rest) THEN rest[i] ELSE wire[i - Len(rest)]
    BY <1>1, <1>11, <1>15, ConcatProperties
  <2>2. Len(rest) = l - g /\ Len(wire) = w
    BY <1>11, <1>12
  <2> QED BY <2>1, <2>2
<1>17. t = Stream'
  BY <1>9, <1>15 DEF Stream
<1>18. PICK m \in Nat : m = l - g + w
  OBVIOUS
<1>19. Len(t) = m /\ Len(s) - g = m /\ Len(s) = m + g
  BY <1>14, <1>16, <1>18
<1>20. \A i \in 1 .. m : t[i] = s[g + i]
  <2> TAKE i \in 1 .. m
  <2>1. g + i \in 1 .. l + w
    BY <1>18
  <2>2. CASE i <= l - g
    <3>1. t[i] = rest[i] /\ rest[i] = arrived[g + i]
      BY <1>11, <1>16, <1>18, <2>2
    <3>2. g + i <= l
      BY <2>2
    <3>3. s[g + i] = arrived[g + i]
      BY <1>14, <2>1, <3>2
    <3> QED BY <3>1, <3>3
  <2>3. CASE ~ (i <= l - g)
    <3>1. t[i] = wire[i - (l - g)]
      BY <1>16, <1>18, <2>3
    <3>2. ~ (g + i <= l) /\ i - (l - g) = g + i - l
      BY <2>3
    <3>3. s[g + i] = wire[g + i - l]
      BY <1>14, <2>1, <3>2
    <3> QED BY <3>1, <3>2, <3>3
  <2> QED BY <2>2, <2>3
<1>21. Flows(sent, t)
  <2>1. g \in 0 .. Len(s) /\ sent \in Seq(Packet)
    BY <1>14, <1>19 DEF Types
  <2>2. /\ s \in Seq(Bytes(sent)) /\ Flows(sent, s) /\ t \in Seq(Bytes(sent))
        /\ Len(t) = Len(s) - g /\ \A i \in 1 .. Len(t) : t[i] = s[g + i]
    BY <1>13, <1>14, <1>16, <1>19, <1>20
  <2> QED BY <2>1, <2>2, DropFlows
<1>22. \A i \in 1 .. g : got[i] = s[i]
  <2> TAKE i \in 1 .. g
  <2>1. i \in 1 .. l + w /\ i <= l
    OBVIOUS
  <2> QED BY <1>8, <1>14, <2>1
<1> QED BY <1>2, <1>4, <1>7, <1>8, <1>9, <1>11, <1>13, <1>16, <1>17, <1>19, <1>20, <1>21, <1>22

\* The first bytes of the stream, when they are those of a packet.
LEMMA FirstFacts ==
  ASSUME Types, Flows(sent, Stream), Stream # << >>
  PROVE  /\ Stream[1] \in Bytes(sent) /\ Stream[1].k \in DOMAIN sent /\ Stream[1].i \in Nat \ {0}
         /\ sent[Stream[1].k].frame \in Nat \ {0}
         /\ Len(Stream) \in Nat
         /\ \E left \in Nat :
              /\ left = sent[Stream[1].k].frame + 2 - Stream[1].i
              /\ 1 + left <= Len(Stream)
              /\ \A d \in 0 .. left :
                    Stream[1 + d] = [k |-> Stream[1].k, i |-> Stream[1].i + d]
              /\ 1 + left = Len(Stream) => Stream[1].k = Len(sent)
              /\ 1 + left # Len(Stream) =>
                    Stream[1 + left + 1] = [k |-> Stream[1].k + 1, i |-> 1]
<1>1. PICK s : s = Stream
  OBVIOUS
<1>2. s \in Seq(Bytes(sent)) /\ sent \in Seq(Packet) /\ s # << >> /\ Flows(sent, s)
  BY <1>1, StreamFacts DEF Types
<1>3. Len(s) \in Nat /\ 1 \in 1 .. Len(s)
  BY <1>2, EmptySeq, LenProperties
<1>4. s[1] \in Bytes(sent)
  BY <1>2, <1>3, ElementOfSeq
<1>5. DOMAIN sent = 1 .. Len(sent)
  BY <1>2, LenProperties
<1>6. PICK left \in Nat : left = Left(sent, s[1]) /\ left = sent[s[1].k].frame + 2 - s[1].i
  BY <1>2, <1>4, LeftFacts
<1>7. Goes(sent, s, 1, left)
  BY <1>2, <1>3, <1>6 DEF Flows
<1>8. /\ 1 + left <= Len(s)
      /\ \A d \in 0 .. left : s[1 + d] = [k |-> s[1].k, i |-> s[1].i + d]
      /\ 1 + left = Len(s) => s[1].k = Len(sent)
      /\ 1 + left # Len(s) => s[1 + left + 1] = [k |-> s[1].k + 1, i |-> 1]
  BY <1>7 DEF Goes
<1> QED BY <1>1, <1>2, <1>3, <1>4, <1>5, <1>6, <1>8, LeftFacts

-----------------------------------------------------------------------------
(* The length of a frame.                                                   *)

LEMMA DivFacts ==
  ASSUME NEW n \in Nat, NEW d \in Nat \ {0}
  PROVE  /\ n \div d \in Nat /\ n % d \in 0 .. d - 1
         /\ n = d * (n \div d) + (n % d)
         /\ n < d => n % d = n
BY SMT

LEMMA LenModFacts == LenMod \in Nat \ {0}
BY SizesAssumption DEF LenMod

LEMMA ValuesFacts ==
  ASSUME Types, NEW byte \in Bytes(sent)
  PROVE  /\ Values(byte) \subseteq Nat
         /\ byte.i = 1 => Values(byte) = {Length(sent[byte.k].frame) % Byte}
         /\ byte.i = 2 => Values(byte) = {Length(sent[byte.k].frame) \div Byte}
         /\ Length(sent[byte.k].frame) \in Nat /\ sent[byte.k].frame \in Nat
<1>1. PICK frame \in Nat : frame = sent[byte.k].frame
  BY LeftFacts DEF Types
<1>2. PICK len \in Nat : len = Length(frame)
  BY <1>1, LenModFacts, DivFacts DEF Length
<1>3. Byte \in Nat \ {0}
  BY SizesAssumption
<1>4. len % Byte \in Nat /\ len \div Byte \in Nat
  BY <1>2, <1>3, DivFacts
<1>5. Values(byte) = CASE byte.i = 1 -> {len % Byte}
                       [] byte.i = 2 -> {len \div Byte}
                       [] OTHER -> 0 .. Byte - 1
  BY <1>1, <1>2 DEF Values
<1>6. Values(byte) \subseteq Nat
  <2>1. 0 .. Byte - 1 \subseteq Nat
    BY <1>3
  <2> QED BY <1>4, <1>5, <2>1
<1>7. /\ byte.i = 1 => Values(byte) = {len % Byte}
      /\ byte.i = 2 => Values(byte) = {len \div Byte}
  BY <1>5
<1> QED BY <1>1, <1>2, <1>6, <1>7

\* The two bytes of a length that fits them.
LEMMA LengthRead ==
  ASSUME Types, NEW low, NEW high, NEW byte \in Bytes(sent), NEW other \in Bytes(sent),
         sent[byte.k].frame < LenMod, byte.i = 1, other.i = 2, other.k = byte.k,
         low \in Values(byte), high \in Values(other)
  PROVE  high * Byte + low = sent[byte.k].frame
<1>1. PICK frame \in Nat : frame = sent[byte.k].frame
  BY ValuesFacts
<1>2. Length(sent[byte.k].frame) = frame
  <2>1. PICK m \in Nat \ {0} : m = LenMod
    BY LenModFacts
  <2>2. frame % m = frame
    BY <1>1, <2>1, DivFacts
  <2> QED BY <1>1, <2>1, <2>2 DEF Length
<1>3. low = frame % Byte /\ high = frame \div Byte
  BY <1>2, ValuesFacts
<1>4. PICK b \in Nat \ {0} : b = Byte
  BY SizesAssumption
<1>5. PICK q \in Nat : q = frame \div b
  BY <1>1, <1>4, DivFacts
<1>6. PICK r \in Nat : r = frame % b
  BY <1>1, <1>4, DivFacts
<1>7. frame = b * q + r
  BY <1>1, <1>4, <1>5, <1>6, DivFacts
<1>8. b * q = q * b
  OBVIOUS
<1> QED BY <1>1, <1>3, <1>4, <1>5, <1>6, <1>7, <1>8

LEMMA LengthStep ==
  ASSUME Types, RecvLength
  PROVE  /\ open /\ reading = NotReading /\ Take(2) /\ past' = past \cup Short(2)
         /\ UNCHANGED <<typed, sent, wire, seqIn, late, recvq, joined, handled>>
         /\ \E low \in Values(Got(2)[1]) :
            \E high \in IF Len(Got(2)) = 2 THEN Values(Got(2)[2]) ELSE 0 .. Byte - 1 :
            \E len : /\ len = high * Byte + low
                     /\ open' = (len <= MaxFrame)
                     /\ reading' = IF len > MaxFrame \/ len = 0 THEN NotReading ELSE len
BY DEF RecvLength

LEMMA LengthKeeps ==
  ASSUME IInv, RecvLength
  PROVE  IInv'
<1>1. /\ open /\ reading = NotReading /\ Take(2) /\ past' = past \cup Short(2)
      /\ UNCHANGED <<typed, sent, wire, seqIn, late, recvq, joined, handled>>
  BY LengthStep DEF IInv
<1>2. PICK g \in 1 .. Len(arrived) :
           /\ g = Len(Got(2)) /\ g <= 2 /\ (2 <= Len(arrived) => g = 2)
           /\ Got(2) \in Seq(Bytes(sent))
           /\ \A i \in 1 .. g : Got(2)[i] = Stream[i]
           /\ arrived' \in Seq(Bytes(sent))
           /\ Stream' \in Seq(Bytes(sent)) /\ Len(Stream') = Len(Stream) - g
           /\ \A i \in 1 .. Len(Stream) - g : Stream'[i] = Stream[g + i]
           /\ Flows(sent, Stream')
  BY <1>1, TakeFacts DEF IInv
<1>3. PICK low \in Values(Got(2)[1]) :
      \E high \in IF Len(Got(2)) = 2 THEN Values(Got(2)[2]) ELSE 0 .. Byte - 1 :
      \E len : /\ len = high * Byte + low
               /\ open' = (len <= MaxFrame)
               /\ reading' = IF len > MaxFrame \/ len = 0 THEN NotReading ELSE len
  BY LengthStep DEF IInv
<1>4. PICK high \in IF Len(Got(2)) = 2 THEN Values(Got(2)[2]) ELSE 0 .. Byte - 1 :
      \E len : /\ len = high * Byte + low
               /\ open' = (len <= MaxFrame)
               /\ reading' = IF len > MaxFrame \/ len = 0 THEN NotReading ELSE len
  BY <1>3
<1>5. PICK len : /\ len = high * Byte + low
                 /\ open' = (len <= MaxFrame)
                 /\ reading' = IF len > MaxFrame \/ len = 0 THEN NotReading ELSE len
  BY <1>4
<1>6. Got(2)[1] \in Bytes(sent) /\ (g = 2 => Got(2)[2] \in Bytes(sent))
  <2>1. 1 \in 1 .. g /\ (g = 2 => 2 \in 1 .. g) /\ g = Len(Got(2))
    BY <1>2
  <2> QED BY <1>2, <2>1, ElementOfSeq
<1>7. len \in Nat /\ Byte \in Nat \ {0} /\ MaxFrame \in Nat
  <2>1. Byte \in Nat \ {0} /\ MaxFrame \in Nat
    BY SizesAssumption
  <2>2. low \in Nat
    BY <1>6, ValuesFacts DEF IInv
  <2>3. high \in Nat
    <3>1. 0 .. Byte - 1 \subseteq Nat
      BY <2>1
    <3> QED BY <1>2, <1>4, <1>6, <3>1, ValuesFacts DEF IInv
  <2>4. high * Byte \in Nat
    BY <2>1, <2>3
  <2> QED BY <1>5, <2>1, <2>2, <2>4
<1>8. Types'
  <2>1. reading' \in 1 .. MaxFrame \cup {NotReading'} /\ open' \in BOOLEAN
    BY <1>5, <1>7 DEF NotReading
  <2>2. wire \in Seq(Bytes(sent)) /\ past' \subseteq {"oversize", "short", "garbled"}
    BY <1>1 DEF IInv, Types, Short
  <2> QED BY <1>1, <1>2, <2>1, <2>2 DEF IInv, Types
<1>9. Counted'
  BY <1>1 DEF IInv, Counted, Sends, PacketOf
<1>10. Flows(sent, Stream)'
  BY <1>1, <1>2
<1>11. Aligned'
  <2>1. CASE past' \cap {"oversize", "short"} # {}
    BY <2>1 DEF Aligned
  <2>2. CASE past' \cap {"oversize", "short"} = {}
    <3>1. past \cap {"oversize", "short"} = {} /\ g = 2
      <4>1. "short" \notin Short(2)
        BY <1>1, <2>2
      <4>2. ~ (Len(Got(2)) < 2)
        BY <4>1 DEF Short
      <4> QED BY <1>1, <1>2, <2>2, <4>2
    <3>2. /\ past = {} /\ Placed(Stream) /\ Ordered(Stream)
          /\ \A k \in DOMAIN sent : sent[k].frame < LenMod
      BY <1>1, <3>1 DEF IInv, Aligned
    <3>3. past' = {}
      <4>1. Short(2) = {}
        BY <1>2, <3>1 DEF Short
      <4> QED BY <1>1, <3>2, <4>1
    <3>4. Stream # << >>
      <4>1. arrived # << >>
        BY <1>1 DEF Take
      <4> QED BY <4>1, StreamFacts DEF IInv
    <3>5. Stream[1].i = 1
      BY <1>1, <3>2, <3>4 DEF Placed
    <3>6. PICK k \in DOMAIN sent : k = Stream[1].k
      BY <3>4, FirstFacts DEF IInv
    <3>7. PICK frame \in Nat \ {0} : frame = sent[k].frame
      BY <3>4, <3>6, FirstFacts DEF IInv
    <3>8. PICK left \in Nat : /\ left = frame + 2 - 1 /\ Len(Stream) \in Nat
                              /\ 1 + left <= Len(Stream)
                              /\ \A d \in 0 .. left : Stream[1 + d] = [k |-> k, i |-> 1 + d]
      <4>1. PICK left \in Nat :
              /\ left = sent[Stream[1].k].frame + 2 - Stream[1].i
              /\ 1 + left <= Len(Stream)
              /\ \A d \in 0 .. left :
                    Stream[1 + d] = [k |-> Stream[1].k, i |-> Stream[1].i + d]
        BY <3>4, FirstFacts DEF IInv
      <4>2. Len(Stream) \in Nat
        BY <3>4, FirstFacts DEF IInv
      <4>3. left = frame + 2 - 1
        BY <3>5, <3>6, <3>7, <4>1
      <4>4. \A d \in 0 .. left : Stream[1 + d] = [k |-> k, i |-> 1 + d]
        BY <3>5, <3>6, <4>1
      <4> QED BY <4>1, <4>2, <4>3, <4>4
    <3>9. /\ Stream[2] = [k |-> k, i |-> 2] /\ Stream[3] = [k |-> k, i |-> 3]
          /\ Len(Stream) - 2 \in Nat \ {0}
      <4>1. 1 \in 0 .. left /\ 2 \in 0 .. left
        BY <3>8
      <4>2. Stream[1 + 1] = [k |-> k, i |-> 1 + 1] /\ Stream[1 + 2] = [k |-> k, i |-> 1 + 2]
        BY <3>8, <4>1
      <4>3. PICK l \in Nat : l = Len(Stream)
        BY <3>8
      <4>4. 1 + left <= l /\ left = frame + 2 - 1
        BY <3>8, <4>3
      <4>5. l - 2 \in Nat \ {0}
        BY <4>4
      <4> QED BY <4>2, <4>3, <4>5
    <3>10. Got(2)[1] = Stream[1] /\ Got(2)[2] = Stream[2]
      BY <1>2, <3>1
    <3>11. len = frame
      <4>1. high \in Values(Got(2)[2])
        BY <1>2, <3>1
      <4>2. sent[Got(2)[1].k].frame < LenMod /\ Got(2)[1].i = 1
        BY <3>2, <3>5, <3>6, <3>10
      <4>3. Got(2)[2].i = 2 /\ Got(2)[2].k = Got(2)[1].k
        BY <3>6, <3>9, <3>10
      <4>4. high * Byte + low = sent[Got(2)[1].k].frame
        BY <1>6, <3>1, <4>1, <4>2, <4>3, LengthRead DEF IInv
      <4> QED BY <1>5, <3>6, <3>7, <3>10, <4>4
    <3>12. \A j \in DOMAIN sent : sent'[j].frame < LenMod
      BY <1>1, <3>2
    <3>13. Stream' # << >> /\ Stream'[1] = [k |-> k, i |-> 3]
      <4>1. Len(Stream') # 0
        BY <1>2, <3>1, <3>9
      <4>2. 1 \in 1 .. Len(Stream) - g /\ g + 1 = 3
        <5>1. PICK l \in Nat \ {0} : l = Len(Stream) - 2
          BY <3>9
        <5> QED BY <3>1, <5>1
      <4>3. Stream'[1] = Stream[g + 1]
        BY <1>2, <4>2
      <4> QED BY <3>9, <4>1, <4>2, <4>3
    <3>14. Received(Stream)' = Received(Stream)
      BY <3>4, <3>6, <3>13 DEF Received
    <3>15. Ordered(Stream)'
      BY <1>1, <3>2, <3>14 DEF Ordered
    <3>16. CASE len > MaxFrame
      <4>1. ~ open'
        <5>1. ~ (len <= MaxFrame)
          BY <1>7, <3>16
        <5> QED BY <1>5, <5>1, Zenon
      <4>2. \E j \in DOMAIN sent' : sent'[j].frame > MaxFrame
        BY <1>1, <3>7, <3>11, <3>16
      <4> QED BY <1>1, <3>3, <3>12, <3>15, <4>1, <4>2 DEF Aligned
    <3>17. CASE ~ (len > MaxFrame)
      <4>1. open' /\ reading' = len
        <5>1. len <= MaxFrame /\ len # 0
          BY <1>7, <3>7, <3>11, <3>17
        <5> QED BY <1>5, <3>17, <5>1, Zenon
      <4>2. len # NotReading
        BY <3>2, <3>7, <3>11, LenModFacts DEF NotReading
      <4>3. Placed(Stream)'
        <5>1. Stream'[1].i = 3 /\ reading' = sent'[Stream'[1].k].frame
          BY <1>1, <3>7, <3>11, <3>13, <4>1
        <5> QED BY <3>13, <4>1, <4>2, <5>1 DEF Placed, NotReading
      <4> QED BY <1>1, <3>3, <3>12, <3>15, <4>1, <4>3 DEF Aligned
    <3> QED BY <3>16, <3>17
  <2> QED BY <2>1, <2>2
<1> QED BY <1>8, <1>9, <1>10, <1>11 DEF IInv

-----------------------------------------------------------------------------
(* A frame.                                                                 *)

LEMMA WholeFacts ==
  ASSUME Types, NEW k \in DOMAIN sent, NEW frame \in Nat \ {0}, frame = sent[k].frame
  PROVE  /\ Whole(k) \in Seq(Bytes(sent)) /\ Len(Whole(k)) = frame
         /\ \A i \in 1 .. frame : Whole(k)[i] = [k |-> k, i |-> i + 2]
<1>1. PICK f : f = FrameBytes(k, sent[k].frame)
  OBVIOUS
<1>2. /\ f \in Seq(Bytes(sent)) /\ Len(f) = frame + 2
      /\ \A i \in 1 .. frame + 2 : f[i] = [k |-> k, i |-> i]
  <2>1. sent \in Seq(Packet)
    BY DEF Types
  <2> QED BY <1>1, <2>1, FrameFacts
<1>3. Whole(k) = SubSeq(f, 3, frame + 2)
  BY <1>1 DEF Whole
<1>4. \A i \in 3 .. frame + 2 : f[i] \in Bytes(sent)
  <2>1. \A i \in 3 .. frame + 2 : i \in 1 .. Len(f)
    BY <1>2
  <2> QED BY <1>2, <2>1, ElementOfSeq
<1>5. PICK w : w = SubSeq(f, 3, frame + 2)
  OBVIOUS
<1>6. /\ w \in Seq(Bytes(sent)) /\ Len(w) = IF 3 <= frame + 2 THEN frame + 2 - 3 + 1 ELSE 0
      /\ \A i \in 1 .. frame + 2 - 3 + 1 : w[i] = f[3 + i - 1]
  BY <1>4, <1>5, SubSeqProperties
<1>7. Len(w) = frame
  BY <1>6
<1>8. ASSUME NEW i \in 1 .. frame
      PROVE  w[i] = [k |-> k, i |-> i + 2]
  <2>1. i \in 1 .. frame + 2 - 3 + 1 /\ 3 + i - 1 = i + 2 /\ i + 2 \in 1 .. frame + 2
    OBVIOUS
  <2>2. w[i] = f[i + 2]
    BY <1>6, <2>1
  <2> QED BY <1>2, <2>1, <2>2
<1> QED BY <1>3, <1>5, <1>6, <1>7, <1>8

\* A frame that is the packet's is decoded, another is not.
LEMMA FrameStep ==
  ASSUME Types, RecvFrame, NEW k \in DOMAIN sent, k = Got(reading)[1].k
  PROVE  /\ open /\ reading # NotReading /\ Take(reading) /\ reading' = NotReading
         /\ UNCHANGED <<typed, sent, wire, late, joined, handled>>
         /\ \/ /\ Got(reading) = Whole(k) /\ reading = Len(Whole(k))
               /\ open' = open /\ past' = past
               /\ \/ (late \/ k - 1 < seqIn) /\ seqIn' = seqIn /\ recvq' = recvq
                  \/ ~ late /\ ~ (k - 1 < seqIn) /\ seqIn' = k - 1 /\ recvq' = Append(recvq, k)
            \/ /\ ~ (Got(reading) = Whole(k) /\ reading = Len(Whole(k)))
               /\ past' = past \cup {"garbled"} \cup Short(reading)
               /\ open' \in BOOLEAN /\ seqIn' \in {seqIn, MaxLines}
               /\ recvq' = recvq \/ recvq' = Append(recvq, 0)
<1>1. /\ open /\ reading # NotReading /\ Take(reading) /\ reading' = NotReading
      /\ UNCHANGED <<typed, sent, wire, late, joined, handled>>
  BY DEF RecvFrame
<1>2. CASE Got(reading) = Whole(k) /\ reading = Len(Whole(k))
  <2>1. Decapsulate(sent[k]) /\ UNCHANGED <<open, past>>
    BY <1>2 DEF RecvFrame
  <2>2. sent[k].seq = k - 1 /\ k \in Nat
    <3>1. DOMAIN sent = 1 .. Len(sent)
      BY LenProperties DEF Types
    <3> QED BY <3>1 DEF Types
  <2>3. sent[k].seq + 1 = k
    BY <2>2
  <2> QED BY <1>1, <1>2, <2>1, <2>2, <2>3 DEF Decapsulate
<1>3. CASE ~ (Got(reading) = Whole(k) /\ reading = Len(Whole(k)))
  <2>1. DecryptGarbage /\ past' = past \cup {"garbled"} \cup Short(reading)
    BY <1>3 DEF RecvFrame
  <2>2. open \in BOOLEAN
    BY DEF Types
  <2> QED BY <1>1, <1>3, <2>1, <2>2 DEF DecryptGarbage
<1> QED BY <1>2, <1>3

LEMMA FrameKeeps ==
  ASSUME IInv, RecvFrame
  PROVE  IInv'
<1>1. /\ open /\ reading # NotReading /\ Take(reading) /\ reading' = NotReading
      /\ UNCHANGED <<typed, sent, wire, late, joined, handled>>
  BY DEF RecvFrame
<1>2. reading \in Nat \ {0}
  <2>1. reading \in 1 .. MaxFrame /\ MaxFrame \in Nat
    BY <1>1, SizesAssumption DEF IInv, Types
  <2> QED BY <2>1
<1>3. PICK g \in 1 .. Len(arrived) :
           /\ g = Len(Got(reading)) /\ g <= reading /\ (reading <= Len(arrived) => g = reading)
           /\ Got(reading) \in Seq(Bytes(sent))
           /\ \A i \in 1 .. g : Got(reading)[i] = Stream[i]
           /\ arrived' \in Seq(Bytes(sent))
           /\ Stream' \in Seq(Bytes(sent)) /\ Len(Stream') = Len(Stream) - g
           /\ \A i \in 1 .. Len(Stream) - g : Stream'[i] = Stream[g + i]
           /\ Flows(sent, Stream')
  BY <1>1, <1>2, TakeFacts DEF IInv
<1>4. PICK x \in Nat : x = Len(sent) /\ DOMAIN sent = 1 .. x /\ x <= MaxLines
  <2>1. sent \in Seq(Packet) /\ typed \in Seq(Typeable) /\ Len(typed) <= MaxLines
        /\ Len(sent) <= Len(typed)
    BY DEF IInv, Types
  <2>2. Len(sent) \in Nat /\ Len(typed) \in Nat /\ DOMAIN sent = 1 .. Len(sent)
    BY <2>1, LenProperties
  <2>3. MaxLines \in Nat
    BY LinesAssumption
  <2>4. Len(sent) <= MaxLines
    BY <2>1, <2>2, <2>3
  <2> QED BY <2>2, <2>4
<1>5. PICK k \in 1 .. x : k = Got(reading)[1].k
  <2>1. 1 \in 1 .. g /\ g = Len(Got(reading))
    BY <1>3
  <2>2. Got(reading)[1] \in Bytes(sent)
    BY <1>3, <2>1, ElementOfSeq
  <2> QED BY <1>4, <2>2 DEF Bytes
<1>6. \/ /\ Got(reading) = Whole(k) /\ reading = Len(Whole(k))
         /\ open' = open /\ past' = past
         /\ \/ (late \/ k - 1 < seqIn) /\ seqIn' = seqIn /\ recvq' = recvq
            \/ ~ late /\ ~ (k - 1 < seqIn) /\ seqIn' = k - 1 /\ recvq' = Append(recvq, k)
      \/ /\ ~ (Got(reading) = Whole(k) /\ reading = Len(Whole(k)))
         /\ past' = past \cup {"garbled"} \cup Short(reading)
         /\ open' \in BOOLEAN /\ seqIn' \in {seqIn, MaxLines}
         /\ recvq' = recvq \/ recvq' = Append(recvq, 0)
  BY <1>4, <1>5, FrameStep DEF IInv
<1>7. recvq \in Seq(0 .. x) /\ k \in 0 .. x /\ 0 \in 0 .. x
  BY <1>4 DEF IInv, Types
<1>8. Types'
  <2>1. recvq' \in Seq(0 .. x)
    <3>1. recvq' \in {recvq, Append(recvq, k), Append(recvq, 0)}
      BY <1>6
    <3>2. Append(recvq, k) \in Seq(0 .. x) /\ Append(recvq, 0) \in Seq(0 .. x)
      BY <1>7, AppendProperties
    <3> QED BY <1>7, <3>1, <3>2
  <2>2. seqIn' \in 0 .. MaxLines
    <3>1. k - 1 \in 0 .. MaxLines /\ MaxLines \in 0 .. MaxLines
      BY <1>4, LinesAssumption
    <3> QED BY <1>6, <3>1 DEF IInv, Types
  <2>3. past' \subseteq {"oversize", "short", "garbled"} /\ open' \in BOOLEAN
    BY <1>6 DEF IInv, Types, Short
  <2>4. reading' \in 1 .. MaxFrame \cup {NotReading'}
    BY <1>1 DEF NotReading
  <2> QED BY <1>1, <1>3, <1>4, <2>1, <2>2, <2>3, <2>4 DEF IInv, Types
<1>9. Counted'
  BY <1>1 DEF IInv, Counted, Sends, PacketOf
<1>10. Flows(sent, Stream)'
  BY <1>1, <1>3
<1>11. Aligned'
  <2>1. CASE past' \cap {"oversize", "short"} # {}
    BY <2>1 DEF Aligned
  <2>2. CASE past' \cap {"oversize", "short"} = {}
    <3>1. past \cap {"oversize", "short"} = {}
      BY <1>6, <2>2
    <3>2. /\ past = {} /\ Placed(Stream) /\ Ordered(Stream)
          /\ \A j \in DOMAIN sent : sent[j].frame < LenMod
      BY <1>1, <3>1 DEF IInv, Aligned
    <3>3. Stream # << >> /\ Stream[1].i = 3 /\ reading = sent[Stream[1].k].frame
      BY <1>1, <3>2 DEF Placed
    <3>4. Stream[1].k = k /\ reading = sent[k].frame /\ Got(reading)[1] = Stream[1]
      <4>1. Got(reading)[1] = Stream[1]
        BY <1>3
      <4> QED BY <1>5, <3>3, <4>1
    <3>5. PICK l \in Nat : l = Len(Stream)
      BY <3>3, FirstFacts DEF IInv
    <3>6. PICK left \in Nat : /\ left = reading - 1 /\ 1 + left <= l
                              /\ \A d \in 0 .. left : Stream[1 + d] = [k |-> k, i |-> 3 + d]
                              /\ 1 + left = l => k = x
                              /\ 1 + left # l => Stream[1 + left + 1] = [k |-> k + 1, i |-> 1]
      <4>1. PICK left \in Nat :
              /\ left = sent[Stream[1].k].frame + 2 - Stream[1].i
              /\ 1 + left <= Len(Stream)
              /\ \A d \in 0 .. left :
                    Stream[1 + d] = [k |-> Stream[1].k, i |-> Stream[1].i + d]
              /\ 1 + left = Len(Stream) => Stream[1].k = Len(sent)
              /\ 1 + left # Len(Stream) =>
                    Stream[1 + left + 1] = [k |-> Stream[1].k + 1, i |-> 1]
        BY <3>3, FirstFacts DEF IInv
      <4>2. left = reading - 1
        BY <1>2, <3>3, <3>4, <4>1
      <4>3. \A d \in 0 .. left : Stream[1 + d] = [k |-> k, i |-> 3 + d]
        BY <3>3, <3>4, <4>1
      <4>4. /\ 1 + left <= l
            /\ 1 + left = l => k = x
            /\ 1 + left # l => Stream[1 + left + 1] = [k |-> k + 1, i |-> 1]
        BY <1>4, <3>4, <3>5, <4>1
      <4> QED BY <4>2, <4>3, <4>4
    <3>7. /\ Whole(k) \in Seq(Bytes(sent)) /\ Len(Whole(k)) = reading
          /\ \A i \in 1 .. reading : Whole(k)[i] = [k |-> k, i |-> i + 2]
      BY <1>2, <1>4, <3>4, WholeFacts DEF IInv
    <3>8. Got(reading) = Whole(k) /\ reading = Len(Whole(k))
      <4>1. SUFFICES ASSUME ~ (Got(reading) = Whole(k) /\ reading = Len(Whole(k)))
                     PROVE  FALSE
        OBVIOUS
      <4>2. past' = past \cup {"garbled"} \cup Short(reading)
        BY <1>6, <4>1
      <4>3. g = reading
        <5>1. "short" \notin Short(reading)
          BY <2>2, <4>2
        <5>2. ~ (Len(Got(reading)) < reading)
          BY <5>1 DEF Short
        <5> QED BY <1>2, <1>3, <5>2
      <4>4. ASSUME NEW i \in 1 .. reading
            PROVE  Got(reading)[i] = Whole(k)[i]
        <5>1. PICK d \in 0 .. left : i = 1 + d
          <6>1. i - 1 \in 0 .. left /\ i = 1 + (i - 1)
            BY <1>2, <3>6
          <6> QED BY <6>1
        <5>2. Stream[i] = [k |-> k, i |-> 3 + d] /\ 3 + d = i + 2
          BY <3>6, <5>1
        <5> QED BY <1>3, <3>7, <4>3, <5>2
      <4>5. Len(Got(reading)) = reading
        BY <1>3, <4>3
      <4>6. Got(reading) = Whole(k)
        BY <1>3, <3>7, <4>4, <4>5, SeqEqual
      <4> QED BY <3>7, <4>1, <4>6
    <3>9. /\ open' = open /\ past' = past
          /\ \/ (late \/ k - 1 < seqIn) /\ seqIn' = seqIn /\ recvq' = recvq
             \/ ~ late /\ ~ (k - 1 < seqIn) /\ seqIn' = k - 1 /\ recvq' = Append(recvq, k)
      BY <1>6, <3>8
    <3>10. g = reading
      BY <1>3, <3>7, <3>8
    <3>11. Received(Stream) = k - 1
      BY <3>3, <3>4 DEF Received
    <3>12. Placed(Stream)' /\ Received(Stream)' = k
      <4>1. CASE 1 + left = l
        <5>1. Len(Stream') = 0
          BY <1>2, <1>3, <3>5, <3>6, <3>10, <4>1
        <5>2. Stream' = << >>
          BY <1>3, <5>1, EmptySeq
        <5> QED BY <1>1, <1>4, <3>6, <4>1, <5>2 DEF Placed, Received, NotReading
      <4>2. CASE 1 + left # l
        <5>1. Stream'[1] = Stream[g + 1] /\ Len(Stream') # 0
          <6>1. l - g \in Nat \ {0}
            BY <1>2, <3>5, <3>6, <3>10, <4>2
          <6>2. 1 \in 1 .. l - g
            BY <6>1
          <6> QED BY <1>3, <3>5, <6>1, <6>2
        <5>2. Stream[g + 1] = [k |-> k + 1, i |-> 1]
          <6>1. g + 1 = 1 + left + 1
            BY <1>2, <3>6, <3>10
          <6> QED BY <3>6, <4>2, <6>1
        <5>3. Stream' # << >> /\ Stream'[1].i = 1 /\ Stream'[1].k = k + 1
          BY <5>1, <5>2
        <5>4. Stream'[1].k - 1 = k
          BY <5>3
        <5> QED BY <1>1, <5>3, <5>4 DEF Placed, Received, NotReading
      <4> QED BY <4>1, <4>2
    <3>13. Ordered(Stream)'
      <4>1. CASE late
        BY <1>1, <3>2, <3>9, <4>1 DEF Ordered
      <4>2. CASE ~ late
        <5>1. PICK h \in Nat : h = Len(handled)
          BY LenProperties DEF IInv, Types
        <5>2. PICK r \in Nat : r = Len(recvq) /\ DOMAIN recvq = 1 .. r
          BY <1>7, LenProperties
        <5>3. /\ \A j \in DOMAIN handled : handled[j].n = j
              /\ \A j \in 1 .. r : recvq[j] = h + j
              /\ h + r = k - 1 /\ seqIn <= h + r
          BY <1>1, <3>2, <3>11, <4>2, <5>1, <5>2 DEF Ordered
        <5>4. seqIn \in Nat
          BY LinesAssumption DEF IInv, Types
        <5>5. seqIn' = k - 1 /\ recvq' = Append(recvq, k)
          <6>1. ~ (k - 1 < seqIn)
            BY <5>3, <5>4
          <6> QED BY <3>9, <4>2, <6>1
        <5>6. /\ recvq' \in Seq(0 .. x) /\ Len(recvq') = r + 1
              /\ \A j \in 1 .. r : recvq'[j] = recvq[j]
              /\ recvq'[r + 1] = k
          BY <1>7, <5>2, <5>5, AppendProperties
        <5>7. DOMAIN recvq' = 1 .. r + 1
          BY <5>6, LenProperties
        <5>8. \A j \in 1 .. r + 1 : recvq'[j] = h + j
          <6> TAKE j \in 1 .. r + 1
          <6>1. CASE j \in 1 .. r
            BY <5>3, <5>6, <6>1
          <6>2. CASE j = r + 1
            <7>1. k = h + (r + 1)
              <8>1. h + r = k - 1 /\ k \in Nat
                BY <5>3
              <8> QED BY <8>1
            <7> QED BY <5>6, <6>2, <7>1
          <6> QED BY <6>1, <6>2
        <5>9. h + (r + 1) = k /\ seqIn' <= h + (r + 1)
          BY <5>3, <5>5
        <5> QED BY <1>1, <3>12, <4>2, <5>1, <5>3, <5>6, <5>7, <5>8, <5>9 DEF Ordered
      <4> QED BY <4>1, <4>2
    <3> QED BY <1>1, <3>2, <3>9, <3>12, <3>13 DEF Aligned
  <2> QED BY <2>1, <2>2
<1> QED BY <1>8, <1>9, <1>10, <1>11 DEF IInv

-----------------------------------------------------------------------------
(* Together.                                                                *)

LEMMA Begins == Init => IInv
<1> SUFFICES ASSUME Init
             PROVE  IInv
  OBVIOUS
<1>1. /\ typed = << >> /\ sent = << >> /\ wire = << >> /\ arrived = << >>
      /\ reading = NotReading /\ open = TRUE /\ seqIn = 0 /\ late \in BOOLEAN
      /\ recvq = << >> /\ joined \in BOOLEAN /\ handled = << >> /\ past = {}
  BY DEF Init
<1>2. Len(<< >>) = 0 /\ DOMAIN << >> = {} /\ MaxLines \in Nat
  BY LinesAssumption
<1>3. Types
  <2>1. \A S : << >> \in Seq(S)
    BY EmptySeq
  <2>2. 0 \in 0 .. MaxLines /\ 0 <= MaxLines
    BY <1>2
  <2> QED BY <1>1, <1>2, <2>1, <2>2 DEF Types
<1>4. Counted
  <2>1. {j \in DOMAIN typed : Sends(j)} = {} /\ DOMAIN typed = {} /\ Len(sent) = 0
    BY <1>1, <1>2
  <2> QED BY <2>1, FS_EmptySet DEF Counted
<1>5. Stream = << >>
  BY <1>1, <1>3, StreamFacts
<1>6. Flows(sent, Stream)
  <2>1. \A p \in 1 .. Len(Stream) : FALSE
    BY <1>2, <1>5
  <2> QED BY <2>1 DEF Flows
<1>7. Aligned
  <2>1. Placed(Stream) /\ Received(Stream) = 0
    BY <1>1, <1>2, <1>5 DEF Placed, Received
  <2>2. Ordered(Stream)
    BY <1>1, <1>2, <2>1 DEF Ordered
  <2> QED BY <1>1, <1>2, <2>1, <2>2 DEF Aligned
<1> QED BY <1>3, <1>4, <1>6, <1>7 DEF IInv

LEMMA Steps == IInv /\ [Next]_vars => IInv'
<1> SUFFICES ASSUME IInv, [Next]_vars
             PROVE  IInv'
  OBVIOUS
<1>1. ASSUME NEW line \in Typeable, Type(line)
      PROVE  IInv'
  BY <1>1, TypeTypes, TypeCounted, TypeAligned DEF IInv
<1>2. CASE Arrives
  BY <1>2, ArrivesKeeps
<1>3. CASE RecvLength
  BY <1>3, LengthKeeps
<1>4. CASE RecvFrame
  BY <1>4, FrameKeeps
<1>5. CASE HandlePacket
  BY <1>5, HandleKeeps
<1>6. CASE UNCHANGED vars
  <2>1. UNCHANGED <<typed, sent, wire, arrived, reading, open, seqIn, late, recvq, joined,
                    handled, past>>
    BY <1>6 DEF vars
  <2>2. Stream' = Stream
    BY <2>1 DEF Stream
  <2> QED BY <2>1, <2>2 DEF IInv, Types, Counted, Sends, PacketOf, Aligned, Placed, Ordered,
                           Received, NotReading
<1> QED BY <1>1, <1>2, <1>3, <1>4, <1>5, <1>6 DEF Next

LEMMA Invariant == Spec => []IInv
  BY Begins, Steps, PTL DEF Spec

\* Types; and what is in the receiver's hands is never more than was sent.
THEOREM Typing == Spec => []TypeOK
<1>1. IInv => TypeOK
  <2> SUFFICES ASSUME IInv
               PROVE  TypeOK
    OBVIOUS
  <2>1. PICK x \in Nat : x = Len(sent) /\ DOMAIN sent = 1 .. x
    BY LenProperties DEF IInv, Types
  <2>2. \A k \in DOMAIN sent : sent[k].op \in Kinds /\ sent[k].seq = k - 1
    <3> TAKE k \in DOMAIN sent
    <3>1. k \in 1 .. Len(sent) /\ sent \in Seq(Packet)
      BY <2>1 DEF IInv, Types
    <3>2. sent[k] \in Packet
      BY <3>1, ElementOfSeq
    <3> QED BY <3>2 DEF IInv, Types, Packet
  <2>3. \A i \in DOMAIN recvq : recvq[i] \in 0 .. Len(sent)
    <3>1. recvq \in Seq(0 .. Len(sent))
      BY DEF IInv, Types
    <3> QED BY <3>1, LenProperties, ElementOfSeq
  <2>4. \A i \in DOMAIN handled : handled[i].n \in DOMAIN sent
    <3> TAKE i \in DOMAIN handled
    <3>1. handled \in Seq([n : 1 .. x, with : {"relayed", "answered"}])
      BY <2>1 DEF IInv, Types
    <3>2. i \in 1 .. Len(handled)
      BY <3>1, LenProperties
    <3>3. handled[i] \in [n : 1 .. x, with : {"relayed", "answered"}]
      BY <3>1, <3>2, ElementOfSeq
    <3> QED BY <2>1, <3>3
  <2> QED BY <2>2, <2>3, <2>4 DEF IInv, Types, TypeOK
<1> QED BY <1>1, Invariant, PTL

\* What is said to the channel or whispered is shown as such, unless it begins with two dots or
\* is a dot alone, or the command is abbreviated or in capitals; and a line shown as said or
\* whispered is sent as that or followed by an error: the echo of ClientCore::HandleSend and the
\* parser of ChatHandler never disagree otherwise, whatever the line.
THEOREM Echo == Spec => []SaidIsShown
<1>1. IInv => SaidIsShown
  <2> SUFFICES ASSUME IInv
               PROVE  SaidIsShown
    OBVIOUS
  <2>1. ASSUME NEW line \in Range(typed)
        PROVE  line \in Typeable
    <3>1. typed \in Seq(Typeable)
      BY DEF IInv, Types
    <3>2. Range(typed) \in SUBSET Typeable
      BY <3>1, RangeOfSeq
    <3> QED BY <3>2
  <2> QED BY <2>1, EffectFacts DEF SaidIsShown
<1> QED BY <1>1, Invariant, PTL

\* Unless a read was short or a length did not fit, no frame is garbled, packets are handled in
\* the order of their lines, none is left out before one that is handled, and the server closes
\* only for a frame that is longer than it accepts: for lines of any number and size, and however
\* the connection divides the bytes.
THEOREM Order == Spec => []InOrder
<1>1. IInv => InOrder
  <2> SUFFICES ASSUME IInv, past \subseteq {"garbled"}
               PROVE  /\ past = {}
                      /\ \A i \in DOMAIN handled : handled[i].n = i
                      /\ open \/ \E k \in DOMAIN sent : sent[k].frame > MaxFrame
    BY DEF InOrder
  <2>1. past \cap {"oversize", "short"} = {}
    OBVIOUS
  <2>2. /\ past = {} /\ Ordered(Stream)
        /\ open \/ \E k \in DOMAIN sent : sent[k].frame > MaxFrame
    BY <2>1 DEF IInv, Aligned
  <2>3. \A i \in DOMAIN handled : handled[i].n = i
    <3>1. CASE late
      <4>1. DOMAIN handled = {}
        BY <2>2, <3>1 DEF Ordered
      <4> QED BY <4>1
    <3>2. CASE ~ late
      BY <2>2, <3>2 DEF Ordered
    <3> QED BY <3>1, <3>2
  <2> QED BY <2>2, <2>3
<1> QED BY <1>1, Invariant, PTL

\* From one end to the other: once nothing is under way, every line that was typed has had an
\* effect that the user or others can see, except for the two commands that do nothing.
THEOREM NothingIsLost == Spec => []Told
<1>1. IInv => Told
  <2> SUFFICES ASSUME IInv, Quiet, open, past = {}, ~ late, NEW i \in DOMAIN typed
               PROVE  HadEffect(i)
    BY DEF Told
  <2>1. typed[i] \in Typeable
    <3>1. typed \in Seq(Typeable)
      BY DEF IInv, Types
    <3> QED BY <3>1, LenProperties, ElementOfSeq
  <2>2. CASE Effect[typed[i]].sends = << >>
    <3>1. Effect[typed[i]].says # << >> \/ Silent(Effect[typed[i]])
      BY <2>2 DEF Silent
    <3>2. Silent(Effect[typed[i]]) => DoesNothing(typed[i])
      BY <2>1, EffectFacts
    <3> QED BY <3>1, <3>2 DEF HadEffect
  <2>3. CASE Effect[typed[i]].sends # << >>
    <3>1. Sends(i)
      BY <2>3 DEF Sends
    <3>2. PacketOf(i) \in DOMAIN sent
      BY <3>1 DEF IInv, Counted
    <3>3. PICK n \in DOMAIN sent : n = PacketOf(i)
      BY <3>2
    <3>4. Stream = << >>
      BY StreamFacts DEF IInv, Quiet
    <3>5. Ordered(Stream)
      BY DEF IInv, Aligned
    <3>6. Received(Stream) = Len(sent)
      BY <3>4 DEF Received
    <3>7. /\ \A j \in DOMAIN handled : handled[j].n = j
          /\ Len(handled) + Len(recvq) = Len(sent)
      BY <3>5, <3>6 DEF Ordered
    <3>8. Len(recvq) = 0
      BY DEF Quiet
    <3>9. Len(handled) = Len(sent) /\ DOMAIN handled = DOMAIN sent
      <4>1. /\ sent \in Seq(Packet)
            /\ handled \in Seq([n : 1 .. Len(sent), with : {"relayed", "answered"}])
        BY DEF IInv, Types
      <4>2. /\ Len(sent) \in Nat /\ DOMAIN sent = 1 .. Len(sent)
            /\ Len(handled) \in Nat /\ DOMAIN handled = 1 .. Len(handled)
        BY <4>1, LenProperties
      <4> QED BY <3>7, <3>8, <4>2
    <3>10. n \in DOMAIN handled /\ handled[n].n = n
      BY <3>7, <3>9
    <3>11. handled[n].with # "nothing"
      <4>1. handled \in Seq([n : 1 .. Len(sent), with : {"relayed", "answered"}])
        BY DEF IInv, Types
      <4>2. n \in 1 .. Len(handled)
        BY <3>10, <4>1, LenProperties
      <4>3. handled[n] \in [n : 1 .. Len(sent), with : {"relayed", "answered"}]
        BY <4>1, <4>2, ElementOfSeq
      <4> QED BY <4>3
    <3> QED BY <3>3, <3>10, <3>11 DEF HadEffect
  <2> QED BY <2>2, <2>3
<1> QED BY <1>1, Invariant, PTL
=============================================================================
