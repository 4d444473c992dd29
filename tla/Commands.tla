------------------------------ MODULE Commands ------------------------------
(***************************************************************************)
(* What the client makes of a line the user has typed: how it shows the    *)
(* line (ClientCore::HandleSend), which command of its tables the line is  *)
(* (ChatHandler), what that command shows and which packet it sends.       *)
(*                                                                         *)
(* A word is a sequence of parts, cut where the names of the tables differ *)
(* ("channel" and "commands" share <<"c">>), so that an abbreviation is a  *)
(* prefix.  A line has no, one or two dots, then words; its caps says that *)
(* they are typed in capitals and its size how long it is.                 *)
(***************************************************************************)
EXTENDS Integers, Sequences, SequencesExt

CONSTANT MaxLine        \* the shortest line that is too long, 65000 bytes
ASSUME MaxLineAssumption == MaxLine \in Nat

-----------------------------------------------------------------------------
(* The tables.  run names the handler, "" when there is none.               *)
Command(name, run, help, sub) == [name |-> name, run |-> run, help |-> help, sub |-> sub]

ChannelCommands ==
    << Command(<<"j", "oin">>,   "join",   "join help",   << >>),
       Command(<<"c", "reate">>, "create", "create help", << >>),
       Command(<<"l", "eave">>,  "leave",  "list help",   << >>),
       Command(<<"i", "nfo">>,   "info",   "",            << >>),
       Command(<<"l", "ist">>,   "list",   "",            << >>),
       Command(<<"k", "ick">>,   "kick",   "",            << >>) >>

(* utilityCommandTable has no entry: only run tells such a child table from none. *)
CommandTable ==
    << Command(<<"c", "hannel">>,  "",         "",     ChannelCommands),
       Command(<<"u", "tility">>,  "",         "",     << >>),
       Command(<<"p", "ing">>,     "ping",     "",     << >>),
       Command(<<"c", "ommands">>, "commands", "",     << >>),
       Command(<<"h", "elp">>,     "help",     "help", << >>),
       Command(<<"w", "hisp">>,    "whisp",    "",     << >>) >>

HasSub(command) == command.run = ""

(* The first index of a table with a property, 0 when there is none.        *)
First(table, Is(_)) == SelectInSeq(table, Is)

HasStringAbbr(name, word) == word # << >> /\ IsPrefix(word, name)

(* The entry a word stands for: the first it abbreviates, passing over those *)
(* that are longer than the word when the word is another entry in full.    *)
ChosenEntry(table, word, caps) ==
    LET InFull == ~caps /\ \E i \in DOMAIN table : table[i].name = word
    IN First(table, LAMBDA c : /\ HasStringAbbr(c.name, word)
                               /\ ~(Len(c.name) > Len(word) /\ InFull))

-----------------------------------------------------------------------------
(* What a command does: whether it succeeded, the messages it shows and the *)
(* packets it sends.                                                        *)
Does(ok, says, sends) == [ok |-> ok, says |-> says, sends |-> sends]
Fails == Does(FALSE, << >>, << >>)
Then(a, b) == Does(b.ok, a.says \o b.says, a.sends \o b.sends)

Rest(words) == IF words = << >> THEN << >> ELSE Tail(words)
Word(words) == IF words = << >> THEN << >> ELSE Head(words)

(* The names of a table's entries, all or those that a word abbreviates.    *)
ShowHelpForSubCommands(table, isTop, word) ==
    IF \E i \in DOMAIN table : word = << >> \/ HasStringAbbr(table[i].name, word)
    THEN Does(TRUE, IF isTop THEN << "available", "names" >> ELSE << "subcommands" >>, << >>)
    ELSE Fails

HelpOf(command) == IF command.help = "" THEN << >> ELSE << command.help >>

(* ShowHelpForCommand and ExecuteCommandInTable call themselves for a child *)
(* table, which has no child tables: below is what that call does.          *)
OrElse(a, b) == IF a.ok THEN a ELSE b
ShowHelp(command, inSub, names) ==
    OrElse(inSub, Then(inSub, OrElse(Then(Does(TRUE, HelpOf(command), << >>), names),
                                     Does(command.help # "", HelpOf(command), << >>))))

HelpAt(entry, table, isTop, words, below) ==
    IF entry = 0 THEN ShowHelpForSubCommands(table, isTop, Word(words))
    ELSE ShowHelp(table[entry],
                  IF HasSub(table[entry]) /\ Rest(words) # << >> THEN below ELSE Fails,
                  IF HasSub(table[entry])
                  THEN ShowHelpForSubCommands(table[entry].sub, FALSE, Word(Rest(words))) ELSE Fails)

(* Asked for is what the first word abbreviates.  Where a child entry was   *)
(* not found the code looks up all that is left of the line: that           *)
(* abbreviates no name either.                                              *)
HelpEntry(table, words) == First(table, LAMBDA c : HasStringAbbr(c.name, Word(words)))
HelpForSub(table, words) == HelpAt(HelpEntry(table, words), table, FALSE, words, Fails)
ShowHelpForCommand(words) ==
    LET entry == HelpEntry(CommandTable, words)
    IN HelpAt(entry, CommandTable, TRUE, words, HelpForSub(CommandTable[entry].sub, Rest(words)))

-----------------------------------------------------------------------------
(* The handlers.  A packet is the opcode and what it carries.               *)
Pack(op, arg) == [op |-> op, arg |-> arg]

NamesAChannel(words) == words # << >>
Whispers(words) == Len(words) >= 2

Handle(run, words) ==
    CASE run = "join"   -> IF NamesAChannel(words) THEN Does(TRUE, << >>, << Pack("join", words[1]) >>) ELSE Fails
      [] run = "create" -> IF NamesAChannel(words) THEN Does(TRUE, << >>, << Pack("create", words[1]) >>) ELSE Fails
      [] run = "leave"  -> Does(TRUE, << >>, << Pack("leave", << >>) >>)
      [] run = "list"   -> Does(TRUE, << >>, << Pack("list", << >>) >>)
      [] run = "ping"   -> Does(TRUE, << >>, << Pack("ping", << >>) >>)
      [] run = "whisp"  -> IF Whispers(words) THEN Does(TRUE, << >>, << Pack("whisp", words[1]) >>) ELSE Fails
      [] run = "commands" -> Does(TRUE, ShowHelpForCommand(<< >>).says, << >>)
      [] run = "help"   ->
             IF words = << >>
             THEN Does(TRUE, ShowHelpForCommand(<< <<"h", "elp">> >>).says
                                 \o ShowHelpForCommand(<< >>).says, << >>)
             ELSE OrElse(ShowHelpForCommand(words), Does(TRUE, << "no help" >>, << >>))
      [] OTHER          -> Does(TRUE, << >>, << >>)      \* info and kick

(* What is shown when the handler refuses the words, and when no entry of a *)
(* child table is meant.                                                    *)
Refused(command) == Does(TRUE, IF command.help = "" THEN << "syntax" >> ELSE << command.help >>, << >>)
NoSub(command, words) ==
    Then(Does(TRUE, IF words = << >> THEN << "syntax" >> ELSE << "no subcommand" >>, << >>),
         Does(TRUE, HelpForSub(command.sub, words).says, << >>))

ExecuteAt(entry, table, words, below) ==
    IF entry = 0 THEN Fails
    ELSE IF HasSub(table[entry])
    THEN OrElse(below, NoSub(table[entry], words))
    ELSE OrElse(Handle(table[entry].run, words), Refused(table[entry]))

ExecuteSub(table, words, caps) ==
    ExecuteAt(ChosenEntry(table, Word(words), caps), table, Rest(words), Fails)
ExecuteCommandInTable(words, caps) ==
    LET entry == ChosenEntry(CommandTable, Word(words), caps)
    IN ExecuteAt(entry, CommandTable, Rest(words),
                 ExecuteSub(CommandTable[entry].sub, Rest(words), caps))

(* A line without a dot, a lone dot and two dots are no command.            *)
IsCommand(line) == line.dots = 1 /\ line.words # << >>

ParseCommands(line) ==
    OrElse(ExecuteCommandInTable(line.words, line.caps), Does(TRUE, << "no command" >>, << >>))

-----------------------------------------------------------------------------
TooLong(line) == line.size >= MaxLine

(* The line as it is shown at once: said to all ('M'), whispered ('W'), or  *)
(* neither ('e').                                                           *)
Starts(line, with) == line.dots = 1 /\ ~line.caps /\ line.words # << >> /\ IsPrefix(with, line.words[1])
EchoType_Short(line) ==
    IF TooLong(line) THEN "e"
    ELSE IF line.dots = 0 \/ Starts(line, <<"send">>) THEN "M"
    ELSE IF Starts(line, <<"w">>) THEN "W"
    ELSE "e"
EchoType(line) ==
    IF TooLong(line) THEN "e"
    ELSE IF line.dots = 0 \/ Starts(line, <<"send">>) THEN "M"
    ELSE IF Starts(line, <<"w", "hisp">>) THEN "W"
    ELSE "e"

(* What Session::HandleSend does with a line that is not too long.          *)
HandleSend(line) ==
    IF IsCommand(line) THEN ParseCommands(line)
    ELSE Does(TRUE, << >>, << Pack("message", << >>) >>)
=============================================================================
