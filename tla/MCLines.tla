------------------------------ MODULE MCLines ------------------------------
(* Short lines of every form, and a message and a whisper of every size    *)
(* around the limits.                                                      *)
EXTENDS Lines
Line(dots, words, caps, size) == [dots |-> dots, words |-> words, caps |-> caps, size |-> size]

Channel == {<<"c">>, <<"c", "hannel">>}
TopWords == {<< >>, <<"c">>, <<"c", "hannel">>, <<"c", "hannel", "x">>, <<"c", "ommands">>, <<"u">>,
             <<"p", "ing">>, <<"h">>, <<"w">>, <<"w", "hisp">>, <<"w", "hisp", "x">>, <<"send">>}
SubWords == {<<"j">>, <<"c", "reate">>, <<"l">>, <<"l", "ist">>, <<"i", "nfo">>, <<"k">>, <<"x">>}
Name == <<"bob">>

Commanded ==
    {<< w >> : w \in TopWords}
    \cup {<< <<"c">>, w >> : w \in SubWords}
    \cup {<< <<"c", "hannel">>, <<"j", "oin">>, Name >>, << <<"c">>, <<"c">>, Name >>}
    \cup {<< <<"h", "elp">> >> \o a : a \in {<< <<"c">> >>, << <<"c">>, <<"l">> >>, << <<"c">>, <<"x">> >>,
                                             << <<"c">>, <<"i">> >>, << <<"p">> >>, << Name >>}}
    \cup {<< w, Name >> : w \in {<<"w", "hisp">>, <<"u">>, <<"send">>}}
    \cup {<< w, Name, Name >> : w \in {<<"w">>, <<"w", "hisp">>, <<"w", "hisp", "x">>}}

Lines == {Line(1, words, FALSE, 1) : words \in Commanded}
         \cup {Line(1, << w >> \o r, TRUE, 1) : w \in {<<"w", "hisp">>}, r \in {<< >>, << Name, Name >>}}
         \cup {Line(d, w, FALSE, 1) : d \in {0, 2}, w \in {<< <<"w", "hisp">>, Name, Name >>}}
         \cup {Line(1, << >>, FALSE, 1)}
         \cup {Line(0, << Name >>, FALSE, size) : size \in {6, 7, 12, 13}}
         \cup {Line(1, << <<"w", "hisp">>, Name, Name >>, FALSE, size) : size \in {6, 7}}

Said == Line(0, << Name >>, FALSE, 6)
Oversize == Line(0, << Name >>, FALSE, 12)
Create == Line(1, << <<"c">>, <<"c">>, Name >>, FALSE, 1)

Shorts == {Said, Oversize, Create}
Leave == Line(1, << <<"c">>, <<"l">> >>, FALSE, 1)
Firsts == {Said, Create, Leave}
=============================================================================
