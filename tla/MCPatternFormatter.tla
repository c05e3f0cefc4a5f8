------------------------- MODULE MCPatternFormatter -------------------------
(* Patterns of PatternFormatter for TLC: every flag with every kind of     *)
(* padding, alone, after a character and before another element.           *)
EXTENDS PatternFormatter

MCLetters == {"q"}

Char(c) == [literal |-> TRUE, char |-> c, mark |-> "", digits |-> <<>>, truncate |-> FALSE]
Flag(c) == [literal |-> FALSE, char |-> c, mark |-> "", digits |-> <<>>, truncate |-> FALSE]

Padded ==
    [literal : {FALSE}, char : {"v", "D", "z", "!"}, mark : {"", "-", "="},
     digits : {<<"0">>, <<"1">>, <<"5">>, <<"7", "0">>}, truncate : BOOLEAN]

\* A letter, a flag, a digit, a mark and the mark of truncation that stand for
\* themselves.
Standing == {"q", "v", "5", "-", "!"}
All == Padded \cup {Flag(c) : c \in Flags} \cup {Char(c) : c \in Standing}

MCPatterns ==
    {<<e>> : e \in All} \cup {<<Char("q"), e>> : e \in All}
        \cup {<<e, f>> : e \in All, f \in {Char(c) : c \in Standing} \cup {Flag("%")}}
        \cup {<<Flag("v"), e, Char("q")>> : e \in All}
        \cup {<<Flag("+"), Char("5"), Char("!"), Char("v")>>}
MCLater == {<<Flag(c)>> : c \in {"v", "S", "z", "+"}} \cup {<<Flag("z"), Flag("S")>>}
MCMessages ==
    [time : 4..11, payload : {3}, func : {2}] \cup [time : {4}, payload : {0, 3}, func : {0}]
=============================================================================
