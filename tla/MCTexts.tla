------------------------------- MODULE MCTexts -------------------------------
(***************************************************************************)
(* Values for TLC: every short text, and lists of players laid out in      *)
(* every way the tokenizer allows, whole and cut off at every character.   *)
(***************************************************************************)
EXTENDS Texts

CONSTANT MaxText   \* bound: characters of an arbitrary text

Alphabet == {Quote, Slash, Newline, "a", "1", "^", End}
Short == UNION {[1..n -> Alphabet] : n \in 0..MaxText}
Arbitrary == {[text |-> t, rest |-> << >>, listed |-> << >>, fields |-> << >>,
               written |-> FALSE] : t \in Short}

\* A player, and the tokens he may be written with
Player(auth, flag) == [name |-> <<"a">>, auth |-> auth, flag |-> flag]
Players == {Player(<<"a", "b">>, <<"n", "b">>), Player(<<"a">>, <<"b">>),
            Player(<<"a">>, <<"n", "b">>), Player(<<"1">>, <<"b">>)}
Space    == <<" ">>
Remark   == <<" ", Slash, Slash, Quote, Newline>>

\* Which of the three tokens are quoted, and what is between two of them;
\* quoted strings need nothing.
Layouts == {<<<<FALSE, FALSE, FALSE>>, Space>>, <<<<TRUE, TRUE, TRUE>>, << >>>>,
            <<<<FALSE, TRUE, TRUE>>, Remark>>, <<<<TRUE, FALSE, FALSE>>, <<Newline>>>>}

\* The ends of a line: its newline, or an empty comment.
Ends == {<<Newline>>, <<Slash, Slash, Newline>>}

\* A list with a token and a gap more
Put(f, quoted, string, gap) ==
    LET quote == IF quoted THEN <<Quote>> ELSE << >>
        from  == Len(f.text) + Len(quote)
    IN  [f EXCEPT !.text = f.text \o quote \o string \o quote \o gap,
                  !.fields = Append(f.fields,
                      [quoted |-> quoted, from |-> from, to |-> from + Len(string)])]

\* A list with a player more
Line(f, p, layout, end) ==
    [Put(Put(Put(f, layout[1][1], p.name, layout[2]),
             layout[1][2], p.auth, layout[2]),
         layout[1][3], p.flag, end) EXCEPT !.listed = Append(f.listed, p)]

\* Lists that begin with nothing, a blank or a comment
Empty == {[text |-> t, rest |-> << >>, listed |-> << >>, fields |-> << >>, written |-> TRUE] :
             t \in {<< >>, Space, Remark}}
Longer(lists, layout, end) == {Line(f, p, layout, end) : f \in lists, p \in Players}

Start == {f \in Empty : f.text = << >>}
One == UNION {Longer(Start, layout, end) : layout \in Layouts, end \in Ends}
Two == UNION {Longer(One, layout, end) : layout \in Layouts, end \in Ends}
Whole == Empty \cup One \cup Two

\* Both lines of a list that is cut are laid out the same.
Alike == UNION {LET ones == Longer(Start, layout, end) IN ones \cup Longer(ones, layout, end) :
                    layout \in Layouts, end \in Ends}
Cut ==
    UNION {{[f EXCEPT !.text = SubSeq(f.text, 1, n),
                      !.rest = SubSeq(f.text, n + 1, Len(f.text))] :
                n \in 1..Len(f.text) - 1} : f \in Alike \cup Empty}

Files == Arbitrary \cup Whole \cup Cut

\* Texts of menus: every short one, up to three full messages of two characters,
\* and long ones around the end of the buffer, which six messages fill.
MenuTexts ==
    UNION {[1..n -> {"^", "\\", "w", "r", "R"}] : n \in 0..6}
        \cup UNION {[1..n -> {"w"}] : n \in 9..14}

\* Nothing, or some characters, behind the buffer
Stack == {<< >>, <<"r">>, <<"r", "R", "r">>}

=============================================================================
