--------------------------------- MODULE Text ---------------------------------
(***************************************************************************)
(* The codes that messages and menus are written with, and the messages    *)
(* that a menu is sent in.                                                 *)
(***************************************************************************)
EXTENDS Integers, SequencesExt

\* The codes of ParseLinesAndColors, and the bytes they stand for.
Code == [c \in {"1", "2", "3", "4", "n", "t"} |->
            CASE c = "1" -> "code 1" [] c = "2" -> "code 2" [] c = "3" -> "code 3"
              [] c = "4" -> "code 4" [] c = "n" -> "code n" [] c = "t" -> "code t"]

\* Mutant: the offset of the codes replaced so far is forgotten.
WideParseStep(s) ==
    LET len     == Len(s.buffer)
        escaped == s.buffer[s.i] = "^" /\ s.i # len
        i       == IF escaped THEN s.i + 1 ELSE s.i
        c       == s.buffer[i]
        code    == escaped /\ c \in DOMAIN Code
        offs    == IF code THEN 1 ELSE s.offs
    IN  [buffer |-> [s.buffer EXCEPT ![i - offs] = IF code THEN Code[c] ELSE c],
         i |-> i + 1, offs |-> offs]

\* One turn of the loop of ParseLinesAndColors, which writes the buffer it
\* reads: the codes replaced so far are offs.  The caret before a character
\* that is no code is not written, but left where it is in the buffer.
ParseStep(s) ==
    LET len     == Len(s.buffer)
        escaped == s.buffer[s.i] = "^" /\ s.i # len
        i       == IF escaped THEN s.i + 1 ELSE s.i
        c       == s.buffer[i]
        code    == escaped /\ c \in DOMAIN Code
        offs    == IF code THEN s.offs + 1 ELSE s.offs
    IN  [buffer |-> [s.buffer EXCEPT ![i - offs] = IF code THEN Code[c] ELSE c],
         i |-> i + 1, offs |-> offs]

ParseLinesAndColors(text) ==
    LET turn[n \in 0..Len(text)] ==
            IF n = 0 THEN [buffer |-> text, i |-> 1, offs |-> 0]
            ELSE LET s == turn[n - 1]
                 IN  IF s.i > Len(text) THEN s ELSE ParseStep(s)
        end == turn[Len(text)]
    IN  SubSeq(end.buffer, 1, Len(text) - end.offs)

\* The same codes replaced without a buffer: the text from p on, a caret
\* before a character that is no code standing for itself.
Replaced(text) ==
    LET from[p \in 1..Len(text) + 1] ==
            IF p > Len(text) THEN << >>
            ELSE IF text[p] # "^" \/ p = Len(text) THEN <<text[p]>> \o from[p + 1]
            ELSE IF text[p + 1] \in DOMAIN Code
            THEN <<Code[text[p + 1]]>> \o from[p + 2]
            ELSE <<"^", text[p + 1]>> \o from[p + 2]
    IN  from[1]

-----------------------------------------------------------------------------

\* Mutant: the search goes on one character too late.
LateAfter(p, found) == p + Len(found) + 1

\* Where ReplaceAll searches on after the replacement at p
After(p, found) == p + Len(found)

\* ReplaceAll: what is replaced is not searched again.
ReplacedAll(string, found, by) ==
    LET at(p) == SubSeq(string, p, Min({p + Len(found) - 1, Len(string)}))
        from[p \in 1..Len(string) + Len(found) + 1] ==
            IF p > Len(string) THEN << >>
            ELSE IF at(p) # found THEN <<string[p]>> \o from[p + 1]
            ELSE by \o from[After(p, found)]
    IN  from[1]

\* The letters of the colours of a menu
Colour == {"w", "y", "r", "R"}

\* What CMenu::Create and CMenu::AddItem make of a text, one colour after the
\* other
Coloured(text, c) == ReplacedAll(text, <<"^", c>>, <<"\\", c>>)
MenuColours(text) == Coloured(Coloured(Coloured(Coloured(text, "w"), "y"), "r"), "R")

\* Mutant: a full chunk is taken for one that others follow.
FullMore(text, p, chunk, size) == Len(chunk) = size

\* Whether more follows the chunk at p: the text does not end with it.
More(text, p, chunk, size) == p + Len(chunk) <= Len(text)

\* BufferMenu, in messages
BufferSize == 6

\* What the loop of CMenu::ShowMenu reads up to the first zero: text is copied
\* into the zeroed BufferMenu without its terminator and without a check, so a
\* text that leaves no zero there goes on with what is behind it on the stack.
Copied(text, size, behind) ==
    IF Len(text) < BufferSize * size THEN text ELSE text \o behind

\* The loop of CMenu::ShowMenu: the messages, of size characters, for the
\* text it reads
Chunks(text, size) ==
    LET from[p \in 1..Len(text) + 1] ==
            IF p > Len(text) THEN << >>
            ELSE LET chunk == SubSeq(text, p, Min({p + size - 1, Len(text)}))
                 IN  <<[string |-> chunk, more |-> More(text, p, chunk, size)]>>
                     \o from[p + Len(chunk)]
    IN  from[1]

\* The messages in which CMenu::ShowMenu sends a text
ShowMenu(text, size, behind) == Chunks(Copied(text, size, behind), size)

=============================================================================
