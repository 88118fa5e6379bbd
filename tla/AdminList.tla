------------------------------ MODULE AdminList ------------------------------
(***************************************************************************)
(* The reading of the administrators' list when a map starts: the          *)
(* tokenizer CMemScript over the text of the file, and the loop of         *)
(* CUsers::ServerActivate that takes three tokens for a player.  One       *)
(* action per token, as each looks at the clock first: the reading is      *)
(* given up when the second it started in is over.                         *)
(*                                                                         *)
(* A character is a one-character string, of the few that the tokenizer    *)
(* tells apart.  The char -1 that GetChar returns past the end is End, and *)
(* so is a byte 0xFF of the text, which is the same char.                  *)
(***************************************************************************)
EXTENDS Integers, Sequences

CONSTANT
    File          \* the texts that may be read, as FileAssumption says

VARIABLES
    file,         \* the list that is read
    buff, count,  \* CMemScript: m_Buff and m_Count
    pc,           \* what the next token is taken for
    info,         \* P_ADMIN_INFO Info, as far as it is read
    data,         \* CUsers::m_Data, as the set of its values
    late          \* the clock's second has changed since SetBuffer

vars == <<file, buff, count, pc, info, data, late>>

-----------------------------------------------------------------------------
(* Characters.                                                             *)

End     == "end"
Newline == "\n"
Quote   == "\""
Slash   == "/"
Blank   == {" ", Newline}
Digit   == {"1"}
Letter  == {"a", "b", "n"}
NumberChar == Digit \cup {"-", ".", "*"}
WordChar   == Digit \cup Letter \cup {".", "_"}
Char == {Quote, Slash, "^", End} \cup Blank \cup NumberChar \cup WordChar

-----------------------------------------------------------------------------
(* CMemScript, over the text b read up to position c.                      *)

\* Mutant: the position passes the end.
PastGetChar(b, c) ==
    IF c >= Len(b) THEN [ch |-> End, count |-> c + 1]
                   ELSE [ch |-> b[c + 1], count |-> c + 1]

GetChar(b, c) ==
    IF c >= Len(b) THEN [ch |-> End, count |-> c]
                   ELSE [ch |-> b[c + 1], count |-> c + 1]

\* Mutant: the character is not written back.
ReadOnlyUnGetChar(b, c, ch) == [buff |-> b, count |-> IF c = 0 THEN 0 ELSE c - 1]

\* The character is written back, End where the text has ended.
UnGetChar(b, c, ch) ==
    IF c = 0 THEN [buff |-> b, count |-> c]
             ELSE [buff |-> [b EXCEPT ![c] = ch], count |-> c - 1]

\* The characters from c on that are in set, and the one after them, which is
\* read too.
Scan(b, c, set) ==
    LET stop[d \in 0..Len(b)] ==
            IF d < Len(b) /\ b[d + 1] \in set THEN stop[d + 1] ELSE d
        last == GetChar(b, stop[c])
    IN  [string |-> SubSeq(b, c + 1, stop[c]), ch |-> last.ch, count |-> last.count]

\* CheckComment for the character read last
CheckComment(b, last) ==
    LET next == GetChar(b, last.count)
        line == Scan(b, next.count, Char \ {Newline, End})
    IN  IF last.ch # Slash THEN last
        ELSE IF next.ch # Slash THEN next
        ELSE [ch |-> line.ch, count |-> line.count]

\* The first character of a token, blanks and comments skipped.
FirstChar(b, c) ==
    LET first[d \in 0..Len(b)] ==
            LET last    == GetChar(b, d)
                checked == CheckComment(b, last)
            IN  IF last.ch = End THEN last
                ELSE IF last.ch \in Blank THEN first[last.count]
                ELSE IF checked.ch = Newline THEN first[checked.count]
                ELSE checked
    IN  first[c]

Token(kind, string, b, c) == [kind |-> kind, string |-> string, buff |-> b, count |-> c]

\* GetTokenNumber: the character that ends the number is not given back.
GetTokenNumber(b, c, ch) ==
    LET back == UnGetChar(b, c, ch)
        s    == Scan(back.buff, back.count, NumberChar)
    IN  Token("NUMBER", s.string, back.buff, s.count)

\* Mutant: a string runs to the end of the line.
LineGetTokenString(b, c) ==
    LET s    == Scan(b, c, Char \ {Newline, End})
        back == UnGetChar(b, s.count, s.ch)
    IN  IF s.ch = Newline THEN Token("STRING", s.string, b, s.count)
                          ELSE Token("STRING", s.string, back.buff, back.count)

GetTokenString(b, c) ==
    LET s    == Scan(b, c, Char \ {Quote, End})
        back == UnGetChar(b, s.count, s.ch)
    IN  IF s.ch = Quote THEN Token("STRING", s.string, b, s.count)
                        ELSE Token("STRING", s.string, back.buff, back.count)

GetTokenCommon(b, c, ch) ==
    LET s    == Scan(b, c, WordChar)
        back == UnGetChar(b, s.count, s.ch)
    IN  IF ch \notin Letter THEN Token("ERROR", << >>, b, c)
        ELSE Token("STRING", <<ch>> \o s.string, back.buff, back.count)

GetToken(b, c) ==
    LET first == FirstChar(b, c)
    IN  CASE first.ch = End -> Token("END", << >>, b, first.count)
          [] first.ch \in NumberChar -> GetTokenNumber(b, first.count, first.ch)
          [] first.ch = Quote -> GetTokenString(b, first.count)
          [] OTHER -> GetTokenCommon(b, first.count, first.ch)

-----------------------------------------------------------------------------
(* CUsers::ServerActivate.                                                 *)

NoInfo == [name |-> << >>, auth |-> << >>, flag |-> << >>]

\* Mutant: the last of two entries with the same auth id wins.
LastInsert(entries, entry) ==
    {e \in entries : e.auth # entry.auth} \cup {entry}

\* std::unordered_map::insert: the first entry with an auth id stays.
Insert(entries, entry) ==
    IF \E e \in entries : e.auth = entry.auth THEN entries ELSE entries \cup {entry}

\* SetBuffer, which fails for an empty file.
Init ==
    /\ file \in File
    /\ buff = file.text
    /\ count = 0
    /\ pc = IF file.text = << >> THEN "done" ELSE "name"
    /\ info = NoInfo
    /\ data = {}
    /\ late = FALSE

\* GetToken in time, for a field of the entry: it moves on in the text.
Reading(field) == pc = field /\ ~late
MoveOn(token) ==
    /\ buff' = token.buff
    /\ count' = token.count
    /\ UNCHANGED <<file, late>>

\* The name, or the end of the list
ReadName ==
    /\ Reading("name")
    /\ \E token \in {GetToken(buff, count)} :
        /\ MoveOn(token)
        /\ info' = [NoInfo EXCEPT !.name = token.string]
        /\ pc' = IF token.kind = "END" THEN "done" ELSE "auth"
    /\ UNCHANGED data

\* GetAsString, whatever kind of token it finds
ReadAuth ==
    /\ Reading("auth")
    /\ \E token \in {GetToken(buff, count)} :
        /\ MoveOn(token)
        /\ info' = [info EXCEPT !.auth = token.string]
    /\ pc' = "flag"
    /\ UNCHANGED data

\* GetAsString and the insertion
ReadFlag ==
    /\ Reading("flag")
    /\ \E token \in {GetToken(buff, count)} :
        /\ MoveOn(token)
        /\ info' = [info EXCEPT !.flag = token.string]
    /\ data' = Insert(data, info')
    /\ pc' = "name"

\* The second is over.
Tick ==
    /\ pc # "done"
    /\ ~late
    /\ late' = TRUE
    /\ UNCHANGED <<file, buff, count, pc, info, data>>

\* GetToken throws, and the loop is left.
GiveUp ==
    /\ pc # "done"
    /\ late
    /\ pc' = "done"
    /\ UNCHANGED <<file, buff, count, info, data, late>>

Next == ReadName \/ ReadAuth \/ ReadFlag \/ Tick \/ GiveUp

\* The loop goes on; the clock need not.
Spec == Init /\ [][Next]_vars /\ WF_vars(ReadName \/ ReadAuth \/ ReadFlag \/ GiveUp)

-----------------------------------------------------------------------------
(* Lists as people write them.  A text that somebody wrote as a list has    *)
(* the players in listed, and for each of them three fields, which say      *)
(* where in the text a token's string begins (after from) and ends (at to). *)
(* The file may be cut off: it has text, and lacks rest.                    *)

String == Seq(Char \ {End})
Info == [name : String, auth : String, flag : String]
Field == [quoted : BOOLEAN, from : Nat, to : Nat]

\* What the list reads in its fields
InField(o, f) == SubSeq(o, f.from + 1, f.to)

\* Anything in quotes; a number before a blank, which is read with it; or a
\* word that something ends which is not of it
QuotedField(o, f) ==
    /\ f.quoted /\ 1 <= f.from /\ f.from <= f.to /\ f.to < Len(o)
    /\ o[f.from] = Quote /\ o[f.to + 1] = Quote
    /\ \A p \in f.from + 1..f.to : o[p] \notin {Quote, End}
NumberField(o, f) ==
    /\ ~f.quoted /\ f.from < f.to /\ f.to < Len(o)
    /\ \A p \in f.from + 1..f.to : o[p] \in NumberChar
    /\ o[f.to + 1] \in Blank
WordField(o, f) ==
    /\ ~f.quoted /\ f.from < f.to /\ f.to < Len(o)
    /\ o[f.from + 1] \in Letter
    /\ \A p \in f.from + 1..f.to : o[p] \in WordChar
    /\ o[f.to + 1] \notin WordChar \cup {End}
Readable(o, f) == QuotedField(o, f) \/ NumberField(o, f) \/ WordField(o, f)

\* The positions before a field and after it
Before(f) == IF f.quoted THEN f.from - 1 ELSE f.from
Beyond(o, f) == IF WordField(o, f) THEN f.to ELSE f.to + 1

\* A comment from its first slash, at c, to its newline, at d
Comment(o, c, d) ==
    /\ c + 1 < d /\ o[c] = Slash /\ o[c + 1] = Slash /\ o[d] = Newline
    /\ \A p \in c + 2..d - 1 : o[p] \notin {Newline, End}

\* There are blanks and comments only between the positions x and y.
Gap(o, x, y) ==
    /\ x <= y
    /\ \A p \in x + 1..y :
          o[p] \in Blank \/ \E c \in x + 1..p, d \in p..y : Comment(o, c, d)

Original(f) == f.text \o f.rest

\* The position after the first i fields of a list
Reached(f, i) == IF i = 0 THEN 0 ELSE Beyond(Original(f), f.fields[i])

\* The fields hold the players, and between them there are gaps.
LaidOut(f) ==
    LET o == Original(f)
    IN  /\ Len(f.fields) = 3 * Len(f.listed)
        /\ \A i \in DOMAIN f.fields :
              /\ Readable(o, f.fields[i])
              /\ Gap(o, Reached(f, i - 1), Before(f.fields[i]))
        /\ Gap(o, Reached(f, Len(f.fields)), Len(o))
        /\ \A k \in DOMAIN f.listed :
              f.listed[k] = [name |-> InField(o, f.fields[3 * k - 2]),
                             auth |-> InField(o, f.fields[3 * k - 1]),
                             flag |-> InField(o, f.fields[3 * k])]

\* Any text may be read; a written one is laid out as the tokenizer wants.
ASSUME FileAssumption ==
    \A f \in File :
        /\ f.text \in Seq(Char) /\ f.rest \in Seq(Char)
        /\ f.listed \in Seq(Info) /\ f.fields \in Seq(Field)
        /\ f.written => LaidOut(f)

\* Every field is in the text, if perhaps not all that comes after the last.
Complete(f) ==
    /\ f.written
    /\ \A i \in DOMAIN f.fields :
          f.fields[i].to + (IF f.fields[i].quoted THEN 1 ELSE 0) <= Len(f.text)

-----------------------------------------------------------------------------
(* Properties.                                                             *)

\* Every variable has its type; the position stays within the text, whose
\* length does not change, and no string holds the char that ends the text.
TypeOK ==
    /\ buff \in Seq(Char) /\ Len(buff) = Len(file.text)
    /\ count \in 0..Len(buff)
    /\ pc \in {"name", "auth", "flag", "done"}
    /\ info \in Info
    /\ data \subseteq Info
    /\ late \in BOOLEAN

\* What the first k players of a list make of m_Data
Entries(listed, k) ==
    {listed[i] : i \in {j \in 1..k : \A h \in 1..j - 1 : listed[h].auth # listed[j].auth}}

\* A list written as the tokenizer wants it is read as it is written, however
\* it is laid out: every player in order, the first of two with the same auth
\* id.  The newline at its end may be missing.  If the second changes meanwhile,
\* some players are read, and those are the first ones.
ListIsRead ==
    Complete(file) =>
        \E k \in 0..Len(file.listed) :
            /\ data = Entries(file.listed, k)
            /\ pc = "done" /\ ~late => k = Len(file.listed)

\* A list that is cut off, by a copy in progress or a full disk, gives nobody a
\* flag that the list does not: the unfinished entry has the first of its flags
\* at most, and an unfinished auth id, which may be another player's, has none.
NobodyGainsFlags ==
    \A e \in data :
        file.written /\ e.flag # << >> =>
            \E l \in Entries(file.listed, Len(file.listed)) :
                l.auth = e.auth /\ e.flag = SubSeq(l.flag, 1, Len(e.flag))

\* How much the tokenizer has still before it: the characters, and whether the
\* next of them is one that it can take.
Ahead == 2 * (Len(buff) - count) + (IF GetChar(buff, count).ch = End THEN 0 ELSE 1)

\* Every token leaves less to read, unless nothing is left: a string or a word
\* that the end of the text cuts off, although the position goes back then,
\* turns the last character into the end.
ReadingAdvances ==
    [][ReadName \/ ReadAuth \/ ReadFlag => Ahead' < Ahead \/ (Ahead = 0 /\ Ahead' = 0)]_vars

\* The reading of any text ends, the clock standing still: a word or a string
\* that the end of the text cuts off is not read for ever.
ReadingEnds == <>(pc = "done")

=============================================================================
