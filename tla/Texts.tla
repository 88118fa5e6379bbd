--------------------------------- MODULE Texts ---------------------------------
(***************************************************************************)
(* The texts that the mod reads and writes: every text that is read as a   *)
(* list of administrators is also taken for a message to the players.  A   *)
(* menu is sent with no list to read.                                      *)
(***************************************************************************)
EXTENDS AdminList, Text

CONSTANTS
    MenuText,   \* texts of menus
    ChunkSize,  \* characters of a message ShowMenu (MAX_BUFFER_MENU)
    Behind      \* what may stand behind BufferMenu, up to its first zero

ASSUME TextsAssumption ==
    /\ \A text \in MenuText \cup Behind : text \in Seq(STRING)
    /\ ChunkSize \in Nat \ {0}

VARIABLE menu   \* the text of the menu that is sent

textsVars == <<vars, menu>>

\* A list is read or a menu is sent.
TextsInit ==
    /\ Init
    /\ \/ menu = << >>
       \/ file.text = << >> /\ menu \in MenuText

TextsNext == Next /\ UNCHANGED menu

TextsSpec ==
    TextsInit /\ [][TextsNext]_textsVars
        /\ WF_textsVars((ReadName \/ ReadAuth \/ ReadFlag \/ GiveUp) /\ UNCHANGED menu)

-----------------------------------------------------------------------------
(* Properties.                                                             *)

\* The codes of a message are replaced and nothing else is moved or lost, in
\* place and for any text, except that a caret which starts no code may show a
\* character of the message that stood there before, and then only after a code.
MessageIsKept ==
    LET written == ParseLinesAndColors(file.text)
        meant   == Replaced(file.text)
        codes   == {p \in DOMAIN meant : meant[p] \notin Char}
    IN  /\ Len(written) = Len(meant)
        /\ \A p \in DOMAIN meant : written[p] # meant[p] =>
              meant[p] = "^" /\ \E q \in codes : q < p

\* Every colour code of a menu is replaced, whatever stands before and after it,
\* and nothing else is: the replacements, one colour after the other, do not
\* hide codes from one another nor make new ones.
ColoursAreReplaced ==
    MenuColours(menu) =
        [p \in DOMAIN menu |->
            IF menu[p] = "^" /\ p < Len(menu) /\ menu[p + 1] \in Colour
            THEN "\\" ELSE menu[p]]

\* A menu that leaves room for its terminator in the buffer of six messages
\* arrives whole, whatever stands behind the buffer: a client that appends the
\* messages to one another until one says that no more follow has the whole
\* text then, and not before.
MenuTextArrives ==
    Len(menu) < BufferSize * ChunkSize =>
        \A behind \in Behind :
            LET messages == ShowMenu(menu, ChunkSize, behind)
            IN  /\ FlattenSeq([m \in DOMAIN messages |-> messages[m].string]) = menu
                /\ \A m \in DOMAIN messages : messages[m].more <=> m < Len(messages)

=============================================================================
