-------------------------------- MODULE Menu --------------------------------
(***************************************************************************)
(* The paged menu CMenu of one player slot, the player's client, and the   *)
(* messages between them.  The server shows a menu, the client sends back  *)
(* the key pressed ("menuselect"), and both may have moved on meanwhile:   *)
(* another menu is shown, the game shows one of its own, the player is     *)
(* replaced.  g_SurfModMenu has one such object per slot, and each is used *)
(* for its own slot only.                                                  *)
(*                                                                         *)
(* An item is its position in m_Data.  Of the text only what a line stands *)
(* for is kept.                                                            *)
(***************************************************************************)
EXTENDS Integers, Sequences

CONSTANTS
    PageOption,   \* MENU_PAGE_OPTION (7 in the code)
    GameKeys,     \* the keys of the game's own menus
    MaxItems,     \* bound: items of a menu
    MaxMenus,     \* bound: menus created
    MaxWire       \* bound: messages in flight, either way

\* Keys 9 and 10 (the key 0) turn pages.
ASSUME PageAssumption == PageOption \in 1..8
ASSUME KeyAssumption == GameKeys \subseteq 1..10
ASSUME BoundAssumption == MaxItems \in Nat /\ MaxMenus \in Nat /\ MaxWire \in Nat

VARIABLES
    \* CMenu
    title,      \* how many menus were created: the last one's identity
    size,       \* m_Data.size()
    bExit,      \* m_bExit
    page,       \* m_iPage; -1 when the menu is closed
    \* CBasePlayer
    gameMenu,   \* m_iMenu # Menu_OFF
    \* the client and the network
    screen,     \* what the client displays
    down, up,   \* messages to and from the client
    \* history
    answer      \* the item chosen from each menu, 0 for none

menuVars == <<title, size, bExit, page>>
wireVars == <<screen, down, up>>
vars == <<menuVars, gameMenu, wireVars, answer>>

-----------------------------------------------------------------------------
(* Screens.                                                                *)

Blank      == [menu |-> 0, page |-> -1, line |-> << >>, keys |-> {}]
GameScreen == [menu |-> -1, page |-> -1, line |-> << >>, keys |-> GameKeys]

Lower(a, b) == IF a < b THEN a ELSE b

\* What Display draws: the items from Start to End, and the keys in Slots.
View(m, n, p) ==
    LET start == p * PageOption
        count == Lower(start + PageOption, n) - start
    IN  [menu |-> m,
         page |-> p,
         line |-> [k \in 1..count |-> start + k],
         keys |-> (1..count) \cup {10}
                     \cup (IF start + count # n THEN {9} ELSE {})]

-----------------------------------------------------------------------------
(* CMenu.                                                                  *)

Init ==
    /\ title = 0 /\ size = 0 /\ bExit = FALSE /\ page = 0
    /\ gameMenu = FALSE
    /\ screen = Blank /\ down = << >> /\ up = << >>
    /\ answer = [m \in 1..MaxMenus |-> 0]

\* The state after Create, n times AddItem and Show, in one handler; before
\* are the messages sent by the handler so far.
Opened(n, e, before) ==
    /\ title < MaxMenus
    /\ title' = title + 1
    /\ size' = n
    /\ bExit' = e
    /\ \/ /\ n > 0
          /\ page' = 0
          /\ gameMenu' = FALSE
          /\ down' = Append(before, View(title + 1, n, 0))
       \/ /\ n = 0
          /\ page' = -1
          /\ down' = before
          /\ UNCHANGED gameMenu

\* Mutant: the end of the list is one page late.
LateTurned(p) == IF p > 0 /\ p * PageOption > size THEN 0 ELSE p

\* The page Display shows when asked for page p
Turned(p) == IF p > 0 /\ p * PageOption >= size THEN 0 ELSE p

\* Mutant: there is always a page before.
BlindDisplay(p) ==
    /\ page' = Turned(p)
    /\ down' = Append(down, View(title, size, Turned(p)))

\* Mutant: m_iPage keeps the page asked for.
KeepDisplay(p) ==
    \/ /\ p < 0 /\ bExit
       /\ page' = -1
       /\ UNCHANGED down
    \/ /\ p < 0 /\ ~bExit
       /\ page' = 0
       /\ down' = Append(down, View(title, size, 0))
    \/ /\ p >= 0
       /\ page' = p
       /\ down' = Append(down, View(title, size, Turned(p)))

\* Display(Page): below the first page the menu is left if that is allowed;
\* the client is told nothing, its menu went away with the key.
Display(p) ==
    \/ /\ p < 0 /\ bExit
       /\ page' = -1
       /\ UNCHANGED down
    \/ /\ p < 0 /\ ~bExit
       /\ page' = 0
       /\ down' = Append(down, View(title, size, 0))
    \/ /\ p >= 0
       /\ page' = Turned(p)
       /\ down' = Append(down, View(title, size, Turned(p)))

\* Mutants: the page is forgotten, the menu stays open.
FirstPageItem(key) == key
OpenHide == UNCHANGED page /\ down' = Append(down, Blank)

\* ItemIndex of Handle, counted from 1
Item(key) == key + page * PageOption

\* Hide
Hide ==
    /\ page' = -1
    /\ down' = Append(down, Blank)

\* Handle for key 9 or 10
TurnPage(key) ==
    /\ \/ key = 9 /\ Display(page + 1)
       \/ key = 10 /\ Display(page - 1)
    /\ UNCHANGED <<title, size, bExit, gameMenu, answer>>

\* Handle for an item: the menu is closed, then its function is called, which
\* may open another.
Choose(key) ==
    /\ key \notin {9, 10}
    /\ Item(key) <= size
    /\ answer' = [answer EXCEPT ![title] = Item(key)]
    /\ \/ Hide /\ UNCHANGED <<title, size, bExit, gameMenu>>
       \/ \E n \in 0..MaxItems, e \in BOOLEAN : Opened(n, e, Append(down, Blank))

\* Handle for a key without item
NoItem(key) ==
    /\ key \notin {9, 10}
    /\ Item(key) > size
    /\ UNCHANGED <<menuVars, gameMenu, down, answer>>

-----------------------------------------------------------------------------
(* What reaches the server.                                                *)

\* The command menuselect with the first key under way
ClientCommand ==
    /\ up # << >>
    /\ up' = Tail(up)
    /\ LET key == Head(up).key
       IN  \/ /\ gameMenu           \* the game takes it
              /\ gameMenu' = FALSE
              /\ UNCHANGED <<menuVars, down, answer>>
           \/ /\ ~gameMenu /\ page = -1
              /\ UNCHANGED <<menuVars, gameMenu, down, answer>>
           \/ /\ ~gameMenu /\ page # -1
              /\ TurnPage(key) \/ Choose(key) \/ NoItem(key)
    /\ UNCHANGED screen

\* A handler of another event opens a menu for the player.
Open(n, e) ==
    /\ Len(down) < MaxWire
    /\ Opened(n, e, down)
    /\ UNCHANGED <<screen, up, answer>>

\* The game shows a menu of its own.
GameShows ==
    /\ Len(down) < MaxWire
    /\ gameMenu' = TRUE
    /\ down' = Append(down, GameScreen)
    /\ UNCHANGED <<menuVars, screen, up, answer>>

\* Another player takes the slot; the object of the slot is not cleared.
Reconnect ==
    /\ gameMenu' = FALSE
    /\ screen' = Blank
    /\ down' = << >>
    /\ up' = << >>
    /\ UNCHANGED <<menuVars, answer>>

-----------------------------------------------------------------------------
(* The client.                                                             *)

\* The menu on the screen goes away with the key.
Press(key) ==
    /\ Len(up) < MaxWire
    /\ key \in screen.keys
    /\ up' = Append(up, [key |-> key, seen |-> screen])
    /\ screen' = Blank
    /\ UNCHANGED <<menuVars, gameMenu, down, answer>>

Receive ==
    /\ down # << >>
    /\ screen' = Head(down)
    /\ down' = Tail(down)
    /\ UNCHANGED <<menuVars, gameMenu, up, answer>>

Next ==
    \/ ClientCommand
    \/ \E n \in 1..MaxItems, e \in BOOLEAN : Open(n, e)
    \/ GameShows
    \/ Reconnect
    \/ \E key \in 1..10 : Press(key)
    \/ Receive

Spec == Init /\ [][Next]_vars

-----------------------------------------------------------------------------
(* Properties.                                                             *)

Screen == [menu : -1..MaxMenus, page : Int, line : Seq(Nat), keys : SUBSET (1..10)]

\* Every variable has its type.
TypeOK ==
    /\ title \in 0..MaxMenus
    /\ size \in 0..MaxItems
    /\ bExit \in BOOLEAN
    /\ page \in Nat \cup {-1}
    /\ gameMenu \in BOOLEAN
    /\ screen \in Screen
    /\ down \in Seq(Screen)
    /\ up \in Seq([key : 1..10, seen : Screen])
    /\ answer \in [1..MaxMenus -> 0..MaxItems]

\* An open menu is on a page that has items, whatever keys of whatever older
\* menu arrive.  (Before the first menu the page is 0 and there are no items.)
PageExists == page \in {-1, 0} \/ page * PageOption < size

\* Once nothing is under way to the client, a menu of the plugin on its screen
\* is the menu and the page that the server acts on, unless the server has
\* closed it.
ScreenIsCurrent ==
    down = << >> /\ page # -1 /\ screen.menu > 0
        => screen = View(title, size, page)

\* A menu is answered once, and only while it is the last one created:
\* a key that arrives late never answers a menu that is gone.
AnsweredOnce ==
    [][\A m \in 1..MaxMenus :
          answer'[m] # answer[m] => m = title /\ answer[m] = 0]_vars

\* The item chosen is the one the player saw beside the key he pressed, if
\* the page he saw is still the menu's page.
ChosenIsSeen ==
    [][\A m \in 1..MaxMenus :
          answer'[m] # answer[m] /\ Head(up).seen.menu = m /\ Head(up).seen.page = page
              => answer'[m] = Head(up).seen.line[Head(up).key]]_vars

=============================================================================
