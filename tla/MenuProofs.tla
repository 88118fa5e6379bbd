----------------------------- MODULE MenuProofs -----------------------------
(***************************************************************************)
(* Proofs about the menu of a slot, for any length of page and of menu and *)
(* any number of messages in flight.                                       *)
(***************************************************************************)
EXTENDS Menu, SequenceTheorems, TLAPS

\* A page that Display may show of n items
PageIn(p, n) == p \in Nat /\ (p = 0 \/ p * PageOption < n)

\* A screen shows no menu later than the t-th, and if it shows that one, of n
\* items, it shows one of its pages.
Shown(s, t, n) ==
    /\ s.menu <= t
    /\ s.menu > 0 /\ s.menu = t => PageIn(s.page, n) /\ s = View(t, n, s.page)

\* Every screen anywhere shows what it claims to show, and every key on its
\* way is a key of the screen it was pressed on.
AllShown(s, d, u, t, n) ==
    /\ Shown(s, t, n)
    /\ \A i \in 1..Len(d) : Shown(d[i], t, n)
    /\ \A i \in 1..Len(u) : Shown(u[i].seen, t, n) /\ u[i].key \in u[i].seen.keys
ScreensOK == AllShown(screen, down, up, title, size)

\* What is on its way to the client last, or already there
Latest(s, d) == IF d = << >> THEN s ELSE d[Len(d)]

\* The client ends up with the page the server has.
LatestOK ==
    page # -1 /\ Latest(screen, down).menu > 0
        => Latest(screen, down) = View(title, size, page)

\* Menus to come have no answer, and an answered menu is closed.
AnswersOK ==
    /\ title = 0 => size = 0
    /\ \A m \in 1..MaxMenus : m > title => answer[m] = 0
    /\ title > 0 /\ answer[title] # 0 => page = -1

\* The inductive invariant
IInv == TypeOK /\ PageExists /\ ScreensOK /\ LatestOK /\ AnswersOK

-----------------------------------------------------------------------------
(* Screens.                                                                *)

LEMMA Product == \A p \in Nat : p * PageOption \in Nat
BY PageAssumption

LEMMA PageZero == 0 * PageOption = 0
BY PageAssumption

LEMMA ConstantScreens == Blank \in Screen /\ GameScreen \in Screen
BY KeyAssumption, BoundAssumption DEF Blank, GameScreen, Screen

\* A page that exists is drawn as a screen.
LEMMA ViewType ==
    ASSUME NEW m \in 0..MaxMenus, NEW n \in 0..MaxItems, NEW p, PageIn(p, n)
    PROVE  /\ View(m, n, p) \in Screen
           /\ View(m, n, p).menu = m /\ View(m, n, p).page = p
           /\ \A k \in View(m, n, p).keys \ {9, 10} :
                  View(m, n, p).line[k] = k + p * PageOption
<1> DEFINE start == p * PageOption
           count == Lower(start + PageOption, n) - start
           keys  == (1..count) \cup {10} \cup (IF start + count # n THEN {9} ELSE {})
           line  == [k \in 1..count |-> start + k]
<1>1. start \in Nat /\ start <= n /\ n \in Nat /\ p \in Nat
  BY Product, PageZero, BoundAssumption DEF PageIn
<1>2. count \in Nat /\ count <= PageOption /\ PageOption \in 1..8
  BY <1>1, PageAssumption DEF Lower
<1>3. line \in Seq(Nat)
  <2>1. line \in [1..count -> Nat]
    BY <1>1, <1>2
  <2>2. Seq(Nat) = UNION {[1..l -> Nat] : l \in Nat}
    BY SeqDef
  <2> QED BY <1>2, <2>1, <2>2
<1>4. keys \subseteq 1..10
  BY <1>2
<1>5. View(m, n, p) = [menu |-> m, page |-> p, line |-> line, keys |-> keys]
  BY DEF View
<1>6. m \in -1..MaxMenus /\ p \in Int
  BY <1>1, BoundAssumption
<1>7. \A k \in keys \ {9, 10} : line[k] = k + start
  BY <1>1, <1>2
<1> HIDE DEF start, line, keys
<1>8. View(m, n, p) \in Screen
  BY <1>3, <1>4, <1>5, <1>6 DEF Screen
<1>9. \A k \in View(m, n, p).keys \ {9, 10} : View(m, n, p).line[k] = k + start
  BY <1>5, <1>7
<1> QED BY <1>5, <1>8, <1>9 DEF start

\* Display closes the menu, or shows an existing page and tells the client.
LEMMA DisplayStep ==
    ASSUME TypeOK, NEW p \in Nat \cup {-1}, Display(p)
    PROVE  \/ page' = -1 /\ down' = down
           \/ PageIn(page', size) /\ down' = Append(down, View(title, size, page'))
<1>1. CASE p = -1
  BY <1>1 DEF Display, PageIn
<1>2. CASE p \in Nat
  <2>1. PageIn(Turned(p), size)
    BY <1>2, Product, BoundAssumption DEF Turned, PageIn, TypeOK
  <2> QED BY <1>2, <2>1 DEF Display
<1> QED BY <1>1, <1>2

-----------------------------------------------------------------------------
(* Messages.                                                               *)

Key == [key : 1..10, seen : Screen]

\* A message to the client that shows what it claims.
LEMMA Sent ==
    ASSUME NEW s \in Screen, NEW d \in Seq(Screen), NEW u \in Seq(Key),
           NEW t \in Nat, NEW n, AllShown(s, d, u, t, n),
           NEW v \in Screen, Shown(v, t, n)
    PROVE  /\ AllShown(s, Append(d, v), u, t, n)
           /\ Append(d, v) \in Seq(Screen)
           /\ Latest(s, Append(d, v)) = v
<1>1. /\ Append(d, v) \in Seq(Screen)
      /\ Len(Append(d, v)) = Len(d) + 1
      /\ Append(d, v)[Len(d) + 1] = v
      /\ \A i \in 1..Len(d) : Append(d, v)[i] = d[i]
  OBVIOUS
<1>2. Append(d, v) # << >>
  BY <1>1
<1> QED BY <1>1, <1>2 DEF AllShown, Latest

\* A new menu makes every screen one of an older menu.
LEMMA Older ==
    ASSUME NEW s \in Screen, NEW d \in Seq(Screen), NEW u \in Seq(Key),
           NEW t \in Nat, NEW n, AllShown(s, d, u, t, n), NEW n2
    PROVE  AllShown(s, d, u, t + 1, n2)
<1>1. ASSUME NEW r \in Screen, Shown(r, t, n) PROVE Shown(r, t + 1, n2)
  <2>1. r.menu \in Int
    BY BoundAssumption DEF Screen
  <2>2. r.menu <= t + 1 /\ r.menu # t + 1
    BY <1>1, <2>1 DEF Shown
  <2> QED BY <2>2 DEF Shown
<1>2. /\ \A i \in 1..Len(d) : d[i] \in Screen
      /\ \A i \in 1..Len(u) : u[i].seen \in Screen
  <2>1. \A i \in 1..Len(u) : u[i] \in Key
    OBVIOUS
  <2> QED BY <2>1 DEF Key
<1> QED BY <1>1, <1>2 DEF AllShown

\* The messages after a handler that opened a menu.
LEMMA OpenedStep ==
    ASSUME TypeOK, NEW before \in Seq(Screen), NEW u \in Seq(Key),
           AllShown(screen, before, u, title, size),
           NEW n \in 0..MaxItems, NEW e \in BOOLEAN, Opened(n, e, before)
    PROVE  /\ title' = title + 1 /\ title' \in 1..MaxMenus
           /\ size' = n /\ bExit' \in BOOLEAN
           /\ gameMenu' \in BOOLEAN
           /\ page' \in {-1, 0}
           /\ down' \in Seq(Screen)
           /\ AllShown(screen, down', u, title', size')
           /\ page' = 0 => Latest(screen, down') = View(title', size', page')
<1>1. /\ title' = title + 1 /\ title' \in 1..MaxMenus /\ title \in Nat
      /\ size' = n /\ bExit' \in BOOLEAN /\ screen \in Screen
  BY BoundAssumption DEF Opened, TypeOK
<1>2. AllShown(screen, before, u, title', size')
  BY <1>1, Older
<1>3. CASE n > 0
  <2>1. PageIn(0, n)
    BY DEF PageIn
  <2>2. /\ View(title', size', 0) \in Screen
        /\ View(title', size', 0).menu = title' /\ View(title', size', 0).page = 0
    BY <1>1, <2>1, ViewType
  <2>3. Shown(View(title', size', 0), title', size')
    BY <1>1, <2>1, <2>2 DEF Shown
  <2>4. page' = 0 /\ gameMenu' = FALSE /\ down' = Append(before, View(title', size', 0))
    BY <1>1, <1>3 DEF Opened
  <2> HIDE DEF Opened
  <2>5. /\ AllShown(screen, down', u, title', size')
        /\ down' \in Seq(Screen)
        /\ Latest(screen, down') = View(title', size', 0)
    BY <1>1, <1>2, <2>2, <2>3, <2>4, Sent
  <2> QED BY <1>1, <2>4, <2>5
<1>4. CASE n = 0
  <2>1. page' = -1 /\ gameMenu' = gameMenu /\ down' = before
    BY <1>4 DEF Opened
  <2> QED BY <1>1, <1>2, <2>1 DEF TypeOK
<1> QED BY <1>3, <1>4

\* Blank screens and those of the game show no menu of the plugin.
LEMMA ForeignShown ==
    ASSUME NEW t \in Nat, NEW n
    PROVE  Shown(Blank, t, n) /\ Shown(GameScreen, t, n)
BY DEF Shown, Blank, GameScreen

\* A key that reaches the server is one less under way.
LEMMA Taken ==
    ASSUME NEW s \in Screen, NEW d \in Seq(Screen), NEW u \in Seq(Key),
           NEW t, NEW n, AllShown(s, d, u, t, n), u # << >>
    PROVE  /\ Tail(u) \in Seq(Key) /\ Head(u) \in Key
           /\ AllShown(s, d, Tail(u), t, n)
           /\ Shown(Head(u).seen, t, n) /\ Head(u).key \in Head(u).seen.keys
<1>1. /\ Tail(u) \in Seq(Key) /\ Head(u) \in Key /\ Head(u) = u[1]
      /\ Len(Tail(u)) = Len(u) - 1 /\ Len(u) \in Nat /\ Len(u) > 0
      /\ \A i \in 1..Len(Tail(u)) : Tail(u)[i] = u[i + 1]
  OBVIOUS
<1> QED BY <1>1 DEF AllShown

-----------------------------------------------------------------------------
(* Every step keeps the invariant.                                         *)

LEMMA TypeFacts ==
    ASSUME TypeOK
    PROVE  /\ title \in Nat /\ size \in Nat /\ page \in Int
           /\ screen \in Screen /\ down \in Seq(Screen) /\ up \in Seq(Key)
BY BoundAssumption DEF TypeOK, Key

\* Showing a page of the menu keeps every screen right.
LEMMA ShowPage ==
    ASSUME TypeOK, NEW u \in Seq(Key), AllShown(screen, down, u, title, size),
           NEW p, PageIn(p, size)
    PROVE  LET d == Append(down, View(title, size, p))
           IN  /\ d \in Seq(Screen)
               /\ AllShown(screen, d, u, title, size)
               /\ Latest(screen, d) = View(title, size, p)
<1>1. PICK v : v = View(title, size, p)
  OBVIOUS
<1>2. v \in Screen /\ v.menu = title /\ v.page = p
  BY <1>1, ViewType DEF TypeOK
<1>3. Shown(v, title, size)
  BY <1>1, <1>2, TypeFacts DEF Shown
<1>4. screen \in Screen /\ down \in Seq(Screen) /\ title \in Nat
  BY TypeFacts
<1> QED BY <1>1, <1>2, <1>3, <1>4, Sent

LEMMA TurnPageStep ==
    ASSUME IInv, up # << >>, up' = Tail(up), page # -1, UNCHANGED screen,
           NEW key \in 1..10, TurnPage(key)
    PROVE  IInv'
<1>1. /\ UNCHANGED <<title, size, bExit, gameMenu, answer, screen>>
      /\ \E p \in Nat \cup {-1} : Display(p)
  BY DEF TurnPage, IInv, TypeOK
<1>2. /\ up' \in Seq(Key)
      /\ AllShown(screen, down, up', title, size)
  BY TypeFacts, Taken DEF IInv, ScreensOK
<1>3. AnswersOK'
  BY <1>1 DEF IInv, AnswersOK
<1>4. CASE page' = -1 /\ down' = down
  BY <1>1, <1>2, <1>3, <1>4
  DEF IInv, TypeOK, PageExists, ScreensOK, LatestOK, Key
<1>5. CASE PageIn(page', size) /\ down' = Append(down, View(title, size, page'))
  <2>3. /\ down' \in Seq(Screen)
        /\ AllShown(screen, down', up', title, size)
        /\ Latest(screen, down') = View(title, size, page')
    BY <1>2, <1>5, ShowPage DEF IInv
  <2>4. TypeOK' /\ PageExists'
    BY <1>1, <1>2, <1>5, <2>3 DEF IInv, TypeOK, PageExists, PageIn, Key
  <2>5. ScreensOK' /\ LatestOK'
    BY <1>1, <2>3 DEF ScreensOK, LatestOK
  <2> QED BY <1>3, <2>4, <2>5 DEF IInv
<1> QED BY <1>1, <1>4, <1>5, DisplayStep DEF IInv

\* The menu that a callback or another handler opens.
LEMMA OpenedInv ==
    ASSUME IInv, NEW before \in Seq(Screen),
           AllShown(screen, before, up', title, size), up' \in Seq(Key),
           NEW n \in 0..MaxItems, NEW e \in BOOLEAN, Opened(n, e, before),
           UNCHANGED screen, answer' \in [1..MaxMenus -> 0..MaxItems],
           \A m \in 1..MaxMenus : m > title => answer'[m] = answer[m]
    PROVE  IInv'
<1>1. /\ title' = title + 1 /\ title' \in 1..MaxMenus
      /\ size' = n /\ bExit' \in BOOLEAN
      /\ gameMenu' \in BOOLEAN
      /\ page' \in {-1, 0}
      /\ down' \in Seq(Screen)
      /\ AllShown(screen, down', up', title', size')
      /\ page' = 0 => Latest(screen, down') = View(title', size', page')
  BY OpenedStep DEF IInv
<1>2. TypeOK'
  BY <1>1 DEF IInv, TypeOK, Key
<1>3. PageExists' /\ ScreensOK' /\ LatestOK'
  BY <1>1 DEF PageExists, ScreensOK, LatestOK
<1>4. AnswersOK'
  <2>1. answer'[title'] = 0 /\ \A m \in 1..MaxMenus : m > title' => answer'[m] = 0
    <3>1. title' \in 1..MaxMenus /\ title' = title + 1 /\ title \in Nat
      BY <1>1, TypeFacts DEF IInv
    <3>2. \A m \in 1..MaxMenus : m > title => answer[m] = 0
      BY DEF IInv, AnswersOK
    <3> QED BY <3>1, <3>2
  <2> QED BY <1>1, <2>1, TypeFacts DEF IInv, AnswersOK
<1> QED BY <1>2, <1>3, <1>4 DEF IInv

\* A menu that may be answered is open, not answered before, and not the
\* empty one there is before the first.
LEMMA ChooseFacts ==
    ASSUME IInv, page # -1, NEW key \in 1..10, Choose(key)
    PROVE  /\ title \in 1..MaxMenus /\ answer[title] = 0
           /\ Item(key) \in 1..MaxItems
           /\ answer' = [answer EXCEPT ![title] = Item(key)]
<1>1. page \in Nat /\ page * PageOption \in Nat
  BY Product DEF IInv, TypeOK
<1>2. Item(key) \in 1..size
  BY <1>1, TypeFacts DEF IInv, Choose, Item
<1>3. title # 0
  BY <1>2 DEF IInv, AnswersOK
<1> QED BY <1>2, <1>3, TypeFacts, BoundAssumption
        DEF IInv, AnswersOK, TypeOK, Choose

LEMMA ChooseStep ==
    ASSUME IInv, up # << >>, up' = Tail(up), page # -1, UNCHANGED screen,
           NEW key \in 1..10, Choose(key)
    PROVE  IInv'
<1>1. /\ up' \in Seq(Key)
      /\ AllShown(screen, down, up', title, size)
  BY TypeFacts, Taken DEF IInv, ScreensOK
<1>2. /\ Append(down, Blank) \in Seq(Screen)
      /\ AllShown(screen, Append(down, Blank), up', title, size)
  BY <1>1, TypeFacts, ConstantScreens, ForeignShown, Sent DEF IInv
<1>3. /\ answer' \in [1..MaxMenus -> 0..MaxItems]
      /\ \A m \in 1..MaxMenus : m > title => answer'[m] = answer[m]
  <2>1. /\ title \in 1..MaxMenus /\ Item(key) \in 1..MaxItems
        /\ answer' = [answer EXCEPT ![title] = Item(key)]
    BY ChooseFacts
  <2>2. answer \in [1..MaxMenus -> 0..MaxItems]
    BY DEF IInv, TypeOK
  <2> QED BY <2>1, <2>2, BoundAssumption
<1>4. CASE Hide /\ UNCHANGED <<title, size, bExit, gameMenu>>
  <2>1. page' = -1 /\ down' = Append(down, Blank)
    BY <1>4 DEF Hide
  <2>2. TypeOK' /\ PageExists' /\ ScreensOK' /\ LatestOK'
    BY <1>1, <1>2, <1>3, <1>4, <2>1
    DEF IInv, TypeOK, PageExists, ScreensOK, LatestOK, Key
  <2>3. AnswersOK'
    BY <1>3, <1>4, <2>1 DEF IInv, AnswersOK
  <2> QED BY <2>2, <2>3 DEF IInv
<1>5. ASSUME NEW n \in 0..MaxItems, NEW e \in BOOLEAN,
             Opened(n, e, Append(down, Blank))
      PROVE  IInv'
  BY <1>1, <1>2, <1>3, <1>5, OpenedInv
<1> QED BY <1>4, <1>5 DEF Choose

LEMMA ClientCommandStep ==
    ASSUME IInv, ClientCommand
    PROVE  IInv'
<1>1. /\ up # << >> /\ up' = Tail(up) /\ UNCHANGED screen
      /\ Head(up).key \in 1..10
      /\ up' \in Seq(Key)
      /\ AllShown(screen, down, up', title, size)
  BY TypeFacts, Taken DEF ClientCommand, IInv, ScreensOK, Key
<1>2. ASSUME UNCHANGED <<menuVars, down, answer>>, gameMenu' \in BOOLEAN
      PROVE  IInv'
  BY <1>1, <1>2 DEF IInv, TypeOK, PageExists, ScreensOK, LatestOK, AnswersOK,
                    menuVars, Key
<1>3. CASE page # -1 /\ TurnPage(Head(up).key)
  BY <1>1, <1>3, TurnPageStep
<1>4. CASE page # -1 /\ Choose(Head(up).key)
  BY <1>1, <1>4, ChooseStep
<1>5. CASE NoItem(Head(up).key)
  BY <1>2, <1>5 DEF NoItem, menuVars, IInv, TypeOK
<1>6. CASE UNCHANGED <<menuVars, down, answer>>
           /\ (gameMenu' = FALSE \/ UNCHANGED gameMenu)
  BY <1>2, <1>6 DEF IInv, TypeOK
<1> QED BY <1>3, <1>4, <1>5, <1>6 DEF ClientCommand

LEMMA StepIInv ==
    ASSUME IInv, [Next]_vars
    PROVE  IInv'
<1>1. CASE ClientCommand
  BY <1>1, ClientCommandStep
<1>2. ASSUME NEW n \in 1..MaxItems, NEW e \in BOOLEAN, Open(n, e)
      PROVE  IInv'
  <2>1. /\ Opened(n, e, down) /\ UNCHANGED <<screen, up, answer>>
        /\ n \in 0..MaxItems
    BY <1>2 DEF Open
  <2>2. down \in Seq(Screen) /\ up' \in Seq(Key)
    BY <2>1, TypeFacts DEF IInv
  <2>3. AllShown(screen, down, up', title, size)
    BY <2>1 DEF IInv, ScreensOK
  <2>4. answer' \in [1..MaxMenus -> 0..MaxItems]
    BY <2>1 DEF IInv, TypeOK
  <2> QED BY <2>1, <2>2, <2>3, <2>4, OpenedInv
<1>3. CASE GameShows
  <2>1. /\ down' \in Seq(Screen)
        /\ AllShown(screen, down', up, title, size)
        /\ Latest(screen, down') = GameScreen
    BY <1>3, TypeFacts, ConstantScreens, ForeignShown, Sent
    DEF GameShows, IInv, ScreensOK
  <2>2. GameScreen.menu = -1
    BY DEF GameScreen
  <2> QED BY <1>3, <2>1, <2>2
          DEF GameShows, IInv, TypeOK, PageExists, ScreensOK, LatestOK, AnswersOK,
              menuVars
<1>4. CASE Reconnect
  <2>1. /\ screen' = Blank /\ down' = << >> /\ up' = << >>
        /\ UNCHANGED <<menuVars, answer>> /\ gameMenu' = FALSE
    BY <1>4 DEF Reconnect
  <2>2. AllShown(Blank, << >>, << >>, title, size)
    BY TypeFacts, ForeignShown DEF IInv, AllShown
  <2>3. Latest(Blank, << >>).menu = 0
    BY DEF Latest, Blank
  <2>4. << >> \in Seq(Screen) /\ << >> \in Seq([key : 1..10, seen : Screen])
    OBVIOUS
  <2>5. TypeOK'
    BY <2>1, <2>4, ConstantScreens DEF IInv, TypeOK, menuVars
  <2>6. LatestOK'
    BY <2>1, <2>3 DEF LatestOK
  <2> QED BY <2>1, <2>2, <2>5, <2>6
          DEF IInv, PageExists, ScreensOK, AnswersOK, menuVars
<1>5. ASSUME NEW key \in 1..10, Press(key)
      PROVE  IInv'
  <2> DEFINE press == [key |-> key, seen |-> screen]
  <2>1. /\ key \in screen.keys /\ screen' = Blank /\ up' = Append(up, press)
        /\ UNCHANGED <<menuVars, gameMenu, down, answer>>
    BY <1>5 DEF Press
  <2>2. /\ press \in Key /\ Shown(press.seen, title, size)
        /\ press.key \in press.seen.keys
    BY <2>1, TypeFacts DEF IInv, Key, ScreensOK, AllShown
  <2>3. /\ up' \in Seq(Key) /\ Len(up') = Len(up) + 1 /\ up'[Len(up) + 1] = press
        /\ \A i \in 1..Len(up) : up'[i] = up[i]
    BY <2>1, <2>2, TypeFacts DEF IInv
  <2>4. AllShown(Blank, down, up', title, size)
    <3>1. AllShown(screen, down, up, title, size)
      BY DEF IInv, ScreensOK
    <3>2. \A i \in 1..Len(up') : i = Len(up) + 1 \/ i \in 1..Len(up)
      BY <2>3, TypeFacts DEF IInv
    <3>3. Shown(Blank, title, size)
      BY TypeFacts, ForeignShown DEF IInv
    <3>4. \A i \in 1..Len(up') :
             Shown(up'[i].seen, title, size) /\ up'[i].key \in up'[i].seen.keys
      <4> TAKE i \in 1..Len(up')
      <4> HIDE DEF press
      <4>1. CASE i = Len(up) + 1
        BY <4>1, <2>2, <2>3
      <4>2. CASE i \in 1..Len(up)
        BY <4>2, <2>3, <3>1 DEF AllShown
      <4> QED BY <3>2, <4>1, <4>2
    <3> QED BY <3>1, <3>3, <3>4 DEF AllShown
  <2>5. Latest(Blank, down).menu > 0 => Latest(Blank, down) = Latest(screen, down)
    BY DEF Latest, Blank
  <2> QED BY <2>1, <2>3, <2>4, <2>5, ConstantScreens
          DEF IInv, TypeOK, PageExists, ScreensOK, LatestOK, AnswersOK, menuVars, Key
<1>6. CASE Receive
  <2>1. /\ down # << >> /\ screen' = Head(down) /\ down' = Tail(down)
        /\ UNCHANGED <<menuVars, gameMenu, up, answer>>
    BY <1>6 DEF Receive
  <2>2. /\ screen' = down[1] /\ down' \in Seq(Screen) /\ screen' \in Screen
        /\ Len(down') = Len(down) - 1 /\ Len(down) \in Nat /\ Len(down) > 0
        /\ \A i \in 1..Len(down') : down'[i] = down[i + 1]
        /\ (down' = << >>) <=> (Len(down') = 0)
    <3>1. down \in Seq(Screen)
      BY TypeFacts DEF IInv
    <3>2. /\ Head(down) = down[1] /\ Tail(down) \in Seq(Screen)
          /\ Head(down) \in Screen
          /\ Len(Tail(down)) = Len(down) - 1 /\ Len(down) \in Nat /\ Len(down) > 0
          /\ \A i \in 1..Len(Tail(down)) : Tail(down)[i] = down[i + 1]
      BY <2>1, <3>1
    <3>3. (Tail(down) = << >>) <=> (Len(Tail(down)) = 0)
      BY <3>2, EmptySeq
    <3> QED BY <2>1, <3>2, <3>3
  <2>3. AllShown(screen', down', up, title, size)
    BY <2>2 DEF IInv, ScreensOK, AllShown
  <2>4. Latest(screen', down') = Latest(screen, down)
    BY <2>1, <2>2 DEF Latest
  <2> QED BY <2>1, <2>2, <2>3, <2>4
          DEF IInv, TypeOK, PageExists, ScreensOK, LatestOK, AnswersOK, menuVars, Key
<1>7. CASE UNCHANGED vars
  BY <1>7 DEF vars, menuVars, wireVars, IInv, TypeOK, PageExists, ScreensOK,
              LatestOK, AnswersOK
<1> QED BY <1>1, <1>2, <1>3, <1>4, <1>5, <1>6, <1>7 DEF Next

LEMMA InitIInv == Init => IInv
<1> SUFFICES ASSUME Init PROVE IInv
  OBVIOUS
<1>1. TypeOK
  <2>1. << >> \in Seq(Screen) /\ << >> \in Seq([key : 1..10, seen : Screen])
    OBVIOUS
  <2>2. [m \in 1..MaxMenus |-> 0] \in [1..MaxMenus -> 0..MaxItems]
    BY BoundAssumption
  <2>3. down \in Seq(Screen) /\ up \in Seq([key : 1..10, seen : Screen])
    BY <2>1, Zenon DEF Init
  <2>4. answer \in [1..MaxMenus -> 0..MaxItems]
    BY <2>2, Zenon DEF Init
  <2>5. /\ title \in 0..MaxMenus /\ size \in 0..MaxItems /\ page \in Nat \cup {-1}
    BY BoundAssumption DEF Init
  <2>7. bExit \in BOOLEAN /\ gameMenu \in BOOLEAN
    BY DEF Init
  <2>6. screen \in Screen
    BY ConstantScreens DEF Init
  <2> QED BY <2>3, <2>4, <2>5, <2>6, <2>7 DEF TypeOK
<1>2. ScreensOK
  BY ForeignShown DEF Init, ScreensOK, AllShown
<1>3. LatestOK
  BY DEF Init, LatestOK, Latest, Blank
<1> QED BY <1>1, <1>2, <1>3 DEF Init, IInv, PageExists, AnswersOK

THEOREM Invariance == Spec => []IInv
BY InitIInv, StepIInv, PTL DEF Spec

\* Every variable keeps its type.
THEOREM TypeCorrect == Spec => []TypeOK
BY Invariance, PTL DEF IInv

\* Whatever keys arrive, m_iPage of an open menu is a page Display has items for.
THEOREM PageIsThere == Spec => []PageExists
BY Invariance, PTL DEF IInv

\* The page on the player's screen is the page Handle computes the item from,
\* once no ShowMenu message is under way.
THEOREM ScreenAgrees == Spec => []ScreenIsCurrent
<1>1. IInv => ScreenIsCurrent
  BY DEF IInv, LatestOK, Latest, ScreenIsCurrent
<1> QED BY <1>1, Invariance, PTL

-----------------------------------------------------------------------------
(* Answers.                                                                *)

\* An answer changes only when the key at the server chooses an item.
LEMMA AnswerStep ==
    ASSUME IInv, [Next]_vars, NEW m \in 1..MaxMenus, answer'[m] # answer[m]
    PROVE  /\ up # << >> /\ Head(up).key \in 1..10 /\ page # -1
           /\ Choose(Head(up).key)
           /\ m = title /\ answer[m] = 0 /\ answer'[m] = Item(Head(up).key)
<1>1. ClientCommand
  BY DEF Next, Open, GameShows, Reconnect, Press, Receive, vars
<1>2. up # << >> /\ Head(up).key \in 1..10
  BY <1>1, TypeFacts, Taken DEF ClientCommand, IInv, ScreensOK, Key
<1>3. page # -1 /\ Choose(Head(up).key)
  BY <1>1 DEF ClientCommand, TurnPage, NoItem
<1>4. /\ title \in 1..MaxMenus /\ answer[title] = 0
      /\ answer' = [answer EXCEPT ![title] = Item(Head(up).key)]
  BY <1>2, <1>3, ChooseFacts
<1>5. answer \in [1..MaxMenus -> 0..MaxItems]
  BY DEF IInv, TypeOK
<1> QED BY <1>2, <1>3, <1>4, <1>5

\* No menu is answered twice, and none after another was created.
THEOREM AnswersAreFinal == Spec => AnsweredOnce
<1>1. IInv /\ [Next]_vars =>
          \A m \in 1..MaxMenus :
              answer'[m] # answer[m] => m = title /\ answer[m] = 0
  BY AnswerStep
<1>2. IInv /\ UNCHANGED vars =>
          \A m \in 1..MaxMenus :
              answer'[m] # answer[m] => m = title /\ answer[m] = 0
  BY DEF vars
<1> QED BY <1>1, <1>2, Invariance, PTL DEF Spec, AnsweredOnce

\* Display's numbering of the lines and Handle's arithmetic agree: the item
\* chosen is the one beside the key on the page the player saw.
THEOREM ChoicesAreSeen == Spec => ChosenIsSeen
<1> DEFINE Seen(m) ==
        answer'[m] # answer[m] /\ Head(up).seen.menu = m /\ Head(up).seen.page = page
            => answer'[m] = Head(up).seen.line[Head(up).key]
<1>1. ASSUME IInv, [Next]_vars, NEW m \in 1..MaxMenus,
             answer'[m] # answer[m], Head(up).seen.menu = m, Head(up).seen.page = page
      PROVE  answer'[m] = Head(up).seen.line[Head(up).key]
  <2>1. /\ up # << >> /\ Head(up).key \notin {9, 10} /\ m = title
        /\ answer'[m] = Head(up).key + page * PageOption
    BY <1>1, AnswerStep DEF Choose, Item
  <2>2. /\ Head(up).key \in Head(up).seen.keys
        /\ PageIn(page, size) /\ Head(up).seen = View(title, size, page)
    <3>1. Shown(Head(up).seen, title, size) /\ Head(up).key \in Head(up).seen.keys
      BY <1>1, <2>1, TypeFacts, Taken DEF IInv, ScreensOK
    <3> QED BY <1>1, <2>1, <3>1 DEF Shown
  <2>3. title \in 0..MaxMenus /\ size \in 0..MaxItems
    BY <1>1 DEF IInv, TypeOK
  <2> QED BY <2>1, <2>2, <2>3, ViewType
<1>2. IInv /\ [Next]_vars => \A m \in 1..MaxMenus : Seen(m)
  BY <1>1
<1> QED BY <1>2, Invariance, PTL DEF Spec, ChosenIsSeen

=============================================================================
