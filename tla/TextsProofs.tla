----------------------------- MODULE TextsProofs -----------------------------
(***************************************************************************)
(* Proofs about the texts of the mod: what the reading of a list promises  *)
(* is kept where the other texts are handled too, and what the functions   *)
(* of Text return for every text and messages of any size.                 *)
(***************************************************************************)
EXTENDS Texts, AdminListProofs

-----------------------------------------------------------------------------
(* The list, beside the other texts.                                       *)

\* A step of Texts is one of the reading, or none.
LEMMA TextsStep == [TextsNext]_textsVars => [Next]_vars /\ UNCHANGED menu
BY DEF TextsNext, textsVars

\* Among the other texts a list is read as it is alone.
LEMMA TextsIsAdminList == TextsSpec => Init /\ [][Next]_vars
<1>1. TextsInit => Init
  BY DEF TextsInit
<1>2. [TextsNext]_textsVars => [Next]_vars
  BY TextsStep
<1> QED BY <1>1, <1>2, PTL DEF TextsSpec

\* The list is read as it is written whatever else the mod does with texts, and
\* every safe promise of AdminList is kept here: the types, ListIsRead,
\* NobodyGainsFlags and ReadingAdvances, in TextsSpec.
THEOREM ListsAmongTexts ==
    TextsSpec => [](TypeOK /\ ListIsRead /\ NobodyGainsFlags) /\ ReadingAdvances
<1>1. IInv => TypeOK
  BY DEF IInv
<1>2. TypeOK /\ [Next]_vars =>
        [ReadName \/ ReadAuth \/ ReadFlag => Ahead' < Ahead \/ (Ahead = 0 /\ Ahead' = 0)]_vars
  BY MoveOnAdvances DEF ReadName, ReadAuth, ReadFlag
<1> QED
  BY <1>1, <1>2, IInvInit, IInvStep, IInvListIsRead, IInvNobodyGains, TextsIsAdminList, PTL
     DEF ReadingAdvances

\* The texts that are handled do not change, and are those of the constants.
Given == file \in File /\ menu \in Seq(STRING)

\* The texts stay as they are given.
LEMMA TextsAreGiven == TextsSpec => []Given
<1>1. TextsInit => Given
  <2> SUFFICES ASSUME TextsInit PROVE Given
    OBVIOUS
  <2>1. << >> \in Seq(STRING)
    BY EmptySeq
  <2>2. menu \in Seq(STRING)
    <3>1. menu = << >> \/ menu \in MenuText
      BY DEF TextsInit
    <3>2. \A text \in MenuText : text \in Seq(STRING)
      BY TextsAssumption
    <3> QED BY <2>1, <3>1, <3>2
  <2>3. file \in File
    BY DEF TextsInit, Init
  <2> QED BY <2>2, <2>3 DEF Given
<1>2. Given /\ [TextsNext]_textsVars => Given'
  BY DEF Given, TextsNext, textsVars, Next, ReadName, ReadAuth, ReadFlag, MoveOn, Tick, GiveUp, vars
<1> QED BY <1>1, <1>2, PTL DEF TextsSpec

-----------------------------------------------------------------------------
(* Functions of Text that call themselves.                                 *)

\* f goes through 1..L from each position to a next one, up to N at most, and
\* puts the heads of the positions it comes to before one another.
PutsTogether(f, N, L, head, next) ==
    f = [p \in 1..N |-> IF p > L THEN << >> ELSE head[p] \o f[next[p]]]

\* Such a function exists.
LEMMA PuttingTogether ==
    ASSUME NEW N \in Nat, NEW L \in Nat, L < N, NEW head, NEW next,
           \A p \in 1..L : next[p] \in p + 1..N
    PROVE  \E f : PutsTogether(f, N, L, head, next)
<1> DEFINE Eq(f, e) == f = [p \in e..N |-> IF p > L THEN << >> ELSE head[p] \o f[next[p]]]
           Exists(e) == \E f : Eq(f, e)
           Good == {e \in 0..N : e >= 1 => Exists(e)}
<1> HIDE DEF Exists
<1>1. ASSUME NEW e \in 0..N, \A d \in e + 1..N : d \in Good PROVE e \in Good
  <2>1. CASE e > L
    <3> DEFINE f == [p \in e..N |-> << >>]
    <3>1. Eq(f, e)
      <4>1. \A p \in e..N : p > L
        BY <2>1
      <4>2. \A p \in e..N : << >> = IF p > L THEN << >> ELSE head[p] \o f[next[p]]
        <5> HIDE DEF f
        <5> QED BY <4>1
      <4> HIDE DEF Exists
      <4> QED BY <4>2, Zenon
    <3>2. Exists(e)
      BY <3>1 DEF Exists
    <3> QED BY <3>2
  <2>2. CASE e <= L /\ e >= 1
    <3>1. e + 1 \in Good /\ e + 1 >= 1
      BY <1>1, <2>2
    <3>2. PICK f : Eq(f, e + 1)
      BY <3>1 DEF Exists
    <3> DEFINE g == [p \in e..N |-> IF p = e THEN head[e] \o f[next[e]] ELSE f[p]]
    <3>3. e..N = {e} \cup e + 1..N /\ e \notin e + 1..N
      OBVIOUS
    <3>4. ASSUME NEW p \in e..N PROVE g[p] = IF p > L THEN << >> ELSE head[p] \o g[next[p]]
      <4>1. CASE p > L
        <5>1. p # e /\ p \in e + 1..N
          BY <2>2, <4>1, <3>3
        <5>2. g[p] = f[p]
          BY <5>1
        <5> QED BY <4>1, <5>1, <5>2, <3>2
      <4>2. CASE ~(p > L)
        <5>1. next[p] \in p + 1..N /\ next[p] # e /\ next[p] \in e..N
          BY <2>2, <4>2
        <5>2. g[next[p]] = f[next[p]]
          BY <5>1
        <5>3. CASE p = e
          BY <4>2, <5>2, <5>3
        <5>4. CASE p # e
          <6>1. g[p] = f[p] /\ p \in e + 1..N
            BY <5>4, <3>3
          <6> QED BY <4>2, <5>2, <6>1, <3>2
        <5> QED BY <5>3, <5>4
      <4> QED BY <4>1, <4>2
    <3>5. Eq(g, e)
      <4>1. g = [p \in e..N |-> g[p]]
        BY DEF g
      <4> HIDE DEF g
      <4> QED BY <4>1, <3>4
    <3>6. Exists(e)
      BY <3>5 DEF Exists
    <3> QED BY <3>6
  <2>3. CASE e = 0
    BY <2>3
  <2> QED BY <2>1, <2>2, <2>3
<1>2. 0..N \subseteq Good
  <2> HIDE DEF Good
  <2> QED BY <1>1, FromTheEnd
<1>3. Exists(1)
  BY <1>2
<1> QED BY <1>3 DEF Exists, PutsTogether

\* The lesser of two numbers
LEMMA Lesser ==
    ASSUME NEW a \in Int, NEW b \in Int
    PROVE  Min({a, b}) = IF a <= b THEN a ELSE b
<1> DEFINE m == IF a <= b THEN a ELSE b
<1>1. m \in {a, b} /\ \A y \in {a, b} : m =< y
  OBVIOUS
<1>2. \A x \in {a, b} : (\A y \in {a, b} : x =< y) => x = m
  OBVIOUS
<1> HIDE DEF m
<1>3. Min({a, b}) = m
  BY <1>1, <1>2 DEF Min
<1> QED BY <1>3 DEF m

-----------------------------------------------------------------------------
(* The colours of a menu.                                                  *)

\* A text with the codes of the colours in S replaced, each where it stands
Painted(t, S) ==
    [p \in DOMAIN t |-> IF t[p] = "^" /\ p < Len(t) /\ t[p + 1] \in S THEN "\\" ELSE t[p]]

\* Painting keeps the length of a text, and each character that is no caret of a
\* code.
LEMMA PaintedType ==
    ASSUME NEW A, "\\" \in A, NEW t \in Seq(A), NEW S
    PROVE  /\ Painted(t, S) \in Seq(A) /\ Len(Painted(t, S)) = Len(t)
           /\ \A p \in 1..Len(t) : Painted(t, S)[p] =
                 IF t[p] = "^" /\ p < Len(t) /\ t[p + 1] \in S THEN "\\" ELSE t[p]
<1>1. Len(t) \in Nat /\ DOMAIN t = 1..Len(t) /\ \A p \in 1..Len(t) : t[p] \in A
  OBVIOUS
<1>2. Painted(t, S) = [p \in 1..Len(t) |->
          IF t[p] = "^" /\ p < Len(t) /\ t[p + 1] \in S THEN "\\" ELSE t[p]]
  BY <1>1 DEF Painted
<1> QED BY <1>1, <1>2

\* A pair of characters is found at p when it stands there, whole.
PairFound(t, a, c, p) == SubSeq(t, p, Min({p + Len(<<a, c>>) - 1, Len(t)})) = <<a, c>>

\* The search for a pair at p, as ReplaceAll does it, finds it there.
LEMMA PairAt ==
    ASSUME NEW A, NEW t \in Seq(A), NEW a, NEW c, NEW p \in 1..Len(t)
    PROVE  PairFound(t, a, c, p) <=> p < Len(t) /\ t[p] = a /\ t[p + 1] = c
<1> USE DEF PairFound
<1>1. Len(t) \in Nat /\ p + Len(<<a, c>>) - 1 = p + 1
  OBVIOUS
<1>2. Min({p + 1, Len(t)}) = IF p < Len(t) THEN p + 1 ELSE p
  BY <1>1, Lesser
<1>3. CASE p < Len(t)
  <2> DEFINE s == SubSeq(t, p, p + 1)
  <2>1. s \in Seq(A) /\ Len(s) = 2 /\ s[1] = t[p] /\ s[2] = t[p + 1]
    <3>1. \A i \in p..p + 1 : t[i] \in A
      BY <1>1, <1>3
    <3>2. /\ s \in Seq(A) /\ Len(s) = p + 1 - p + 1
          /\ \A i \in 1..p + 1 - p + 1 : s[i] = t[p + i - 1]
      BY <3>1, SubSeqProperties
    <3> HIDE DEF s
    <3>3. 1 \in 1..p + 1 - p + 1 /\ 2 \in 1..p + 1 - p + 1 /\ p + 1 - 1 = p /\ p + 2 - 1 = p + 1
      OBVIOUS
    <3> QED BY <3>2, <3>3
  <2> HIDE DEF s
  <2>2. s = <<t[p], t[p + 1]>>
    BY <2>1
  <2>3. SubSeq(t, p, Min({p + Len(<<a, c>>) - 1, Len(t)})) = s
    BY <1>1, <1>2, <1>3 DEF s
  <2>4. <<t[p], t[p + 1]>> = <<a, c>> <=> t[p] = a /\ t[p + 1] = c
    OBVIOUS
  <2> QED BY <1>3, <2>2, <2>3, <2>4
<1>4. CASE ~(p < Len(t))
  <2>1. SubSeq(t, p, Min({p + Len(<<a, c>>) - 1, Len(t)})) = SubSeq(t, p, p)
    BY <1>1, <1>2, <1>4
  <2>2. Len(SubSeq(t, p, p)) = 1
    <3>1. p \in Int /\ \A i \in p..p : t[i] \in A
      OBVIOUS
    <3>2. Len(SubSeq(t, p, p)) = IF p <= p THEN p - p + 1 ELSE 0
      BY <3>1, SubSeqProperties
    <3> QED BY <3>1, <3>2
  <2>3. Len(<<a, c>>) = 2
    OBVIOUS
  <2>4. SubSeq(t, p, p) # <<a, c>>
    BY <2>2, <2>3
  <2> QED BY <1>4, <2>1, <2>4, Zenon
<1> QED BY <1>3, <1>4

\* Two characters are put before a text one by one.
LEMMA PairBefore ==
    ASSUME NEW A, NEW a \in A, NEW c \in A, NEW s \in Seq(A)
    PROVE  <<a, c>> \o s = <<a>> \o (<<c>> \o s)
<1>1. /\ <<a>> \in Seq(A) /\ Len(<<a>>) = 1 /\ <<a>>[1] = a
      /\ <<c>> \in Seq(A) /\ Len(<<c>>) = 1 /\ <<c>>[1] = c
      /\ <<a, c>> \in Seq(A) /\ Len(<<a, c>>) = 2 /\ <<a, c>>[1] = a /\ <<a, c>>[2] = c
  OBVIOUS
<1>2. <<a>> \o <<c>> = <<a, c>>
  <2> DEFINE x == <<a>>
             y == <<c>>
             z == <<a, c>>
  <2> HIDE DEF x, y, z
  <2>1. /\ x \o y \in Seq(A) /\ Len(x \o y) = 2
        /\ (x \o y)[1] = a /\ (x \o y)[2] = c
    <3>1. /\ x \o y \in Seq(A)
          /\ Len(x \o y) = Len(x) + Len(y)
          /\ \A i \in 1..Len(x) + Len(y) :
                (x \o y)[i] = IF i <= Len(x) THEN x[i] ELSE y[i - Len(x)]
      BY <1>1, ConcatProperties DEF x, y
    <3>2. Len(x) = 1 /\ Len(y) = 1 /\ x[1] = a /\ y[1] = c
      BY <1>1 DEF x, y
    <3> QED BY <3>1, <3>2
  <2>2. z \in Seq(A) /\ Len(z) = 2 /\ z[1] = a /\ z[2] = c
    BY <1>1 DEF z
  <2>3. \A i \in 1..Len(x \o y) : (x \o y)[i] = z[i]
    <3>1. 1..Len(x \o y) = {1, 2}
      BY <2>1
    <3> QED BY <3>1, <2>1, <2>2
  <2>4. x \o y = z
    BY <2>1, <2>2, <2>3, SeqEqual
  <2> QED BY <2>4 DEF x, y, z
<1>3. (<<a>> \o <<c>>) \o s = <<a>> \o (<<c>> \o s)
  BY <1>1, ConcatAssociative
<1> QED BY <1>2, <1>3

\* ReplaceAll replaces the code of one colour wherever it stands.
LEMMA ColouredPaints ==
    ASSUME NEW A, "\\" \in A, NEW t \in Seq(A), NEW c, c # "^"
    PROVE  Coloured(t, c) = Painted(t, {c})
<1> DEFINE found == <<"^", c>>
           by == <<"\\", c>>
           L == Len(t)
           N == Len(t) + Len(found) + 1
           at(p) == SubSeq(t, p, Min({p + Len(found) - 1, Len(t)}))
           Eq(f) == f = [p \in 1..N |->
                            IF p > Len(t) THEN << >>
                            ELSE IF at(p) # found THEN <<t[p]>> \o f[p + 1]
                            ELSE by \o f[After(p, found)]]
           from == CHOOSE f : Eq(f)
           Match(p) == p < Len(t) /\ t[p] = "^" /\ t[p + 1] = c
           head == [p \in 1..L |-> IF Match(p) THEN by ELSE <<t[p]>>]
           next == [p \in 1..L |-> IF Match(p) THEN p + 2 ELSE p + 1]
           r == Painted(t, {c})
<1>0. L \in Nat /\ N = L + 3 /\ N \in Nat /\ L < N /\ Len(found) = 2
  OBVIOUS
<1>1. ASSUME NEW p \in 1..L PROVE at(p) = found <=> Match(p)
  <2>1. p \in 1..Len(t)
    OBVIOUS
  <2>2. PairFound(t, "^", c, p) <=> p < Len(t) /\ t[p] = "^" /\ t[p + 1] = c
    BY <2>1, PairAt
  <2>3. at(p) = found <=> PairFound(t, "^", c, p)
    BY DEF PairFound
  <2> QED BY <2>2, <2>3
<1>2. \A p \in 1..L : After(p, found) = p + 2
  BY <1>0 DEF After
<1>3. ASSUME NEW f PROVE PutsTogether(f, N, L, head, next) => Eq(f)
  <2> SUFFICES ASSUME PutsTogether(f, N, L, head, next),
                      NEW p \in 1..N
               PROVE  f[p] = IF p > Len(t) THEN << >>
                             ELSE IF at(p) # found THEN <<t[p]>> \o f[p + 1]
                             ELSE by \o f[After(p, found)]
    BY DEF PutsTogether
  <2>1. f[p] = IF p > L THEN << >> ELSE head[p] \o f[next[p]]
    BY DEF PutsTogether
  <2>2. CASE p > L
    BY <2>1, <2>2
  <2>3. CASE ~(p > L)
    <3>1. p \in 1..L
      BY <1>0, <2>3
    <3>2. /\ head[p] = IF Match(p) THEN by ELSE <<t[p]>>
          /\ next[p] = IF Match(p) THEN p + 2 ELSE p + 1
      BY <3>1
    <3> HIDE DEF head, next, by, found, at, Match
    <3> QED BY <2>1, <2>3, <3>1, <3>2, <1>1, <1>2
  <2> QED BY <2>2, <2>3
<1>4. \E f : Eq(f)
  <2>1. ASSUME NEW p \in 1..L PROVE next[p] \in p + 1..N
    <3>1. next[p] = IF Match(p) THEN p + 2 ELSE p + 1
      OBVIOUS
    <3> HIDE DEF next, Match
    <3> QED BY <3>1, <1>0
  <2>2. \E f : PutsTogether(f, N, L, head, next)
    <3> HIDE DEF head, next, L, N
    <3> QED BY <1>0, <2>1, PuttingTogether
  <2> QED BY <1>3, <2>2
<1>5. Eq(from)
  <2> HIDE DEF Eq
  <2> QED BY <1>4
<1>6. Coloured(t, c) = from[1]
  BY DEF Coloured, ReplacedAll
<1>11. ASSUME NEW p \in 1..N
       PROVE  from[p] = IF p > L THEN << >>
                        ELSE IF Match(p) THEN by \o from[p + 2] ELSE <<t[p]>> \o from[p + 1]
  <2> HIDE DEF from
  <2>1. from[p] = IF p > Len(t) THEN << >>
                  ELSE IF at(p) # found THEN <<t[p]>> \o from[p + 1]
                  ELSE by \o from[After(p, found)]
    BY <1>5
  <2>2. ~(p > L) => p \in 1..L
    BY <1>0
  <2> HIDE DEF at, found, by, Match
  <2> QED BY <2>1, <2>2, <1>1, <1>2
<1>7. /\ r \in Seq(A) /\ Len(r) = L
      /\ \A p \in 1..L : r[p] = IF Match(p) THEN "\\" ELSE t[p]
  BY PaintedType
<1> DEFINE Good == {p \in 0..N : p >= 1 => from[p] = SubSeq(r, p, L)}
<1>8. ASSUME NEW p \in 0..N, \A q \in p + 1..N : q \in Good PROVE p \in Good
  <2> HIDE DEF from, r
  <2>1. CASE p = 0
    BY <2>1
  <2>2. CASE p > L
    <3>1. from[p] = << >>
      <4> HIDE DEF Match, by
      <4>1. p \in 1..N
        BY <1>0, <2>2
      <4> QED BY <4>1, <1>11, <2>2
    <3>2. SubSeq(r, p, L) = << >>
      BY <1>0, <2>2, SubSeqEmpty
    <3> QED BY <3>1, <3>2
  <2>3. CASE p \in 1..L /\ ~Match(p)
    <3>1. from[p] = <<t[p]>> \o from[p + 1]
      <4> HIDE DEF Match, by
      <4>1. p \in 1..N /\ ~(p > L)
        BY <1>0, <2>3
      <4> QED BY <4>1, <1>11, <2>3
    <3>2. p + 1 \in Good /\ p + 1 >= 1
      BY <1>0, <1>8, <2>3
    <3>3. r[p] = t[p]
      BY <1>7, <2>3
    <3>4. SubSeq(r, p, L) = <<r[p]>> \o SubSeq(r, p + 1, L)
      BY <1>0, <1>7, <2>3, SubSeqRecursiveFirst
    <3> QED BY <3>1, <3>2, <3>3, <3>4
  <2>4. CASE p \in 1..L /\ Match(p)
    <3>1. from[p] = by \o from[p + 2]
      <4> HIDE DEF Match, by
      <4>1. p \in 1..N /\ ~(p > L)
        BY <1>0, <2>4
      <4> QED BY <4>1, <1>11, <2>4
    <3>2. p + 2 \in Good /\ p + 2 >= 1
      BY <1>0, <1>8, <2>4
    <3>3. r[p] = "\\" /\ r[p + 1] = c /\ c \in A
      BY <1>0, <1>7, <2>4
    <3>4. SubSeq(r, p, L) = <<r[p]>> \o (<<r[p + 1]>> \o SubSeq(r, p + 2, L))
      <4>1. SubSeq(r, p, L) = <<r[p]>> \o SubSeq(r, p + 1, L)
        BY <1>0, <1>7, <2>4, SubSeqRecursiveFirst
      <4>2. SubSeq(r, p + 1, L) = <<r[p + 1]>> \o SubSeq(r, p + 2, L)
        <5>1. p + 1 \in 1..L /\ p + 1 + 1 = p + 2
          BY <1>0, <2>4
        <5> QED BY <5>1, <1>0, <1>7, SubSeqRecursiveFirst
      <4> QED BY <4>1, <4>2
    <3>5. SubSeq(r, p + 2, L) \in Seq(A)
      <4>1. p + 2 \in Int /\ L \in Int /\ \A i \in p + 2..L : i \in 1..L
        BY <1>0, <2>4
      <4>2. \A i \in 1..L : r[i] \in A
        BY <1>7
      <4>3. \A i \in p + 2..L : r[i] \in A
        BY <4>1, <4>2
      <4> HIDE DEF L
      <4> QED BY <4>1, <4>3, SubSeqProperties
    <3>6. by \o SubSeq(r, p + 2, L) = <<"\\">> \o (<<c>> \o SubSeq(r, p + 2, L))
      <4> DEFINE y == SubSeq(r, p + 2, L)
                 a == "\\"
      <4>1. y \in Seq(A) /\ a \in A /\ c \in A
        BY <3>3, <3>5
      <4> HIDE DEF y, a
      <4>2. <<a, c>> \o y = <<a>> \o (<<c>> \o y)
        BY <4>1, PairBefore, SMTT(30)
      <4> QED BY <4>2 DEF y, a
    <3> QED BY <3>1, <3>2, <3>3, <3>4, <3>6
  <2> QED BY <1>0, <2>1, <2>2, <2>3, <2>4
<1>9. from[1] = SubSeq(r, 1, L)
  <2>1. 0..N \subseteq Good
    <3> HIDE DEF Good, N
    <3> QED BY <1>0, <1>8, FromTheEnd
  <2>2. \A p \in Good : p >= 1 => from[p] = SubSeq(r, p, L)
    <3> HIDE DEF from, r, L, N
    <3> QED OBVIOUS
  <2> HIDE DEF Good, from, r
  <2>3. 1 \in 0..N
    BY <1>0
  <2> QED BY <2>1, <2>2, <2>3
<1>10. SubSeq(r, 1, L) = r
  BY <1>7, SubSeqFull
<1> QED BY <1>6, <1>9, <1>10

\* Painting one colour more leaves what is painted, and sees the same codes: a
\* replaced code has neither a caret nor a letter left to it that it had not.
LEMMA PaintedOnce ==
    ASSUME NEW A, "\\" \in A, NEW t \in Seq(A), NEW S, "\\" \notin S, NEW c, c \notin {"^", "\\"}
    PROVE  Coloured(Painted(t, S), c) = Painted(t, S \cup {c})
<1> DEFINE r == Painted(t, S)
           L == Len(t)
<1>1. /\ L \in Nat /\ r \in Seq(A) /\ Len(r) = L
      /\ \A p \in 1..L : r[p] = IF t[p] = "^" /\ p < L /\ t[p + 1] \in S THEN "\\" ELSE t[p]
  BY PaintedType
<1>2. /\ Painted(t, S \cup {c}) \in Seq(A) /\ Len(Painted(t, S \cup {c})) = L
      /\ \A p \in 1..L : Painted(t, S \cup {c})[p] =
            IF t[p] = "^" /\ p < L /\ t[p + 1] \in S \cup {c} THEN "\\" ELSE t[p]
  BY PaintedType
<1> HIDE DEF r
<1>3. /\ Painted(r, {c}) \in Seq(A) /\ Len(Painted(r, {c})) = L
      /\ \A p \in 1..L : Painted(r, {c})[p] =
            IF r[p] = "^" /\ p < L /\ r[p + 1] \in {c} THEN "\\" ELSE r[p]
  BY <1>1, PaintedType
<1>4. ASSUME NEW p \in 1..L PROVE Painted(r, {c})[p] = Painted(t, S \cup {c})[p]
  <2>1. p < L => p + 1 \in 1..L
    BY <1>1
  <2>2. p < L => (r[p + 1] = c <=> t[p + 1] = c)
    BY <2>1, <1>1
  <2>3. r[p] = "^" <=> t[p] = "^" /\ ~(p < L /\ t[p + 1] \in S)
    BY <1>1
  <2> QED BY <1>1, <1>2, <1>3, <2>2, <2>3
<1>5. Painted(r, {c}) = Painted(t, S \cup {c})
  BY <1>2, <1>3, <1>4, SeqEqual
<1>6. Coloured(r, c) = Painted(r, {c})
  BY <1>1, ColouredPaints
<1> QED BY <1>5, <1>6 DEF r

\* The four colours, one after the other, are replaced as if all at once.
LEMMA ColoursPaint ==
    ASSUME NEW A, "\\" \in A, NEW t \in Seq(A)
    PROVE  MenuColours(t) = Painted(t, Colour)
<1>1. Coloured(t, "w") = Painted(t, {"w"})
  BY ColouredPaints
<1>2. Coloured(Painted(t, {"w"}), "y") = Painted(t, {"w"} \cup {"y"})
  BY PaintedOnce
<1>3. Coloured(Painted(t, {"w"} \cup {"y"}), "r") = Painted(t, {"w"} \cup {"y"} \cup {"r"})
  BY PaintedOnce
<1>4. Coloured(Painted(t, {"w"} \cup {"y"} \cup {"r"}), "R")
        = Painted(t, {"w"} \cup {"y"} \cup {"r"} \cup {"R"})
  BY PaintedOnce
<1>5. {"w"} \cup {"y"} \cup {"r"} \cup {"R"} = Colour
  BY DEF Colour
<1> QED BY <1>1, <1>2, <1>3, <1>4, <1>5 DEF MenuColours

\* The colour codes of a menu of any length are replaced, and nothing else is.
THEOREM ColoursReplaced == TextsSpec => []ColoursAreReplaced
<1>1. Given => ColoursAreReplaced
  <2> SUFFICES ASSUME Given PROVE ColoursAreReplaced
    OBVIOUS
  <2> DEFINE A == STRING \cup {"\\"}
  <2>1. menu \in Seq(A) /\ "\\" \in A
    <3>1. menu \in Seq(STRING)
      BY DEF Given
    <3> QED BY <3>1, SeqMonotonic
  <2>2. MenuColours(menu) = Painted(menu, Colour)
    <3> HIDE DEF A
    <3> QED BY <2>1, ColoursPaint
  <2> QED BY <2>2 DEF ColoursAreReplaced, Painted
<1> QED BY <1>1, TextsAreGiven, PTL

-----------------------------------------------------------------------------
(* Functions of Text that go on from what they were before.                *)

\* f starts at b with init, and goes on by step[n] up to N.
GoesUp(f, b, N, init, step) ==
    f = [n \in b..N |-> IF n = b THEN init ELSE step[n][f[n - 1]]]

\* There is a function that goes up from b to N, with values of V.
CanGoUp(b, N, V, init, step) == \E f : GoesUp(f, b, N, init, step) /\ f \in [b..N -> V]

\* What holds at b and goes on from each position to the next holds up to N.
LEMMA FromTheBeginning ==
    ASSUME NEW b \in Nat, NEW N \in Nat, NEW S, b \in S,
           \A n \in b..N : n < N /\ n \in S => n + 1 \in S
    PROVE  b..N \subseteq S
<1> DEFINE T == {k \in Nat : k \in b..N /\ k \notin S}
<1> SUFFICES ASSUME T # {} PROVE FALSE
  OBVIOUS
<1>1. PICK k \in T : \A n \in T : k <= n
  BY LeastNumber
<1>2. k # b /\ k \in b..N /\ k \notin S
  BY <1>1
<1>3. k - 1 \in Nat /\ k - 1 \in b..N /\ k - 1 < N /\ k - 1 + 1 = k /\ ~(k <= k - 1)
  BY <1>2
<1>4. k - 1 \in S
  BY <1>1, <1>3
<1> QED BY <1>2, <1>3, <1>4

\* Such a function exists, and has values of V if init and the steps have.
LEMMA GoingUp ==
    ASSUME NEW b \in Nat, NEW N \in Nat, b <= N, NEW V, NEW init \in V, NEW step,
           \A n \in b + 1..N : step[n] \in [V -> V]
    PROVE  CanGoUp(b, N, V, init, step)
<1> DEFINE Eq(f, e) == /\ f = [n \in b..e |-> IF n = b THEN init ELSE step[n][f[n - 1]]]
                       /\ f \in [b..e -> V]
           Exists(e) == \E f : Eq(f, e)
           Good == {e \in b..N : Exists(e)}
<1>1. b \in Good
  <2> DEFINE f == [n \in b..b |-> init]
  <2>1. \A n \in b..b : n = b
    OBVIOUS
  <2>2. Eq(f, b)
    <3>1. \A n \in b..b : init = IF n = b THEN init ELSE step[n][f[n - 1]]
      <4> HIDE DEF f
      <4> QED BY <2>1
    <3>2. f = [n \in b..b |-> IF n = b THEN init ELSE step[n][f[n - 1]]]
      BY <3>1, Zenon
    <3> QED BY <3>2
  <2> HIDE DEF Eq, f
  <2> QED BY <2>2
<1>2. ASSUME NEW e \in b..N, e < N, e \in Good PROVE e + 1 \in Good
  <2>1. PICK f : Eq(f, e)
    BY <1>2
  <2>2. e + 1 \in b..N /\ b..e + 1 = b..e \cup {e + 1} /\ e + 1 # b /\ e + 1 \in b + 1..N /\ e \in b..e
    BY <1>2
  <2> DEFINE g == [n \in b..e + 1 |-> IF n = e + 1 THEN step[n][f[e]] ELSE f[n]]
  <2>3. f[e] \in V /\ step[e + 1] \in [V -> V]
    BY <2>1, <2>2
  <2>4. ASSUME NEW n \in b..e + 1
        PROVE  g[n] = (IF n = b THEN init ELSE step[n][g[n - 1]]) /\ g[n] \in V
    <3>1. CASE n = e + 1
      <4>1. n - 1 = e /\ e \in b..e + 1 /\ e # e + 1
        BY <2>2, <3>1
      <4>2. g[n - 1] = f[e] /\ g[n] = step[n][f[e]]
        BY <3>1, <4>1
      <4> HIDE DEF g
      <4> QED BY <2>2, <2>3, <3>1, <4>2
    <3>2. CASE n # e + 1
      <4>1. n \in b..e /\ g[n] = f[n]
        BY <2>2, <3>2
      <4>2. n # b => n - 1 \in b..e + 1 /\ n - 1 # e + 1
        BY <4>1
      <4>3. n # b => g[n - 1] = f[n - 1]
        BY <4>2
      <4>4. f[n] = (IF n = b THEN init ELSE step[n][f[n - 1]]) /\ f[n] \in V
        BY <2>1, <4>1
      <4> HIDE DEF g
      <4> QED BY <4>1, <4>3, <4>4
    <3> QED BY <3>1, <3>2
  <2>5. Eq(g, e + 1)
    <3>1. g = [n \in b..e + 1 |-> g[n]]
      BY DEF g
    <3> HIDE DEF g
    <3> QED BY <3>1, <2>4
  <2>6. Exists(e + 1)
    <3> HIDE DEF Eq, g
    <3> QED BY <2>5
  <2> HIDE DEF Exists
  <2> QED BY <2>2, <2>6
<1>3. b..N \subseteq Good
  <2> HIDE DEF Good
  <2> QED BY <1>1, <1>2, FromTheBeginning
<1>4. Exists(N)
  <2> HIDE DEF Exists
  <2> QED BY <1>3
<1> QED BY <1>4 DEF CanGoUp, GoesUp

-----------------------------------------------------------------------------
(* The messages of a menu.                                                 *)

\* f joins the sequences of seqs from the first on.
Joins(f, A, seqs) ==
    /\ f \in [1..Len(seqs) -> Seq(A)]
    /\ f[1] = seqs[1]
    /\ \A i \in 2..Len(seqs) : f[i] = f[i - 1] \o seqs[i]
    /\ FlattenSeq(seqs) = f[Len(seqs)]

\* What FlattenSeq returns is joined so.
LEMMA FlattenJoins ==
    ASSUME NEW A, NEW seqs \in Seq(Seq(A)), seqs # << >>
    PROVE  \E f : Joins(f, A, seqs)
<1> DEFINE n == Len(seqs)
           V == Seq(A)
           Eq(f) == f = [i \in 1..n |-> IF i = 1 THEN seqs[i] ELSE f[i - 1] \o seqs[i]]
           flatten == CHOOSE f : Eq(f)
           step == [i \in 2..n |-> [x \in V |-> x \o seqs[i]]]
<1>1. n \in Nat /\ n >= 1 /\ \A i \in 1..n : seqs[i] \in V
  BY EmptySeq
<1>2. FlattenSeq(seqs) = flatten[n]
  <2>1. Len(seqs) # 0
    BY <1>1
  <2> QED BY <2>1 DEF FlattenSeq
<1> HIDE DEF n, V
<1>3. \A i \in 2..n : step[i] \in [V -> V]
  <2> SUFFICES ASSUME NEW i \in 2..n PROVE step[i] \in [V -> V]
    OBVIOUS
  <2>1. \A x \in V : x \o seqs[i] \in V
    <3> SUFFICES ASSUME NEW x \in V PROVE x \o seqs[i] \in V
      OBVIOUS
    <3>1. seqs[i] \in V
      BY <1>1
    <3> QED BY <3>1, ConcatProperties DEF V
  <2>2. step[i] = [x \in V |-> x \o seqs[i]]
    OBVIOUS
  <2> HIDE DEF step
  <2> QED BY <2>1, <2>2
<1>4. \E f : Eq(f) /\ f \in [1..n -> V]
  <2> DEFINE first == 1
             init == seqs[1]
  <2>1. first \in Nat /\ n \in Nat /\ first <= n /\ init \in V
    BY <1>1
  <2>2. \A i \in first + 1..n : step[i] \in [V -> V]
    <3> HIDE DEF step
    <3> QED BY <1>3
  <2>3. CanGoUp(first, n, V, init, step)
    <3> HIDE DEF first, init, step
    <3> QED BY <2>1, <2>2, GoingUp
  <2>4. PICK f : GoesUp(f, first, n, init, step) /\ f \in [first..n -> V]
    <3> HIDE DEF first, init, step
    <3> QED BY <2>3 DEF CanGoUp
  <2>5. ASSUME NEW i \in 1..n
        PROVE  f[i] = IF i = 1 THEN seqs[i] ELSE f[i - 1] \o seqs[i]
    <3>1. f[i] = IF i = 1 THEN seqs[1] ELSE step[i][f[i - 1]]
      <4> HIDE DEF step
      <4> QED BY <2>4 DEF GoesUp
    <3>2. CASE i = 1
      BY <3>1, <3>2
    <3>3. CASE i # 1
      <4>1. i \in 2..n /\ i - 1 \in 1..n
        BY <1>1, <3>3
      <4>2. f[i - 1] \in V
        BY <2>4, <4>1
      <4>3. step[i] = [x \in V |-> x \o seqs[i]]
        BY <4>1
      <4> HIDE DEF step
      <4> QED BY <3>1, <3>3, <4>2, <4>3
    <3> QED BY <3>2, <3>3
  <2>6. f = [i \in 1..n |-> f[i]] /\ f \in [1..n -> V]
    BY <2>4
  <2>7. Eq(f)
    <3> HIDE DEF step
    <3> QED BY <2>5, <2>6
  <2> QED BY <2>6, <2>7
<1>5. Eq(flatten)
  <2> HIDE DEF Eq
  <2> QED BY <1>4
<1> HIDE DEF flatten
<1>6. ASSUME NEW i \in 1..n
      PROVE  flatten[i] = IF i = 1 THEN seqs[i] ELSE flatten[i - 1] \o seqs[i]
  BY <1>5
<1>7. flatten[1] = seqs[1] /\ \A i \in 2..n : flatten[i] = flatten[i - 1] \o seqs[i]
  <2>1. 1 \in 1..n /\ \A i \in 2..n : i \in 1..n /\ i # 1
    BY <1>1
  <2>2. flatten[1] = seqs[1]
    BY <1>6, <2>1
  <2>3. ASSUME NEW i \in 2..n PROVE flatten[i] = flatten[i - 1] \o seqs[i]
    <3>1. i \in 1..n /\ i # 1
      BY <2>1
    <3> QED BY <1>6, <3>1, Zenon
  <2> QED BY <2>2, <2>3
<1>8. flatten \in [1..n -> V]
  <2> DEFINE S == {i \in 1..n : flatten[i] \in V}
  <2>1. 1 \in S
    BY <1>1, <1>6
  <2>2. ASSUME NEW i \in 1..n, i < n, i \in S PROVE i + 1 \in S
    <3>1. i + 1 \in 1..n /\ i + 1 \in 2..n
      BY <1>1, <2>2
    <3>2. flatten[i + 1] = flatten[i] \o seqs[i + 1]
      <4>1. ASSUME NEW k \in 2..n, k = i + 1 PROVE flatten[k] = flatten[i] \o seqs[k]
        <5>1. flatten[k] = flatten[k - 1] \o seqs[k]
          BY <1>7
        <5>2. k - 1 = i
          BY <4>1
        <5> QED BY <5>1, <5>2
      <4> QED BY <1>1, <3>1, <4>1
    <3>4. seqs[i + 1] \in V /\ flatten[i] \in V
      BY <1>1, <2>2, <3>1
    <3>3. flatten[i] \o seqs[i + 1] \in V
      BY <3>4, ConcatProperties DEF V
    <3> QED BY <3>1, <3>2, <3>3
  <2>3. 1..n \subseteq S
    <3> DEFINE first == 1
    <3>1. first \in Nat /\ first \in S /\ \A i \in first..n : i < n /\ i \in S => i + 1 \in S
      BY <2>1, <2>2
    <3> HIDE DEF S, first
    <3>2. first..n \subseteq S
      BY <1>1, <3>1, FromTheBeginning
    <3> QED BY <3>2 DEF first
  <2> QED BY <2>3, <1>5
<1> QED BY <1>2, <1>7, <1>8 DEF Joins, n, V

\* A sequence that is put before others is put before what they are joined to.
LEMMA FlattenBefore ==
    ASSUME NEW A, NEW x \in Seq(A), NEW s \in Seq(Seq(A))
    PROVE  FlattenSeq(<<x>> \o s) = x \o FlattenSeq(s) /\ FlattenSeq(s) \in Seq(A)
<1> DEFINE V == Seq(A)
           l == <<x>> \o s
           n == Len(s)
<1>1. /\ n \in Nat /\ l \in Seq(V) /\ Len(l) = n + 1 /\ l[1] = x
      /\ \A i \in 1..n : l[i + 1] = s[i] /\ s[i] \in V
  <2>1. <<x>> \in Seq(V) /\ Len(<<x>>) = 1 /\ <<x>>[1] = x
    OBVIOUS
  <2> DEFINE h == <<x>>
  <2> HIDE DEF V, h
  <2>2. n \in Nat /\ \A i \in 1..n : s[i] \in V
    BY DEF V
  <2>3. /\ h \o s \in Seq(V)
        /\ Len(h \o s) = Len(h) + Len(s)
        /\ \A i \in 1..Len(h) + Len(s) :
              (h \o s)[i] = IF i <= Len(h) THEN h[i] ELSE s[i - Len(h)]
    BY <2>1, ConcatProperties DEF V, h
  <2>4. Len(h) = 1 /\ h[1] = x /\ l = h \o s
    BY <2>1 DEF h
  <2> HIDE DEF l
  <2>5. ASSUME NEW i \in 1..n PROVE l[i + 1] = s[i]
    <3>1. \A j \in 1..1 + n : l[j] = IF j <= 1 THEN h[j] ELSE s[j - 1]
      BY <2>3, <2>4
    <3> HIDE DEF n
    <3>2. i + 1 \in 1..1 + n
      BY <2>2
    <3>3. ASSUME NEW j \in 1..1 + n, j = i + 1 PROVE l[j] = s[i]
      <4>1. ~(j <= 1) /\ j - 1 = i
        BY <2>2, <3>3
      <4>2. l[j] = IF j <= 1 THEN h[j] ELSE s[j - 1]
        BY <3>1
      <4>3. l[j] = s[j - 1]
        BY <4>1, <4>2
      <4> QED BY <4>1, <4>3
    <3> QED BY <3>2, <3>3
  <2>6. l \in Seq(V) /\ Len(l) = n + 1
    <3>1. Len(l) = 1 + n /\ n \in Nat
      BY <2>2, <2>3, <2>4
    <3> HIDE DEF n
    <3> QED BY <2>3, <2>4, <3>1
  <2>7. l[1] = x
    <3>1. 1 \in 1..Len(h) + Len(s) /\ 1 <= Len(h)
      BY <2>2, <2>4
    <3> QED BY <2>3, <2>4, <3>1
  <2> QED BY <2>2, <2>5, <2>6, <2>7
<1> HIDE DEF l
<1>2. l # << >>
  BY <1>1, EmptySeq
<1>3. PICK f : Joins(f, A, l)
  BY <1>1, <1>2, FlattenJoins
<1>4. /\ f \in [1..n + 1 -> V] /\ f[1] = x /\ FlattenSeq(l) = f[n + 1]
      /\ \A i \in 2..n + 1 : f[i] = f[i - 1] \o l[i]
  BY <1>1, <1>3 DEF Joins
<1>5. CASE s = << >>
  <2>1. n = 0 /\ FlattenSeq(s) = << >>
    BY <1>5 DEF FlattenSeq
  <2>2. FlattenSeq(l) = x
    BY <1>4, <2>1
  <2>3. x \o << >> = x /\ << >> \in Seq(A)
    BY ConcatEmptySeq, EmptySeq
  <2> QED BY <2>1, <2>2, <2>3 DEF l
<1>6. CASE s # << >>
  <2>1. PICK g : Joins(g, A, s)
    BY <1>6, FlattenJoins
  <2>2. /\ g \in [1..n -> V] /\ g[1] = s[1] /\ FlattenSeq(s) = g[n]
        /\ \A i \in 2..n : g[i] = g[i - 1] \o s[i]
    BY <2>1 DEF Joins
  <2>3. n >= 1
    BY <1>1, <1>6, EmptySeq
  <2> DEFINE S == {i \in 1..n : f[i + 1] = x \o g[i]}
  <2> HIDE DEF V, n
  <2>4. 1 \in S
    <3>1. 2 \in 2..n + 1 /\ 1 \in 1..n /\ 2 - 1 = 1 /\ 1 + 1 = 2
      BY <1>1, <2>3
    <3>2. f[2] = x \o l[2] /\ l[2] = s[1]
      BY <1>1, <1>4, <3>1
    <3> QED BY <2>2, <3>1, <3>2
  <2>5. ASSUME NEW i \in 1..n, i < n, i \in S PROVE i + 1 \in S
    <3>1. /\ i + 1 \in 1..n /\ i + 1 \in 2..n
          /\ i + 1 + 1 \in 2..n + 1
      BY <1>1, <2>5
    <3>2. f[i + 1 + 1] = f[i + 1] \o l[i + 1 + 1]
      <4>1. ASSUME NEW k \in 2..n + 1, k = i + 1 + 1 PROVE f[k] = f[i + 1] \o l[k]
        <5>1. f[k] = f[k - 1] \o l[k]
          BY <1>4
        <5>2. k - 1 = i + 1
          BY <4>1
        <5> QED BY <5>1, <5>2
      <4> QED BY <1>1, <3>1, <4>1
    <3>7. l[i + 1 + 1] = s[i + 1]
      BY <1>1, <3>1, Zenon
    <3>3. g[i + 1] = g[i] \o s[i + 1]
      <4>1. ASSUME NEW k \in 2..n, k = i + 1 PROVE g[k] = g[i] \o s[k]
        <5>1. g[k] = g[k - 1] \o s[k]
          BY <2>2
        <5>2. k - 1 = i
          BY <4>1
        <5> QED BY <5>1, <5>2
      <4> QED BY <1>1, <3>1, <4>1
    <3>4. x \in V /\ g[i] \in V /\ s[i + 1] \in V
      BY <1>1, <2>2, <2>5, <3>1 DEF V
    <3>5. (x \o g[i]) \o s[i + 1] = x \o (g[i] \o s[i + 1])
      <4> DEFINE y == g[i]
                 z == s[i + 1]
      <4>1. x \in Seq(A) /\ y \in Seq(A) /\ z \in Seq(A)
        BY <3>4 DEF V
      <4> HIDE DEF y, z
      <4>2. (x \o y) \o z = x \o (y \o z)
        BY <4>1, ConcatAssociative, SMTT(30)
      <4> QED BY <4>2 DEF y, z
    <3>6. f[i + 1] = x \o g[i]
      BY <2>5
    <3> QED BY <3>1, <3>2, <3>3, <3>5, <3>6, <3>7
  <2>6. 1..n \subseteq S
    <3> DEFINE first == 1
    <3>1. first \in Nat /\ first \in S /\ \A i \in first..n : i < n /\ i \in S => i + 1 \in S
      BY <2>4, <2>5
    <3> HIDE DEF S, first
    <3>2. first..n \subseteq S
      BY <1>1, <3>1, FromTheBeginning
    <3> QED BY <3>2 DEF first
  <2>7. f[n + 1] = x \o g[n] /\ g[n] \in V
    <3>1. n \in 1..n
      BY <1>1, <2>3
    <3>2. n \in S
      BY <2>6, <3>1
    <3> QED BY <2>2, <3>1, <3>2
  <2> QED BY <1>4, <2>2, <2>7 DEF l, V
<1> QED BY <1>5, <1>6

\* Messages, with strings of characters of A, and their strings
Message(A) == [string : Seq(A), more : BOOLEAN]
Strings(s) == [m \in DOMAIN s |-> s[m].string]

\* The messages s send the text t from p on, and say so.
Sends(s, A, t, p) ==
    /\ s \in Seq(Message(A))
    /\ s = << >> <=> p > Len(t)
    /\ FlattenSeq(Strings(s)) = SubSeq(t, p, Len(t))
    /\ \A m \in 1..Len(s) : s[m].more <=> m < Len(s)

\* What becomes of messages of strings over A when one more is put before them
PutBefore(A, r, s) ==
    /\ <<r>> \o s \in Seq(Message(A))
    /\ Len(<<r>> \o s) = Len(s) + 1
    /\ (<<r>> \o s)[1] = r
    /\ \A m \in 1..Len(s) : (<<r>> \o s)[m + 1] = s[m]
    /\ Strings(s) \in Seq(Seq(A))
    /\ Strings(<<r>> \o s) = <<r.string>> \o Strings(s)

\* A message is put before others, and its string before theirs.
LEMMA MessageBefore ==
    ASSUME NEW A, NEW r \in Message(A), NEW s \in Seq(Message(A))
    PROVE  PutBefore(A, r, s)
<1> DEFINE M == Message(A)
           V == Seq(A)
           h == <<r>>
           l == h \o s
           u == Strings(s)
           k == <<r.string>>
           v == k \o u
<1> HIDE DEF M
<1>1. h \in Seq(M) /\ Len(h) = 1 /\ h[1] = r
  BY DEF M
<1>2. r.string \in V /\ \A x \in M : x.string \in V
  BY DEF Message, M
<1>3. Len(s) \in Nat /\ DOMAIN s = 1..Len(s) /\ \A m \in 1..Len(s) : s[m] \in M
  BY DEF M
<1> HIDE DEF V
<1>4. u \in Seq(V) /\ Len(u) = Len(s) /\ \A m \in 1..Len(s) : u[m] = s[m].string
  <2>1. u = [m \in 1..Len(s) |-> s[m].string]
    BY <1>3 DEF Strings
  <2>2. \A m \in 1..Len(s) : s[m].string \in V
    BY <1>2, <1>3
  <2> HIDE DEF u
  <2> QED BY <1>3, <2>1, <2>2
<1>5. k \in Seq(V) /\ Len(k) = 1 /\ k[1] = r.string
  BY <1>2
<1> HIDE DEF h, k, u
<1>6. /\ l \in Seq(M) /\ Len(l) = Len(s) + 1 /\ l[1] = r
      /\ \A m \in 1..Len(s) : l[m + 1] = s[m]
  <2>1. /\ l \in Seq(M) /\ Len(l) = Len(h) + Len(s)
        /\ \A i \in 1..Len(h) + Len(s) : l[i] = IF i <= Len(h) THEN h[i] ELSE s[i - Len(h)]
    BY <1>1, ConcatProperties DEF M
  <2> HIDE DEF l
  <2>2. ASSUME NEW m \in 1..Len(s) PROVE l[m + 1] = s[m]
    <3>1. m + 1 \in 1..Len(h) + Len(s) /\ ~(m + 1 <= Len(h)) /\ m + 1 - Len(h) = m
      BY <1>1, <1>3
    <3> QED BY <2>1, <3>1
  <2>3. l[1] = r /\ Len(l) = Len(s) + 1
    BY <1>1, <1>3, <2>1
  <2> QED BY <2>1, <2>2, <2>3
<1>7. /\ v \in Seq(V) /\ Len(v) = Len(s) + 1 /\ v[1] = r.string
      /\ \A m \in 1..Len(s) : v[m + 1] = s[m].string
  <2>1. /\ v \in Seq(V) /\ Len(v) = Len(k) + Len(u)
        /\ \A i \in 1..Len(k) + Len(u) : v[i] = IF i <= Len(k) THEN k[i] ELSE u[i - Len(k)]
    <3>1. k \in Seq(V) /\ u \in Seq(V)
      BY <1>4, <1>5
    <3> QED BY <3>1, ConcatProperties
  <2> HIDE DEF v
  <2>2. ASSUME NEW m \in 1..Len(s) PROVE v[m + 1] = s[m].string
    <3>1. m + 1 \in 1..Len(k) + Len(u) /\ ~(m + 1 <= Len(k)) /\ m + 1 - Len(k) = m
      BY <1>3, <1>4, <1>5
    <3>2. v[m + 1] = u[m]
      BY <2>1, <3>1
    <3> QED BY <1>4, <3>2
  <2>3. v[1] = r.string /\ Len(v) = Len(s) + 1
    BY <1>3, <1>4, <1>5, <2>1
  <2> QED BY <2>1, <2>2, <2>3
<1> HIDE DEF l, v
<1>8. Strings(l) = v
  <2> DEFINE w == Strings(l)
  <2>1. w = [m \in 1..Len(s) + 1 |-> l[m].string]
    <3>1. DOMAIN l = 1..Len(l)
      BY <1>6
    <3> QED BY <1>6, <3>1 DEF Strings
  <2>2. ASSUME NEW m \in 1..Len(s) + 1 PROVE l[m].string = v[m] /\ v[m] \in V
    <3>1. CASE m = 1
      BY <1>2, <1>6, <1>7, <3>1
    <3>2. CASE m # 1
      <4>1. PICK i \in 1..Len(s) : m = i + 1
        <5>1. m - 1 \in 1..Len(s) /\ m = m - 1 + 1
          BY <1>3, <3>2
        <5> QED BY <5>1
      <4> QED BY <1>2, <1>3, <1>6, <1>7, <4>1
    <3> QED BY <3>1, <3>2
  <2> HIDE DEF w
  <2>3. w \in Seq(V) /\ Len(w) = Len(s) + 1 /\ \A m \in 1..Len(s) + 1 : w[m] = l[m].string
    BY <1>3, <2>1, <2>2
  <2>4. w = v
    BY <1>7, <2>2, <2>3, SeqEqual
  <2> QED BY <2>4 DEF w
<1> QED BY <1>4, <1>6, <1>8 DEF PutBefore, l, v, h, u, k, M, V

\* A message with what stands from p to e, before those that go on behind it
LEMMA SendsBefore ==
    ASSUME NEW A, NEW t \in Seq(A), NEW p \in 1..Len(t), NEW e \in p..Len(t),
           NEW s, Sends(s, A, t, e + 1),
           NEW r, r = [string |-> SubSeq(t, p, e), more |-> e + 1 <= Len(t)]
    PROVE  Sends(<<r>> \o s, A, t, p)
<1> DEFINE M == Message(A)
           l == <<r>> \o s
           rest == SubSeq(t, e + 1, Len(t))
<1>0. Len(t) \in Nat /\ p \in Nat /\ e \in Nat /\ \A i \in 1..Len(t) : t[i] \in A
  OBVIOUS
<1>1. /\ s \in Seq(M)
      /\ s = << >> <=> e + 1 > Len(t)
      /\ FlattenSeq(Strings(s)) = rest
      /\ \A m \in 1..Len(s) : s[m].more <=> m < Len(s)
  BY DEF Sends
<1>2. SubSeq(t, p, e) \in Seq(A) /\ r \in M
  <2>1. \A i \in p..e : t[i] \in A
    BY <1>0
  <2>2. SubSeq(t, p, e) \in Seq(A)
    BY <1>0, <2>1, SubSeqProperties
  <2> QED BY <2>2 DEF Message
<1>3. /\ l \in Seq(M) /\ Len(l) = Len(s) + 1 /\ l[1] = r
      /\ \A m \in 1..Len(s) : l[m + 1] = s[m]
      /\ Strings(s) \in Seq(Seq(A))
      /\ Strings(l) = <<r.string>> \o Strings(s)
  <2>1. PutBefore(A, r, s)
    BY <1>1, <1>2, MessageBefore
  <2> QED BY <2>1 DEF PutBefore
<1>4. r.string = SubSeq(t, p, e) /\ (r.more <=> e + 1 <= Len(t))
  OBVIOUS
<1> HIDE DEF l, M
<1>5. FlattenSeq(Strings(l)) = SubSeq(t, p, Len(t))
  <2>1. FlattenSeq(<<SubSeq(t, p, e)>> \o Strings(s)) = SubSeq(t, p, e) \o rest
    <3> DEFINE x == SubSeq(t, p, e)
               y == Strings(s)
    <3>1. x \in Seq(A) /\ y \in Seq(Seq(A)) /\ FlattenSeq(y) = rest
      BY <1>1, <1>2, <1>3
    <3> HIDE DEF x, y, rest
    <3>2. FlattenSeq(<<x>> \o y) = x \o FlattenSeq(y)
      BY <3>1, FlattenBefore
    <3> QED BY <3>1, <3>2 DEF x, y
  <2>2. SubSeq(t, p, e) \o rest = SubSeq(t, p, Len(t))
    <3>1. p \in 1..Len(t) + 1 /\ e \in p - 1..Len(t) /\ Len(t) \in e..Len(t)
      BY <1>0
    <3> QED BY <3>1, ConcatAdjacentSubSeq
  <2> QED BY <1>3, <1>4, <2>1, <2>2
<1>6. Len(s) \in Nat /\ (s = << >> <=> Len(s) = 0)
  BY <1>1, EmptySeq
<1>7. l # << >> /\ ~(p > Len(t))
  <2>1. Len(l) # 0
    BY <1>3, <1>6
  <2> QED BY <1>0, <2>1
<1>8. ASSUME NEW m \in 1..Len(l) PROVE l[m].more <=> m < Len(l)
  <2>1. CASE m = 1
    <3>1. l[m].more <=> e + 1 <= Len(t)
      BY <1>3, <1>4, <2>1
    <3>2. e + 1 <= Len(t) <=> Len(s) # 0
      BY <1>0, <1>1, <1>6
    <3> QED BY <1>3, <1>6, <2>1, <3>1, <3>2
  <2>2. CASE m # 1
    <3>1. PICK i \in 1..Len(s) : m = i + 1
      <4>1. m - 1 \in 1..Len(s) /\ m = m - 1 + 1
        BY <1>3, <1>6, <2>2
      <4> QED BY <4>1
    <3>2. l[m] = s[i]
      BY <1>3, <3>1
    <3>3. s[i].more <=> i < Len(s)
      BY <1>1
    <3>4. i < Len(s) <=> m < Len(l)
      <4>1. Len(l) = Len(s) + 1
        BY <1>3
      <4> QED BY <1>6, <3>1, <4>1
    <3> QED BY <3>2, <3>3, <3>4
  <2> QED BY <2>1, <2>2
<1> QED BY <1>3, <1>5, <1>7, <1>8 DEF Sends, l, M

\* A chunk ends size characters after p, or where the text ends.
LEMMA ChunkEnds ==
    ASSUME NEW A, NEW t \in Seq(A), NEW size \in Nat \ {0}, NEW p \in 1..Len(t)
    PROVE  \E e \in p..Len(t) :
              /\ Min({p + size - 1, Len(t)}) = e
              /\ Len(SubSeq(t, p, e)) = e - p + 1
<1>1. Len(t) \in Nat /\ p + size - 1 \in Int /\ p <= p + size - 1
  OBVIOUS
<1>2. PICK e \in p..Len(t) : Min({p + size - 1, Len(t)}) = e
  <2>1. Min({p + size - 1, Len(t)}) = IF p + size - 1 <= Len(t) THEN p + size - 1 ELSE Len(t)
    BY <1>1, Lesser
  <2>2. (IF p + size - 1 <= Len(t) THEN p + size - 1 ELSE Len(t)) \in p..Len(t)
    BY <1>1
  <2> QED BY <2>1, <2>2
<1>3. Len(SubSeq(t, p, e)) = e - p + 1
  <2>1. p \in Int /\ e \in Int /\ p <= e /\ \A i \in p..e : t[i] \in A
    BY <1>1
  <2> QED BY <2>1, SubSeqProperties
<1> QED BY <1>2, <1>3

\* The messages of a text, whatever their size, send it whole.
LEMMA ChunksSend ==
    ASSUME NEW A, NEW t \in Seq(A), NEW size \in Nat \ {0}
    PROVE  Sends(Chunks(t, size), A, t, 1)
<1> DEFINE L == Len(t)
           N == Len(t) + 1
           chunk(p) == SubSeq(t, p, Min({p + size - 1, Len(t)}))
           message(p) == [string |-> chunk(p), more |-> More(t, p, chunk(p), size)]
           Eq(f) == f = [p \in 1..Len(t) + 1 |->
                            IF p > Len(t) THEN << >>
                            ELSE <<message(p)>> \o f[p + Len(chunk(p))]]
           from == CHOOSE f : Eq(f)
           head == [p \in 1..L |-> <<message(p)>>]
           next == [p \in 1..L |-> p + Len(chunk(p))]
<1>0. L \in Nat /\ N = L + 1 /\ N \in Nat /\ L < N
  OBVIOUS
<1>1. ASSUME NEW p \in 1..L
      PROVE  \E e \in p..L : /\ p + Len(chunk(p)) = e + 1
                             /\ message(p) = [string |-> SubSeq(t, p, e), more |-> e + 1 <= L]
  <2>1. PICK e \in p..L : Min({p + size - 1, Len(t)}) = e /\ Len(SubSeq(t, p, e)) = e - p + 1
    BY ChunkEnds
  <2>2. chunk(p) = SubSeq(t, p, e)
    BY <2>1
  <2>3. p + (e - p + 1) = e + 1
    BY <1>0
  <2> HIDE DEF chunk
  <2>4. p + Len(chunk(p)) = e + 1
    BY <2>1, <2>2, <2>3
  <2>5. More(t, p, chunk(p), size) <=> e + 1 <= L
    BY <2>4 DEF More
  <2>6. message(p) = [string |-> SubSeq(t, p, e), more |-> e + 1 <= L]
    BY <2>2, <2>4 DEF More
  <2> QED BY <2>4, <2>6
<1>2. Chunks(t, size) = from[1]
  BY DEF Chunks
<1>3. \E f : Eq(f)
  <2>1. ASSUME NEW p \in 1..L PROVE next[p] \in p + 1..N
    <3>1. PICK e \in p..L : p + Len(chunk(p)) = e + 1
      BY <1>1
    <3>2. next[p] = e + 1
      BY <3>1
    <3> HIDE DEF next
    <3> QED BY <1>0, <3>2
  <2>2. \E f : PutsTogether(f, N, L, head, next)
    <3> HIDE DEF head, next, L, N
    <3> QED BY <1>0, <2>1, PuttingTogether
  <2>3. PICK f : PutsTogether(f, N, L, head, next)
    BY <2>2
  <2>4. ASSUME NEW p \in 1..N
        PROVE  f[p] = IF p > Len(t) THEN << >> ELSE <<message(p)>> \o f[p + Len(chunk(p))]
    <3>1. f[p] = IF p > L THEN << >> ELSE head[p] \o f[next[p]]
      <4> HIDE DEF head, next
      <4> QED BY <2>3 DEF PutsTogether
    <3>2. CASE p > L
      BY <3>1, <3>2
    <3>3. CASE ~(p > L)
      <4>1. p \in 1..L
        BY <1>0, <3>3
      <4>2. head[p] = <<message(p)>> /\ next[p] = p + Len(chunk(p))
        BY <4>1
      <4> HIDE DEF head, next, message, chunk
      <4> QED BY <3>1, <3>3, <4>2
    <3> QED BY <3>2, <3>3
  <2>5. f = [p \in 1..N |-> f[p]]
    <3> HIDE DEF head, next, N, L
    <3> QED BY <2>3 DEF PutsTogether
  <2>6. Eq(f)
    <3> HIDE DEF message, chunk
    <3> QED BY <2>4, <2>5
  <2> QED BY <2>6
<1>4. Eq(from)
  <2> HIDE DEF Eq
  <2> QED BY <1>3
<1> HIDE DEF from
<1>5. ASSUME NEW p \in 1..N
      PROVE  from[p] = IF p > L THEN << >> ELSE <<message(p)>> \o from[p + Len(chunk(p))]
  <2> HIDE DEF message, chunk
  <2> QED BY <1>4
<1> HIDE DEF message, chunk
<1> DEFINE Good == {p \in 0..N : p >= 1 => Sends(from[p], A, t, p)}
<1>6. ASSUME NEW p \in 0..N, \A q \in p + 1..N : q \in Good PROVE p \in Good
  <2>1. CASE p = 0
    BY <2>1
  <2>2. CASE p > L
    <3>1. from[p] = << >>
      <4>1. p \in 1..N
        BY <1>0, <2>2
      <4> QED BY <4>1, <1>5, <2>2
    <3>2. Sends(<< >>, A, t, p)
      <4>1. << >> \in Seq(Message(A)) /\ Len(<< >>) = 0
        BY EmptySeq
      <4>2. Strings(<< >>) = << >>
        BY DEF Strings
      <4>3. FlattenSeq(<< >>) = << >>
        BY DEF FlattenSeq
      <4>4. SubSeq(t, p, Len(t)) = << >>
        BY <1>0, <2>2, SubSeqEmpty
      <4> QED BY <2>2, <4>1, <4>2, <4>3, <4>4 DEF Sends
    <3> QED BY <3>1, <3>2
  <2>3. CASE p \in 1..L
    <3>1. PICK e \in p..L : /\ p + Len(chunk(p)) = e + 1
                            /\ message(p) = [string |-> SubSeq(t, p, e), more |-> e + 1 <= L]
      BY <1>1, <2>3
    <3>2. from[p] = <<message(p)>> \o from[e + 1]
      <4>1. p \in 1..N /\ ~(p > L)
        BY <1>0, <2>3
      <4> QED BY <1>5, <3>1, <4>1
    <3>3. e + 1 \in p + 1..N /\ e + 1 >= 1
      BY <1>0, <2>3
    <3>4. Sends(from[e + 1], A, t, e + 1)
      <4>1. e + 1 \in Good
        BY <1>6, <3>3
      <4> QED BY <3>3, <4>1
    <3>5. Sends(<<message(p)>> \o from[e + 1], A, t, p)
      <4> DEFINE r == message(p)
                 s == from[e + 1]
      <4>1. r = [string |-> SubSeq(t, p, e), more |-> e + 1 <= Len(t)] /\ Sends(s, A, t, e + 1)
        BY <3>1, <3>4
      <4> HIDE DEF r, s
      <4>2. Sends(<<r>> \o s, A, t, p)
        BY <2>3, <4>1, SendsBefore
      <4> QED BY <4>2 DEF r, s
    <3> QED BY <3>2, <3>5
  <2> QED BY <1>0, <2>1, <2>2, <2>3
<1>7. Sends(from[1], A, t, 1)
  <2>1. 0..N \subseteq Good
    <3> HIDE DEF Good, N
    <3> QED BY <1>0, <1>6, FromTheEnd
  <2>2. 1 \in 0..N
    BY <1>0
  <2> QED BY <2>1, <2>2
<1> QED BY <1>2, <1>7

\* A menu that leaves room for its terminator in the buffer arrives whole, in
\* messages of any size and whatever stands behind the buffer.
THEOREM MenuArrives == TextsSpec => []MenuTextArrives
<1>1. Given => MenuTextArrives
  <2> SUFFICES ASSUME Given, Len(menu) < BufferSize * ChunkSize, NEW behind \in Behind
               PROVE  LET messages == ShowMenu(menu, ChunkSize, behind)
                      IN  /\ FlattenSeq([m \in DOMAIN messages |-> messages[m].string]) = menu
                          /\ \A m \in DOMAIN messages : messages[m].more <=> m < Len(messages)
    BY DEF MenuTextArrives
  <2> DEFINE s == Chunks(menu, ChunkSize)
  <2>0. ShowMenu(menu, ChunkSize, behind) = s
    BY DEF ShowMenu, Copied
  <2>1. menu \in Seq(STRING) /\ ChunkSize \in Nat \ {0}
    BY TextsAssumption DEF Given
  <2>2. Sends(s, STRING, menu, 1)
    BY <2>1, ChunksSend
  <2> HIDE DEF s
  <2>3. /\ s \in Seq(Message(STRING))
        /\ FlattenSeq(Strings(s)) = SubSeq(menu, 1, Len(menu))
        /\ \A m \in 1..Len(s) : s[m].more <=> m < Len(s)
    BY <2>2 DEF Sends
  <2>4. DOMAIN s = 1..Len(s)
    BY <2>3
  <2>5. SubSeq(menu, 1, Len(menu)) = menu
    BY <2>1, SubSeqFull
  <2>6. FlattenSeq([m \in DOMAIN s |-> s[m].string]) = menu
    BY <2>3, <2>5 DEF Strings
  <2> QED BY <2>0, <2>3, <2>4, <2>6
<1> QED BY <1>1, TextsAreGiven, PTL

-----------------------------------------------------------------------------
(* The codes of a message.                                                 *)

\* What a message is written with: the characters of a text, and the codes
Written == Char \cup {Code[c] : c \in DOMAIN Code}

\* A code stands for a byte that is none of the characters of a text.
LEMMA CodesAreBytes ==
    /\ DOMAIN Code = {"1", "2", "3", "4", "n", "t"}
    /\ \A c \in DOMAIN Code : Code[c] \in Written /\ Code[c] \notin Char
    /\ "^" \in Char /\ Char \subseteq Written
<1>1. DOMAIN Code = {"1", "2", "3", "4", "n", "t"}
  BY DEF Code
<1>2. /\ Code["1"] = "code 1" /\ Code["2"] = "code 2" /\ Code["3"] = "code 3"
      /\ Code["4"] = "code 4" /\ Code["n"] = "code n" /\ Code["t"] = "code t"
  BY DEF Code
<1>3. ASSUME NEW c \in DOMAIN Code PROVE Code[c] \notin Char
  <2>1. Code[c] \in {"code 1", "code 2", "code 3", "code 4", "code n", "code t"}
    BY <1>1, <1>2
  <2> QED BY <2>1 DEF Char, Quote, Slash, End, Blank, Newline, NumberChar, WordChar, Digit, Letter
<1>4. "^" \in Char
  BY DEF Char
<1> QED BY <1>1, <1>3, <1>4 DEF Written

\* There is no caret at p, or one that nothing follows.
Plain(text, p) == text[p] # "^" \/ p = Len(text)

\* What stands for the text at p, and where the text goes on behind that
HeadAt(text, p) ==
    IF Plain(text, p) THEN <<text[p]>>
    ELSE IF text[p + 1] \in DOMAIN Code THEN <<Code[text[p + 1]]>>
    ELSE <<"^", text[p + 1]>>
NextAt(text, p) == IF Plain(text, p) THEN p + 1 ELSE p + 2

\* rest has what the text is replaced by from each position on.
Replaces(text, rest) ==
    /\ rest \in [1..Len(text) + 1 -> Seq(Written)]
    /\ Replaced(text) = rest[1]
    /\ rest[Len(text) + 1] = << >>
    /\ \A p \in 1..Len(text) : rest[p] = HeadAt(text, p) \o rest[NextAt(text, p)]

\* What stands for the text at p has one character or two.
LEMMA HeadsAt ==
    ASSUME NEW text \in Seq(Char), NEW p \in 1..Len(text)
    PROVE  HeadAt(text, p) \in Seq(Written) /\ NextAt(text, p) \in p + 1..Len(text) + 1
<1>1. Len(text) \in Nat /\ text[p] \in Written
  BY CodesAreBytes
<1>2. CASE Plain(text, p)
  BY <1>1, <1>2 DEF HeadAt, NextAt
<1>3. CASE ~Plain(text, p)
  <2>1. p + 1 \in 1..Len(text) /\ p + 2 \in p + 1..Len(text) + 1
    BY <1>1, <1>3 DEF Plain
  <2>2. text[p + 1] \in Written /\ "^" \in Written
    BY <2>1, CodesAreBytes
  <2>3. CASE text[p + 1] \in DOMAIN Code
    <3>1. Code[text[p + 1]] \in Written
      BY <2>3, CodesAreBytes
    <3> DEFINE b == Code[text[p + 1]]
    <3>2. HeadAt(text, p) = <<b>>
      BY <1>3, <2>3 DEF HeadAt
    <3> HIDE DEF b
    <3>3. <<b>> \in Seq(Written)
      BY <3>1 DEF b
    <3> QED BY <1>3, <2>1, <3>2, <3>3 DEF NextAt
  <2>4. CASE text[p + 1] \notin DOMAIN Code
    <3> DEFINE b == text[p + 1]
    <3>1. HeadAt(text, p) = <<"^", b>>
      BY <1>3, <2>4 DEF HeadAt
    <3>2. b \in Written
      BY <2>2
    <3> HIDE DEF b
    <3>3. <<"^", b>> \in Seq(Written)
      BY <2>2, <3>2
    <3> QED BY <1>3, <2>1, <3>1, <3>3 DEF NextAt
  <2> QED BY <2>3, <2>4
<1> QED BY <1>2, <1>3

\* Replaced goes through a text so.
LEMMA ReplacedGoesOn ==
    ASSUME NEW text \in Seq(Char)
    PROVE  \E rest : Replaces(text, rest)
<1> DEFINE L == Len(text)
           N == Len(text) + 1
           Eq(f) == f = [p \in 1..Len(text) + 1 |->
                            IF p > Len(text) THEN << >>
                            ELSE IF text[p] # "^" \/ p = Len(text) THEN <<text[p]>> \o f[p + 1]
                            ELSE IF text[p + 1] \in DOMAIN Code
                            THEN <<Code[text[p + 1]]>> \o f[p + 2]
                            ELSE <<"^", text[p + 1]>> \o f[p + 2]]
           from == CHOOSE f : Eq(f)
           head == [p \in 1..L |-> HeadAt(text, p)]
           next == [p \in 1..L |-> NextAt(text, p)]
           Turn(f, p) == IF p > L THEN << >> ELSE HeadAt(text, p) \o f[NextAt(text, p)]
<1>0. L \in Nat /\ N = L + 1 /\ N \in Nat /\ L < N
  OBVIOUS
<1>1. \A f, p : Turn(f, p) = IF p > Len(text) THEN << >>
                             ELSE IF text[p] # "^" \/ p = Len(text) THEN <<text[p]>> \o f[p + 1]
                             ELSE IF text[p + 1] \in DOMAIN Code
                             THEN <<Code[text[p + 1]]>> \o f[p + 2]
                             ELSE <<"^", text[p + 1]>> \o f[p + 2]
  BY DEF HeadAt, NextAt, Plain
<1>2. Replaced(text) = from[1]
  BY DEF Replaced
<1>3. \E f : Eq(f)
  <2>1. ASSUME NEW p \in 1..L PROVE next[p] \in p + 1..N
    BY HeadsAt
  <2>2. \E f : PutsTogether(f, N, L, head, next)
    <3> HIDE DEF head, next, L, N
    <3> QED BY <1>0, <2>1, PuttingTogether
  <2>3. PICK f : PutsTogether(f, N, L, head, next)
    BY <2>2
  <2>4. ASSUME NEW p \in 1..N PROVE f[p] = Turn(f, p)
    <3>1. f[p] = IF p > L THEN << >> ELSE head[p] \o f[next[p]]
      <4> HIDE DEF head, next
      <4> QED BY <2>3 DEF PutsTogether
    <3>2. CASE p > L
      BY <3>1, <3>2
    <3>3. CASE ~(p > L)
      <4>1. p \in 1..L
        BY <1>0, <3>3
      <4>2. head[p] = HeadAt(text, p) /\ next[p] = NextAt(text, p)
        BY <4>1
      <4> HIDE DEF head, next
      <4> QED BY <3>1, <3>3, <4>2
    <3> QED BY <3>2, <3>3
  <2>5. f = [p \in 1..N |-> f[p]]
    <3> HIDE DEF head, next, N, L
    <3> QED BY <2>3 DEF PutsTogether
  <2>6. f = [p \in 1..N |-> Turn(f, p)]
    <3> HIDE DEF Turn
    <3> QED BY <2>4, <2>5
  <2>7. Eq(f)
    <3> HIDE DEF Turn
    <3> QED BY <1>1, <2>6, Zenon
  <2> QED BY <2>7
<1>4. Eq(from)
  <2> HIDE DEF Eq
  <2> QED BY <1>3
<1> HIDE DEF from
<1>5. from = [p \in 1..N |-> Turn(from, p)]
  <2> HIDE DEF Turn
  <2> QED BY <1>1, <1>4, Zenon
<1>6. ASSUME NEW p \in 1..N PROVE from[p] = Turn(from, p)
  <2> HIDE DEF Turn
  <2> QED BY <1>5, Zenon
<1>7. ASSUME NEW p \in 1..L
      PROVE  p \in 1..N /\ from[p] = HeadAt(text, p) \o from[NextAt(text, p)]
  <2>1. p \in 1..N /\ ~(p > L)
    BY <1>0
  <2> QED BY <1>6, <2>1
<1>8. from[N] = << >>
  <2>1. N \in 1..N /\ N > L
    BY <1>0
  <2> QED BY <1>6, <2>1
<1> DEFINE Good == {p \in 0..N : p >= 1 => from[p] \in Seq(Written)}
<1>9. ASSUME NEW p \in 0..N, \A q \in p + 1..N : q \in Good PROVE p \in Good
  <2>1. CASE p = 0
    BY <2>1
  <2>2. CASE p = N
    BY <1>8, <2>2, EmptySeq
  <2>3. CASE p \in 1..L
    <3>1. NextAt(text, p) \in p + 1..N /\ HeadAt(text, p) \in Seq(Written)
      BY <2>3, HeadsAt
    <3>2. from[NextAt(text, p)] \in Seq(Written)
      <4>1. NextAt(text, p) \in Good /\ NextAt(text, p) >= 1
        BY <1>0, <1>9, <2>3, <3>1
      <4> QED BY <4>1
    <3>3. HeadAt(text, p) \o from[NextAt(text, p)] \in Seq(Written)
      BY <3>1, <3>2, ConcatProperties
    <3>4. from[p] \in Seq(Written)
      BY <1>7, <2>3, <3>3
    <3> QED BY <3>4
  <2> QED BY <1>0, <2>1, <2>2, <2>3
<1>10. 0..N \subseteq Good
  <2> HIDE DEF Good, N
  <2> QED BY <1>0, <1>9, FromTheEnd
<1>11. from \in [1..N -> Seq(Written)]
  <2>1. \A p \in 1..N : from[p] \in Seq(Written)
    BY <1>0, <1>10
  <2>2. from = [p \in 1..N |-> from[p]]
    BY <1>5, <1>6
  <2> HIDE DEF N
  <2> QED BY <2>1, <2>2
<1> QED BY <1>2, <1>7, <1>8, <1>11 DEF Replaces

\* The states of the loop of ParseLinesAndColors over a text of length L
LoopState(L) == [buffer : [1..L -> Written], i : 1..L + 1, offs : Nat]

\* In the state s of the loop, P is what the text up to s.i is replaced by.  The
\* buffer has P in place, save carets after a code, and the text from s.i on.
Parsed(text, rest, s, P) ==
    /\ s \in LoopState(Len(text))
    /\ P \in Seq(Written)
    /\ Len(P) = s.i - 1 - s.offs
    /\ Replaced(text) = P \o rest[s.i]
    /\ \A q \in s.i..Len(text) : s.buffer[q] = text[q]
    /\ \A q \in 1..Len(P) : s.buffer[q] # P[q] =>
          P[q] = "^" /\ \E r \in 1..q - 1 : P[r] \notin Char
    /\ s.offs > 0 => \E r \in 1..Len(P) : P[r] \notin Char

\* A turn of the loop, by the character that is written and where.
Turns(s, c, at, i, offs) ==
    ParseStep(s) = [buffer |-> [s.buffer EXCEPT ![at] = c], i |-> i, offs |-> offs]

\* What a turn of the loop does, by what stands at its position.
LEMMA ParseTurns ==
    ASSUME NEW L \in Nat, NEW s \in LoopState(L), s.i <= L
    PROVE  /\ Plain(s.buffer, s.i) => Turns(s, s.buffer[s.i], s.i - s.offs, s.i + 1, s.offs)
           /\ ~Plain(s.buffer, s.i) =>
                 /\ s.i + 1 \in 1..L
                 /\ s.buffer[s.i + 1] \in DOMAIN Code =>
                       Turns(s, Code[s.buffer[s.i + 1]], s.i - s.offs, s.i + 2, s.offs + 1)
                 /\ s.buffer[s.i + 1] \notin DOMAIN Code =>
                       Turns(s, s.buffer[s.i + 1], s.i + 1 - s.offs, s.i + 2, s.offs)
<1> DEFINE escaped == s.buffer[s.i] = "^" /\ s.i # Len(s.buffer)
           i       == IF escaped THEN s.i + 1 ELSE s.i
           c       == s.buffer[i]
           code    == escaped /\ c \in DOMAIN Code
           offs    == IF code THEN s.offs + 1 ELSE s.offs
           by      == IF code THEN Code[c] ELSE c
           at      == i - offs
           on      == i + 1
<1>1. /\ s.buffer \in [1..L -> Written] /\ s.i \in 1..L /\ s.offs \in Nat
      /\ Len(s.buffer) = L
  BY DEF LoopState
<1>2. Turns(s, by, at, on, offs)
  BY DEF ParseStep, Turns
<1>3. Plain(s.buffer, s.i) <=> ~escaped
  BY DEF Plain
<1>4. CASE Plain(s.buffer, s.i)
  <2>1. ~escaped
    BY <1>3, <1>4
  <2>2. i = s.i /\ ~code /\ on = s.i + 1
    BY <2>1
  <2>3. c = s.buffer[s.i] /\ offs = s.offs
    BY <2>2
  <2>4. by = s.buffer[s.i]
    BY <2>2, <2>3
  <2>5. at = s.i - s.offs
    BY <2>2, <2>3
  <2> HIDE DEF escaped, i, c, code, offs, by, at, on
  <2>6. Turns(s, s.buffer[s.i], s.i - s.offs, s.i + 1, s.offs)
    BY <1>2, <2>2, <2>3, <2>4, <2>5, Zenon
  <2> QED BY <1>4, <2>6
<1>5. CASE ~Plain(s.buffer, s.i)
  <2>1. escaped /\ s.i + 1 \in 1..L
    BY <1>1, <1>3, <1>5
  <2>2. i = s.i + 1
    BY <2>1
  <2>3. c = s.buffer[s.i + 1]
    BY <2>2
  <2>4. on = s.i + 2 /\ s.i + 1 - (s.offs + 1) = s.i - s.offs
    <3> DEFINE k == s.i
               o == s.offs
    <3>1. k \in Nat /\ o \in Nat /\ i = k + 1 /\ on = i + 1
      BY <1>1, <2>2
    <3> HIDE DEF k, o, i, on
    <3>2. on = k + 2 /\ k + 1 - (o + 1) = k - o
      BY <3>1
    <3> QED BY <3>2 DEF k, o
  <2>5. CASE s.buffer[s.i + 1] \in DOMAIN Code
    <3> HIDE DEF c, i, escaped
    <3>1. offs = s.offs + 1 /\ by = Code[c]
      BY <2>1, <2>3, <2>5
    <3> HIDE DEF code, offs, by
    <3>2. at = s.i - s.offs
      BY <1>1, <2>2, <2>4, <3>1
    <3> HIDE DEF at, on
    <3>3. Turns(s, Code[s.buffer[s.i + 1]], s.i - s.offs, s.i + 2, s.offs + 1)
      BY <1>2, <2>3, <2>4, <3>1, <3>2, Zenon
    <3> QED BY <1>5, <2>1, <2>5, <3>3
  <2>6. CASE s.buffer[s.i + 1] \notin DOMAIN Code
    <3> HIDE DEF c, i, escaped
    <3>1. offs = s.offs /\ by = c
      BY <2>1, <2>3, <2>6
    <3> HIDE DEF code, offs, by
    <3>2. at = s.i + 1 - s.offs
      BY <1>1, <2>2, <3>1
    <3> HIDE DEF at, on
    <3>3. Turns(s, s.buffer[s.i + 1], s.i + 1 - s.offs, s.i + 2, s.offs)
      BY <1>2, <2>3, <2>4, <3>1, <3>2, Zenon
    <3> QED BY <1>5, <2>1, <2>6, <3>3
  <2> QED BY <2>5, <2>6
<1> QED BY <1>4, <1>5

\* A turn leaves a state of the loop, further on.
LEMMA ParseStepType ==
    ASSUME NEW L \in Nat, NEW s \in LoopState(L), s.i <= L
    PROVE  ParseStep(s) \in LoopState(L) /\ ParseStep(s).i > s.i
<1>1. s.buffer \in [1..L -> Written] /\ s.i \in 1..L /\ s.offs \in Nat
  BY DEF LoopState
<1>2. ASSUME NEW c \in Written, NEW at, NEW i \in s.i + 1..L + 1, NEW offs \in Nat,
             Turns(s, c, at, i, offs)
      PROVE  ParseStep(s) \in LoopState(L) /\ ParseStep(s).i > s.i
  <2>1. i \in 1..L + 1 /\ i > s.i
    BY <1>1, <1>2
  <2>2. [s.buffer EXCEPT ![at] = c] \in [1..L -> Written]
    BY <1>1, <1>2
  <2> QED BY <1>2, <2>1, <2>2 DEF Turns, LoopState
<1>3. CASE Plain(s.buffer, s.i)
  <2>1. Turns(s, s.buffer[s.i], s.i - s.offs, s.i + 1, s.offs)
    BY <1>3, ParseTurns
  <2>2. s.buffer[s.i] \in Written /\ s.i + 1 \in s.i + 1..L + 1
    BY <1>1
  <2> QED BY <1>1, <1>2, <2>1, <2>2
<1>4. CASE ~Plain(s.buffer, s.i)
  <2>1. s.i + 1 \in 1..L
    BY <1>4, ParseTurns
  <2>2. s.buffer[s.i + 1] \in Written /\ s.i + 2 \in s.i + 1..L + 1 /\ s.offs + 1 \in Nat
    BY <1>1, <2>1
  <2>3. CASE s.buffer[s.i + 1] \in DOMAIN Code
    <3>1. Turns(s, Code[s.buffer[s.i + 1]], s.i - s.offs, s.i + 2, s.offs + 1)
      BY <1>4, <2>3, ParseTurns
    <3>2. Code[s.buffer[s.i + 1]] \in Written
      BY <2>3, CodesAreBytes
    <3> QED BY <1>2, <2>2, <3>1, <3>2
  <2>4. CASE s.buffer[s.i + 1] \notin DOMAIN Code
    <3>1. Turns(s, s.buffer[s.i + 1], s.i + 1 - s.offs, s.i + 2, s.offs)
      BY <1>4, <2>4, ParseTurns
    <3> QED BY <1>1, <1>2, <2>2, <3>1
  <2> QED BY <2>3, <2>4
<1> QED BY <1>3, <1>4

\* One character is written behind P, and any code that is counted for it is it.
LEMMA OneIsWritten ==
    ASSUME NEW text \in Seq(Char), NEW rest, NEW s, NEW P, Parsed(text, rest, s, P),
           s.i <= Len(text), NEW c \in Written, NEW i \in s.i + 1..Len(text) + 1,
           NEW offs \in Nat, i - 1 - offs = s.i - s.offs, offs = s.offs \/ c \notin Char,
           Turns(s, c, s.i - s.offs, i, offs),
           Replaced(text) = (P \o <<c>>) \o rest[i]
    PROVE  Parsed(text, rest, ParseStep(s), P \o <<c>>)
<1> DEFINE L == Len(text)
           w == Len(P)
           Q == P \o <<c>>
           t == ParseStep(s)
           b == s.buffer
           d == t.buffer
<1>1. /\ L \in Nat /\ s \in LoopState(L) /\ P \in Seq(Written)
      /\ w = s.i - 1 - s.offs
      /\ \A q \in s.i..L : b[q] = text[q]
      /\ \A q \in 1..w : b[q] # P[q] => P[q] = "^" /\ \E r \in 1..q - 1 : P[r] \notin Char
      /\ s.offs > 0 => \E r \in 1..w : P[r] \notin Char
  BY DEF Parsed
<1>2. b \in [1..L -> Written] /\ s.i \in 1..L + 1 /\ s.offs \in Nat /\ w \in Nat
  BY <1>1 DEF LoopState
<1>3. w + 1 \in 1..L /\ s.i - s.offs = w + 1 /\ w + 1 <= s.i
  <2> DEFINE k == s.i
             o == s.offs
  <2>1. w = k - 1 - o /\ k <= L /\ L \in Nat
    BY <1>1
  <2>2. k \in Nat /\ o \in Nat /\ w \in Nat
    BY <1>2
  <2> HIDE DEF w, L, k, o
  <2>3. k - o = w + 1 /\ w + 1 <= k /\ w + 1 \in 1..L
    BY <2>1, <2>2
  <2> QED BY <2>3 DEF k, o
<1>4. /\ t.buffer = [b EXCEPT ![w + 1] = c] /\ t.i = i /\ t.offs = offs
  BY <1>3 DEF Turns
<1>5. t \in LoopState(L)
  BY <1>1, ParseStepType
<1> HIDE DEF t, b
<1>6. \A q \in 1..L : d[q] = IF q = w + 1 THEN c ELSE b[q]
  BY <1>2, <1>3, <1>4
<1> HIDE DEF d
<1>7. /\ Q \in Seq(Written) /\ Len(Q) = w + 1 /\ Q[w + 1] = c
      /\ \A q \in 1..w : Q[q] = P[q]
  <2> DEFINE h == <<c>>
  <2>1. h \in Seq(Written) /\ Len(h) = 1 /\ h[1] = c
    OBVIOUS
  <2> HIDE DEF h
  <2>2. /\ P \o h \in Seq(Written) /\ Len(P \o h) = Len(P) + Len(h)
        /\ \A q \in 1..Len(P) + Len(h) :
              (P \o h)[q] = IF q <= Len(P) THEN P[q] ELSE h[q - Len(P)]
    <3>1. P \in Seq(Written) /\ h \in Seq(Written)
      BY <1>1, <2>1
    <3> QED BY <3>1, ConcatProperties
  <2>3. Q = P \o h
    BY DEF h
  <2> HIDE DEF Q
  <2>4. Q[w + 1] = c
    <3>1. w + 1 \in 1..Len(P) + Len(h) /\ ~(w + 1 <= Len(P)) /\ w + 1 - Len(P) = 1
      BY <1>2, <2>1
    <3> QED BY <2>1, <2>2, <2>3, <3>1
  <2>5. ASSUME NEW q \in 1..w PROVE Q[q] = P[q]
    <3>1. q \in 1..Len(P) + Len(h) /\ q <= Len(P)
      BY <1>2, <2>1
    <3> QED BY <2>2, <2>3, <3>1
  <2> QED BY <2>1, <2>2, <2>3, <2>4, <2>5
<1> HIDE DEF Q
<1>8. Len(Q) = t.i - 1 - t.offs
  BY <1>3, <1>4, <1>7
<1>9. ASSUME NEW q \in t.i..L PROVE d[q] = text[q]
  <2>1. q \in s.i..L /\ q \in 1..L /\ q # w + 1
    BY <1>2, <1>3, <1>4
  <2> QED BY <1>1, <1>6, <2>1
<1>10. ASSUME NEW q \in 1..w + 1, d[q] # Q[q]
       PROVE  Q[q] = "^" /\ \E r \in 1..q - 1 : Q[r] \notin Char
  <2>1. q # w + 1
    BY <1>3, <1>6, <1>7, <1>10
  <2>2. q \in 1..w /\ q \in 1..L
    BY <1>2, <1>3, <2>1
  <2>3. b[q] # P[q] /\ Q[q] = P[q]
    BY <1>6, <1>7, <1>10, <2>1, <2>2
  <2>4. PICK r \in 1..q - 1 : P[r] \notin Char
    BY <1>1, <2>2, <2>3
  <2>5. r \in 1..w
    BY <1>2, <2>2
  <2>6. Q[r] \notin Char
    BY <1>7, <2>4, <2>5
  <2>7. Q[q] = "^"
    BY <1>1, <2>2, <2>3
  <2> QED BY <2>6, <2>7
<1>11. ASSUME t.offs > 0 PROVE \E r \in 1..w + 1 : Q[r] \notin Char
  <2>1. CASE c \notin Char
    <3>1. w + 1 \in 1..w + 1 /\ Q[w + 1] \notin Char
      BY <1>2, <1>7, <2>1
    <3> QED BY <3>1
  <2>2. CASE offs = s.offs
    <3>1. PICK r \in 1..w : P[r] \notin Char
      BY <1>1, <1>4, <1>11, <2>2
    <3>2. r \in 1..w + 1 /\ Q[r] \notin Char
      BY <1>2, <1>7, <3>1
    <3> QED BY <3>2
  <2> QED BY <2>1, <2>2
<1>12. Replaced(text) = Q \o rest[t.i]
  BY <1>4 DEF Q
<1>13. Parsed(text, rest, t, Q)
  BY <1>5, <1>7, <1>8, <1>9, <1>10, <1>11, <1>12 DEF Parsed, d
<1> QED BY <1>13 DEF t, Q

\* A caret that is left where it is, and the character after it behind P
LEMMA TwoAreWritten ==
    ASSUME NEW text \in Seq(Char), NEW rest, NEW s, NEW P, Parsed(text, rest, s, P),
           s.i + 1 <= Len(text), NEW c \in Written, text[s.i] = "^",
           Turns(s, c, s.i + 1 - s.offs, s.i + 2, s.offs),
           Replaced(text) = (P \o <<"^", c>>) \o rest[s.i + 2]
    PROVE  Parsed(text, rest, ParseStep(s), P \o <<"^", c>>)
<1> DEFINE L == Len(text)
           w == Len(P)
           Q == P \o <<"^", c>>
           t == ParseStep(s)
           b == s.buffer
           d == t.buffer
<1>1. /\ L \in Nat /\ s \in LoopState(L) /\ P \in Seq(Written)
      /\ w = s.i - 1 - s.offs
      /\ \A q \in s.i..L : b[q] = text[q]
      /\ \A q \in 1..w : b[q] # P[q] => P[q] = "^" /\ \E r \in 1..q - 1 : P[r] \notin Char
      /\ s.offs > 0 => \E r \in 1..w : P[r] \notin Char
  BY DEF Parsed
<1>2. b \in [1..L -> Written] /\ s.i \in 1..L + 1 /\ s.offs \in Nat /\ w \in Nat
  BY <1>1 DEF LoopState
<1>3. /\ w + 1 \in 1..L /\ w + 2 \in 1..L /\ s.i + 1 - s.offs = w + 2 /\ w + 1 <= s.i
      /\ s.offs = 0 => w + 1 = s.i
  <2> DEFINE k == s.i
             o == s.offs
  <2>1. w = k - 1 - o /\ k + 1 <= L /\ L \in Nat
    BY <1>1
  <2>2. k \in Nat /\ o \in Nat /\ w \in Nat
    BY <1>2
  <2> HIDE DEF w, L, k, o
  <2>3. w + 1 = k - o /\ w + 2 = k + 1 - o /\ w + 1 <= k /\ w + 2 <= L
    BY <2>1, <2>2
  <2>4. w + 1 \in 1..L /\ w + 2 \in 1..L /\ (o = 0 => w + 1 = k)
    BY <2>1, <2>2, <2>3
  <2> QED BY <2>3, <2>4 DEF k, o
<1>4. /\ t.buffer = [b EXCEPT ![w + 2] = c] /\ t.i = s.i + 2 /\ t.offs = s.offs
  BY <1>3 DEF Turns
<1>5. t \in LoopState(L)
  <2>1. s.i <= L
    BY <1>1, <1>2
  <2> QED BY <1>1, <2>1, ParseStepType
<1> HIDE DEF t, b
<1>6. \A q \in 1..L : d[q] = IF q = w + 2 THEN c ELSE b[q]
  BY <1>2, <1>3, <1>4
<1> HIDE DEF d
<1>7. /\ Q \in Seq(Written) /\ Len(Q) = w + 2 /\ Q[w + 1] = "^" /\ Q[w + 2] = c
      /\ \A q \in 1..w : Q[q] = P[q]
  <2> DEFINE h == <<"^", c>>
  <2>1. h \in Seq(Written) /\ Len(h) = 2 /\ h[1] = "^" /\ h[2] = c
    BY CodesAreBytes
  <2> HIDE DEF h
  <2>2. /\ P \o h \in Seq(Written) /\ Len(P \o h) = Len(P) + Len(h)
        /\ \A q \in 1..Len(P) + Len(h) :
              (P \o h)[q] = IF q <= Len(P) THEN P[q] ELSE h[q - Len(P)]
    <3>1. P \in Seq(Written) /\ h \in Seq(Written)
      BY <1>1, <2>1
    <3> QED BY <3>1, ConcatProperties
  <2>3. Q = P \o h
    BY DEF h
  <2> HIDE DEF Q
  <2>4. Q[w + 1] = "^"
    <3>1. w + 1 \in 1..Len(P) + Len(h) /\ ~(w + 1 <= Len(P)) /\ w + 1 - Len(P) = 1
      BY <1>2, <2>1
    <3> QED BY <2>1, <2>2, <2>3, <3>1
  <2>5. Q[w + 2] = c
    <3>1. w + 2 \in 1..Len(P) + Len(h) /\ ~(w + 2 <= Len(P)) /\ w + 2 - Len(P) = 2
      BY <1>2, <2>1
    <3> QED BY <2>1, <2>2, <2>3, <3>1
  <2>6. ASSUME NEW q \in 1..w PROVE Q[q] = P[q]
    <3>1. q \in 1..Len(P) + Len(h) /\ q <= Len(P)
      BY <1>2, <2>1
    <3> QED BY <2>2, <2>3, <3>1
  <2> QED BY <2>1, <2>2, <2>3, <2>4, <2>5, <2>6
<1> HIDE DEF Q
<1>8. Len(Q) = t.i - 1 - t.offs
  <2> DEFINE k == s.i
             o == s.offs
  <2>1. w = k - 1 - o /\ Len(Q) = w + 2 /\ t.i = k + 2 /\ t.offs = o
    BY <1>1, <1>4, <1>7
  <2>2. w \in Nat /\ k \in Nat /\ o \in Nat
    BY <1>2
  <2> HIDE DEF w, k, o
  <2> QED BY <2>1, <2>2
<1>9. ASSUME NEW q \in t.i..L PROVE d[q] = text[q]
  <2>1. q \in s.i..L /\ q \in 1..L /\ q # w + 2
    BY <1>2, <1>3, <1>4
  <2> QED BY <1>1, <1>6, <2>1
<1>10. ASSUME NEW r \in 1..w, P[r] \notin Char
       PROVE  r \in 1..w + 2 /\ Q[r] \notin Char
  BY <1>2, <1>7, <1>10
<1>11. ASSUME NEW q \in 1..w + 2, d[q] # Q[q]
       PROVE  Q[q] = "^" /\ \E r \in 1..q - 1 : Q[r] \notin Char
  <2>1. q # w + 2
    BY <1>3, <1>6, <1>7, <1>11
  <2>2. CASE q = w + 1
    <3>1. s.offs > 0
      <4> SUFFICES ASSUME s.offs = 0 PROVE FALSE
        BY <1>2
      <4>1. q = s.i /\ q \in s.i..L /\ q \in 1..L
        BY <1>3, <2>2
      <4>2. d[q] = "^"
        BY <1>1, <1>6, <2>1, <4>1
      <4> QED BY <1>7, <1>11, <2>2, <4>2
    <3>2. PICK r \in 1..w : P[r] \notin Char
      BY <1>1, <3>1
    <3>3. r \in 1..q - 1 /\ Q[r] \notin Char
      BY <1>2, <1>10, <2>2, <3>2
    <3> QED BY <1>7, <2>2, <3>3
  <2>3. CASE q # w + 1
    <3>1. q \in 1..w /\ q \in 1..L
      <4> HIDE DEF w, L
      <4>1. q \in 1..w
        BY <1>2, <2>1, <2>3
      <4> QED BY <1>1, <1>2, <1>3, <4>1
    <3>2. b[q] # P[q] /\ Q[q] = P[q]
      BY <1>6, <1>7, <1>11, <2>1, <3>1
    <3>3. PICK r \in 1..q - 1 : P[r] \notin Char
      BY <1>1, <3>1, <3>2
    <3>4. r \in 1..w
      BY <1>2, <3>1
    <3>5. Q[r] \notin Char
      BY <1>10, <3>3, <3>4
    <3>6. Q[q] = "^"
      BY <1>1, <3>1, <3>2
    <3> QED BY <3>5, <3>6
  <2> QED BY <2>2, <2>3
<1>12. ASSUME t.offs > 0 PROVE \E r \in 1..w + 2 : Q[r] \notin Char
  <2>1. PICK r \in 1..w : P[r] \notin Char
    BY <1>1, <1>4, <1>12
  <2> QED BY <1>10, <2>1
<1>13. Replaced(text) = Q \o rest[t.i]
  BY <1>4 DEF Q
<1>14. Parsed(text, rest, t, Q)
  BY <1>5, <1>7, <1>8, <1>9, <1>11, <1>12, <1>13 DEF Parsed, d
<1> QED BY <1>14 DEF t, Q

\* A turn of the loop goes on with what the text is replaced by.
LEMMA ParsesOn ==
    ASSUME NEW text \in Seq(Char), NEW rest, Replaces(text, rest),
           NEW s, NEW P, Parsed(text, rest, s, P), s.i <= Len(text)
    PROVE  \E Q : Parsed(text, rest, ParseStep(s), Q)
<1> DEFINE L == Len(text)
           k == s.i
           h == HeadAt(text, k)
           next == NextAt(text, k)
<1>1. /\ L \in Nat /\ s \in LoopState(L) /\ P \in Seq(Written)
      /\ Replaced(text) = P \o rest[k]
      /\ \A q \in k..L : s.buffer[q] = text[q]
  BY DEF Parsed
<1>2. s.buffer \in [1..L -> Written] /\ k \in 1..L /\ s.offs \in Nat /\ Len(s.buffer) = L
  BY <1>1 DEF LoopState
<1>3. h \in Seq(Written) /\ next \in k + 1..L + 1
  BY <1>2, HeadsAt
<1>4. Replaced(text) = (P \o h) \o rest[next]
  <2>1. rest[k] = h \o rest[next]
    BY <1>2 DEF Replaces
  <2>3. rest[next] \in Seq(Written)
    <3>1. rest \in [1..L + 1 -> Seq(Written)] /\ next \in 1..L + 1
      BY <1>2, <1>3 DEF Replaces
    <3> HIDE DEF next
    <3> QED BY <3>1
  <2> DEFINE z == rest[next]
  <2> HIDE DEF h, z
  <2>2. (P \o h) \o z = P \o (h \o z)
    <3>1. P \in Seq(Written) /\ h \in Seq(Written) /\ z \in Seq(Written)
      BY <1>1, <1>3, <2>3 DEF z
    <3> QED BY <3>1, ConcatAssociative, SMTT(30)
  <2> QED BY <1>1, <2>1, <2>2 DEF z
<1>5. s.buffer[k] = text[k] /\ text[k] \in Written
  <2>1. k \in k..L /\ k \in 1..L
    BY <1>1, <1>2
  <2>2. s.buffer[k] = text[k]
    BY <1>1, <2>1
  <2>3. text[k] \in Char
    BY <2>1
  <2> QED BY <2>2, <2>3, CodesAreBytes
<1>6. Plain(s.buffer, k) <=> Plain(text, k)
  BY <1>2, <1>5 DEF Plain
<1>7. CASE Plain(text, k)
  <2> DEFINE c == text[k]
             i == k + 1
             o == s.offs
  <2>1. Turns(s, c, k - o, i, o)
    BY <1>1, <1>2, <1>5, <1>6, <1>7, ParseTurns
  <2>2. h = <<c>> /\ next = i
    BY <1>7 DEF HeadAt, NextAt
  <2>3. c \in Written /\ i \in k + 1..L + 1 /\ o \in Nat /\ i - 1 - o = k - o
    BY <1>2, <1>5
  <2>4. Replaced(text) = (P \o <<c>>) \o rest[i]
    BY <1>4, <2>2
  <2> HIDE DEF c, i, h, next
  <2>5. Parsed(text, rest, ParseStep(s), P \o <<c>>)
    BY <2>1, <2>3, <2>4, OneIsWritten
  <2> QED BY <2>5
<1>8. CASE ~Plain(text, k)
  <2>1. k + 1 \in 1..L
    BY <1>1, <1>2, <1>6, <1>8, ParseTurns
  <2>2. s.buffer[k + 1] = text[k + 1] /\ text[k + 1] \in Char
    <3>1. k + 1 \in k..L
      BY <1>2, <2>1
    <3> QED BY <1>1, <2>1, <3>1
  <2>3. CASE text[k + 1] \in DOMAIN Code
    <3> DEFINE c == Code[text[k + 1]]
               i == k + 2
               o == s.offs + 1
    <3>1. Turns(s, c, k - s.offs, i, o)
      BY <1>1, <1>2, <1>6, <1>8, <2>2, <2>3, ParseTurns
    <3>2. h = <<c>> /\ next = i
      BY <1>8, <2>3 DEF HeadAt, NextAt
    <3>3. c \in Written /\ c \notin Char
      BY <2>3, CodesAreBytes
    <3>4. i \in k + 1..L + 1 /\ o \in Nat /\ i - 1 - o = k - s.offs
      <4>1. i \in k + 1..L + 1
        BY <1>2, <2>1
      <4>2. o \in Nat /\ i - 1 - o = k - s.offs
        <5> DEFINE a == s.offs
        <5>1. k \in Nat /\ a \in Nat /\ o = a + 1 /\ i = k + 2
          BY <1>1, <1>2
        <5> HIDE DEF a, k, o, i
        <5>2. o \in Nat /\ i - 1 - o = k - a
          BY <5>1
        <5> QED BY <5>2 DEF a
      <4> QED BY <4>1, <4>2
    <3>5. Replaced(text) = (P \o <<c>>) \o rest[i]
      BY <1>4, <3>2
    <3> HIDE DEF c, i, o, h, next
    <3>6. Parsed(text, rest, ParseStep(s), P \o <<c>>)
      BY <3>1, <3>3, <3>4, <3>5, OneIsWritten
    <3> QED BY <3>6
  <2>4. CASE text[k + 1] \notin DOMAIN Code
    <3> DEFINE c == text[k + 1]
    <3>1. Turns(s, c, k + 1 - s.offs, k + 2, s.offs)
      BY <1>1, <1>2, <1>6, <1>8, <2>2, <2>4, ParseTurns
    <3>2. h = <<"^", c>> /\ next = k + 2
      BY <1>8, <2>4 DEF HeadAt, NextAt
    <3>3. c \in Written /\ text[k] = "^" /\ k + 1 <= L
      BY <1>1, <1>8, <2>1, <2>2, CodesAreBytes DEF Plain
    <3>4. Replaced(text) = (P \o <<"^", c>>) \o rest[k + 2]
      BY <1>4, <3>2
    <3> HIDE DEF c, h, next
    <3>5. Parsed(text, rest, ParseStep(s), P \o <<"^", c>>)
      BY <3>1, <3>3, <3>4, TwoAreWritten
    <3> QED BY <3>5
  <2> QED BY <2>3, <2>4
<1> QED BY <1>7, <1>8

\* The state in which the loop ends, with what it has made of the text
ParseEnds(text, rest, end, P) ==
    /\ Parsed(text, rest, end, P)
    /\ end.i = Len(text) + 1
    /\ ParseLinesAndColors(text) = SubSeq(end.buffer, 1, Len(text) - end.offs)

\* The loop goes through the whole text.
LEMMA ParseGoesThrough ==
    ASSUME NEW text \in Seq(Char), NEW rest, Replaces(text, rest)
    PROVE  \E end, P : ParseEnds(text, rest, end, P)
<1> DEFINE L == Len(text)
           V == LoopState(L)
           init == [buffer |-> text, i |-> 1, offs |-> 0]
           Turn(s) == IF s.i > L THEN s ELSE ParseStep(s)
           Eq(f) == f = [n \in 0..Len(text) |->
                            IF n = 0 THEN [buffer |-> text, i |-> 1, offs |-> 0]
                            ELSE LET s == f[n - 1]
                                 IN  IF s.i > Len(text) THEN s ELSE ParseStep(s)]
           turn == CHOOSE f : Eq(f)
           step == [n \in 1..L |-> [s \in V |-> Turn(s)]]
<1>1. L \in Nat
  OBVIOUS
<1>2. init \in V
  <2>1. text \in [1..L -> Written]
    BY CodesAreBytes
  <2> QED BY <1>1, <2>1 DEF LoopState
<1>3. ASSUME NEW s \in V PROVE Turn(s) \in V
  <2>1. s.i \in 1..L + 1
    BY DEF LoopState
  <2> HIDE DEF V
  <2>2. ~(s.i > L) => s.i <= L
    BY <1>1, <2>1
  <2> QED BY <1>1, <2>2, ParseStepType DEF V
<1>4. ParseLinesAndColors(text) = SubSeq(turn[L].buffer, 1, L - turn[L].offs)
  BY DEF ParseLinesAndColors
<1> HIDE DEF V, Turn
<1>5. \E f : Eq(f) /\ f \in [0..L -> V]
  <2> DEFINE first == 0
  <2>1. first \in Nat /\ first <= L
    BY <1>1
  <2>2. ASSUME NEW n \in first + 1..L PROVE step[n] \in [V -> V]
    <3>1. n \in 1..L
      OBVIOUS
    <3>2. step[n] = [s \in V |-> Turn(s)]
      BY <3>1
    <3> HIDE DEF step
    <3> QED BY <1>3, <3>2
  <2>3. CanGoUp(first, L, V, init, step)
    <3> HIDE DEF first, init, step, L
    <3> QED BY <1>1, <1>2, <2>1, <2>2, GoingUp
  <2>4. PICK f : GoesUp(f, first, L, init, step) /\ f \in [first..L -> V]
    <3> HIDE DEF first, init, step, L
    <3> QED BY <2>3 DEF CanGoUp
  <2>5. ASSUME NEW n \in 0..L PROVE f[n] = IF n = 0 THEN init ELSE Turn(f[n - 1])
    <3>1. f[n] = IF n = 0 THEN init ELSE step[n][f[n - 1]]
      <4> HIDE DEF step, init
      <4> QED BY <2>4 DEF GoesUp
    <3>2. CASE n = 0
      BY <3>1, <3>2
    <3>3. CASE n # 0
      <4>1. n \in 1..L /\ n - 1 \in 0..L
        BY <1>1, <3>3
      <4>2. f[n - 1] \in V
        BY <2>4, <4>1
      <4>3. step[n] = [s \in V |-> Turn(s)]
        BY <4>1
      <4> HIDE DEF step, init
      <4> QED BY <3>1, <3>3, <4>2, <4>3
    <3> QED BY <3>2, <3>3
  <2>6. f = [n \in 0..L |-> f[n]] /\ f \in [0..L -> V]
    BY <2>4
  <2>7. f = [n \in 0..L |-> IF n = 0 THEN init ELSE Turn(f[n - 1])]
    <3> HIDE DEF init
    <3> QED BY <2>5, <2>6
  <2>8. Eq(f)
    BY <2>7 DEF Turn
  <2> QED BY <2>6, <2>8
<1>6. Eq(turn)
  <2> HIDE DEF Eq
  <2> QED BY <1>5
<1> HIDE DEF turn
<1>7. turn = [n \in 0..L |-> IF n = 0 THEN init ELSE Turn(turn[n - 1])]
  BY <1>6 DEF Turn
<1> HIDE DEF init
<1>8. turn[0] = init /\ \A n \in 0..L : n # 0 => turn[n] = Turn(turn[n - 1])
  <2>1. ASSUME NEW n \in 0..L PROVE turn[n] = IF n = 0 THEN init ELSE Turn(turn[n - 1])
    BY <1>7, Zenon
  <2> QED BY <1>1, <2>1
<1> DEFINE Good == {n \in 0..L : turn[n].i >= n + 1 /\ \E P : Parsed(text, rest, turn[n], P)}
<1>9. 0 \in Good
  <2>1. Replaced(text) = rest[1] /\ rest[1] \in Seq(Written)
    <3>1. rest \in [1..L + 1 -> Seq(Written)] /\ Replaced(text) = rest[1]
      BY DEF Replaces
    <3>2. 1 \in 1..L + 1
      BY <1>1
    <3> HIDE DEF L
    <3> QED BY <3>1, <3>2
  <2>2. << >> \in Seq(Written) /\ Len(<< >>) = 0 /\ Replaced(text) = << >> \o rest[1]
    BY <2>1, EmptySeq, ConcatEmptySeq
  <2>3. init.i = 1 /\ init.offs = 0 /\ init.buffer = text
    BY DEF init
  <2>4. Parsed(text, rest, init, << >>)
    BY <1>1, <1>2, <2>2, <2>3 DEF Parsed, V
  <2>5. 0 \in 0..L /\ turn[0].i >= 0 + 1
    BY <1>1, <1>8, <2>3
  <2> QED BY <1>8, <2>4, <2>5
<1>10. ASSUME NEW n \in 0..L, n < L, n \in Good PROVE n + 1 \in Good
  <2> DEFINE s == turn[n]
             t == turn[n + 1]
  <2>1. s.i >= n + 1 /\ \E P : Parsed(text, rest, s, P)
    BY <1>10
  <2>2. PICK P : Parsed(text, rest, s, P)
    BY <2>1
  <2>3. n + 1 \in 0..L /\ n + 1 # 0
    BY <1>1, <1>10
  <2>4. t = Turn(s)
    <3>1. ASSUME NEW m \in 0..L, m = n + 1 PROVE turn[m] = Turn(turn[n])
      <4>1. m # 0 /\ m - 1 = n
        BY <3>1
      <4> QED BY <1>8, <4>1
    <3> QED BY <2>3, <3>1
  <2> HIDE DEF s, t
  <2>5. s \in V /\ s.i \in 1..L + 1
    BY <2>2 DEF Parsed, V, LoopState
  <2>6. CASE s.i > L
    <3>1. t = s /\ t.i >= n + 1 + 1
      BY <1>1, <1>10, <2>4, <2>5, <2>6 DEF Turn
    <3> QED BY <2>2, <2>3, <3>1 DEF t
  <2>7. CASE ~(s.i > L)
    <3>1. t = ParseStep(s) /\ s.i <= L
      BY <1>1, <2>4, <2>5, <2>7 DEF Turn
    <3>2. t \in V /\ t.i > s.i
      BY <1>1, <2>5, <3>1, ParseStepType DEF V
    <3>3. t.i >= n + 1 + 1
      <4>1. t.i \in 1..L + 1
        BY <3>2 DEF V, LoopState
      <4> QED BY <1>1, <2>1, <2>5, <3>2, <4>1
    <3>4. \E Q : Parsed(text, rest, t, Q)
      BY <2>2, <3>1, ParsesOn
    <3> QED BY <2>3, <3>3, <3>4 DEF t
  <2> QED BY <2>6, <2>7
<1>11. L \in Good
  <2> DEFINE first == 0
  <2>1. first \in Nat /\ first \in Good /\ \A n \in first..L : n < L /\ n \in Good => n + 1 \in Good
    BY <1>9, <1>10
  <2> HIDE DEF Good, first, L
  <2>2. first..L \subseteq Good
    BY <1>1, <2>1, FromTheBeginning
  <2>3. L \in first..L
    BY <1>1, <2>1 DEF first
  <2> QED BY <2>2, <2>3
<1>12. PICK P : Parsed(text, rest, turn[L], P)
  BY <1>11
<1>13. turn[L].i = L + 1
  <2>1. turn[L].i \in 1..L + 1 /\ turn[L].i >= L + 1
    BY <1>11, <1>12 DEF Parsed, LoopState
  <2> QED BY <1>1, <2>1
<1> QED BY <1>4, <1>12, <1>13 DEF ParseEnds

\* The codes of a message of any length are replaced in place, and nothing else
\* is lost or moved.
THEOREM MessagesAreKept == TextsSpec => []MessageIsKept
<1>1. Given => MessageIsKept
  <2> SUFFICES ASSUME file \in File PROVE MessageIsKept
    BY DEF Given
  <2> DEFINE text == file.text
             L == Len(text)
             written == ParseLinesAndColors(text)
             meant == Replaced(text)
  <2>1. text \in Seq(Char)
    BY FileAssumption
  <2> HIDE DEF text
  <2>2. PICK rest : Replaces(text, rest)
    BY <2>1, ReplacedGoesOn
  <2>3. PICK end, P : ParseEnds(text, rest, end, P)
    BY <2>1, <2>2, ParseGoesThrough
  <2>4. L \in Nat
    BY <2>1
  <2>5. /\ P \in Seq(Written) /\ Len(P) = L - end.offs /\ end.offs \in Nat /\ Len(P) \in Nat
        /\ end.buffer \in [1..L -> Written]
        /\ meant = P \o rest[L + 1]
        /\ \A q \in 1..Len(P) : end.buffer[q] # P[q] =>
              P[q] = "^" /\ \E r \in 1..q - 1 : P[r] \notin Char
    <3>1. Parsed(text, rest, end, P) /\ end.i = L + 1
      BY <2>3 DEF ParseEnds
    <3>2. end \in LoopState(L) /\ P \in Seq(Written) /\ Len(P) = end.i - 1 - end.offs
      BY <3>1 DEF Parsed
    <3>3. end.offs \in Nat /\ end.buffer \in [1..L -> Written]
      BY <3>2 DEF LoopState
    <3>4. Len(P) = L - end.offs /\ Len(P) \in Nat
      BY <2>4, <3>1, <3>2, <3>3
    <3>5. meant = P \o rest[L + 1]
      BY <3>1 DEF Parsed
    <3>6. \A q \in 1..Len(P) : end.buffer[q] # P[q] =>
             P[q] = "^" /\ \E r \in 1..q - 1 : P[r] \notin Char
      BY <3>1 DEF Parsed
    <3> QED BY <3>2, <3>3, <3>4, <3>5, <3>6
  <2>6. meant = P
    <3>1. rest[L + 1] = << >>
      BY <2>2 DEF Replaces
    <3> QED BY <2>5, <3>1, ConcatEmptySeq
  <2>7. written = SubSeq(end.buffer, 1, Len(P))
    BY <2>3, <2>5 DEF ParseEnds
  <2> HIDE DEF written, meant
  <2>8. /\ written \in Seq(Written) /\ Len(written) = Len(P)
        /\ \A q \in 1..Len(P) : written[q] = end.buffer[q]
    <3> DEFINE n == Len(P)
               b == end.buffer
    <3>1. n \in Nat /\ n <= L /\ \A q \in 1..n : b[q] \in Written
      <4>1. n \in Nat /\ b \in [1..L -> Written]
        BY <2>5
      <4>2. n <= L
        <5> DEFINE o == end.offs
        <5>1. n = L - o /\ o \in Nat
          BY <2>5
        <5> HIDE DEF n, o, L
        <5> QED BY <2>4, <5>1
      <4> HIDE DEF n, b, L
      <4>3. \A q \in 1..n : q \in 1..L
        BY <2>4, <4>1, <4>2
      <4> QED BY <4>1, <4>2, <4>3
    <3> HIDE DEF n, b
    <3>2. /\ SubSeq(b, 1, n) \in Seq(Written)
          /\ Len(SubSeq(b, 1, n)) = IF 1 <= n THEN n - 1 + 1 ELSE 0
          /\ \A q \in 1..n - 1 + 1 : SubSeq(b, 1, n)[q] = b[1 + q - 1]
      BY <3>1, SubSeqProperties
    <3>3. Len(SubSeq(b, 1, n)) = n
      BY <3>1, <3>2
    <3>4. ASSUME NEW q \in 1..n PROVE SubSeq(b, 1, n)[q] = b[q]
      <4>1. q \in 1..n - 1 + 1 /\ 1 + q - 1 = q
        BY <3>1
      <4> QED BY <3>2, <4>1
    <3> QED BY <2>7, <3>2, <3>3, <3>4 DEF n, b
  <2>9. DOMAIN meant = 1..Len(P) /\ Len(written) = Len(meant)
    BY <2>5, <2>6, <2>8
  <2>10. ASSUME NEW q \in DOMAIN meant, written[q] # meant[q]
         PROVE  meant[q] = "^" /\ \E r \in {p \in DOMAIN meant : meant[p] \notin Char} : r < q
    <3>1. q \in 1..Len(P) /\ end.buffer[q] # P[q]
      BY <2>6, <2>8, <2>9, <2>10
    <3>2. PICK r \in 1..q - 1 : P[r] \notin Char
      BY <2>5, <3>1
    <3>3. r \in 1..Len(P) /\ r < q
      BY <2>5, <3>1
    <3>4. r \in {p \in DOMAIN meant : meant[p] \notin Char}
      BY <2>6, <2>9, <3>2, <3>3
    <3>5. meant[q] = "^"
      BY <2>5, <2>6, <3>1
    <3> QED BY <3>3, <3>4, <3>5
  <2> QED BY <2>9, <2>10 DEF MessageIsKept, written, meant, text
<1> QED BY <1>1, TextsAreGiven, PTL

=============================================================================
