--------------------------- MODULE AdminListProofs ---------------------------
(***************************************************************************)
(* Proofs about the reading of the administrators' list.  The first part   *)
(* is induction over positions of a text, and what the functions of        *)
(* AdminList that call themselves return.                                  *)
(***************************************************************************)
EXTENDS AdminList, SequenceTheorems, WellFoundedInduction, TLAPS

-----------------------------------------------------------------------------
(* Induction over positions, by sets of numbers.                           *)

Less == {p \in Nat \X Nat : p[1] < p[2]}

\* The order of the natural numbers is well founded.
LEMMA LessWF == IsWellFoundedOn(Less, Nat)
BY NatLessThanWellFounded DEF OpToRel, Less

\* A set of natural numbers that is not empty has a least element.
LEMMA LeastNumber ==
    ASSUME NEW S \in SUBSET Nat, S # {}
    PROVE  \E m \in S : \A n \in S : m <= n
<1>1. PICK m \in S : \A n \in S : <<n, m>> \notin Less
  BY LessWF, WFMin
<1>2. \A n \in S : ~(n < m)
  BY <1>1 DEF Less
<1> QED BY <1>1, <1>2

\* What holds at a position when it holds at all later ones holds at all.
LEMMA FromTheEnd ==
    ASSUME NEW N \in Nat, NEW S,
           \A d \in 0..N : (\A e \in d + 1..N : e \in S) => d \in S
    PROVE  0..N \subseteq S
<1> DEFINE T == {k \in Nat : k <= N /\ N - k \notin S}
<1> SUFFICES ASSUME T # {} PROVE FALSE
  <2> SUFFICES ASSUME NEW d \in 0..N, d \notin S PROVE FALSE
    OBVIOUS
  <2>1. N - (N - d) = d /\ N - d \in Nat /\ N - d <= N
    OBVIOUS
  <2> QED BY <2>1
<1>1. PICK k \in T : \A n \in T : k <= n
  BY LeastNumber
<1>2. ASSUME NEW e \in N - k + 1..N PROVE e \in S
  <2>1. N - e \in Nat /\ N - e < k /\ N - (N - e) = e
    BY <1>2
  <2>2. N - e \notin T
    BY <1>1, <2>1
  <2> QED BY <2>1, <2>2
<1> QED BY <1>1, <1>2

\* f stops at Stop with its result, and goes on at next everywhere else.
GoesOn(f, N, Stop, result, next) ==
    f = [d \in 0..N |-> IF d \in Stop THEN result[d] ELSE f[next[d]]]

\* A function that is defined by its own values at later positions, and at some
\* positions, the last one among them, without them, is well defined.
LEMMA TailRecursion ==
    ASSUME NEW N \in Nat, NEW Stop, N \in Stop, NEW result, NEW next,
           \A d \in 0..N : d \notin Stop => next[d] \in d + 1..N
    PROVE  \E f : GoesOn(f, N, Stop, result, next)
<1> DEFINE Eq(f, e) == f = [d \in e..N |-> IF d \in Stop THEN result[d] ELSE f[next[d]]]
           Good == {e \in 0..N : \E f : Eq(f, e)}
<1>1. ASSUME NEW e \in 0..N, \A d \in e + 1..N : d \in Good PROVE e \in Good
  <2>1. CASE e = N
    <3>1. N..N = {N}
      OBVIOUS
    <3>2. Eq([d \in {N} |-> result[d]], N)
      BY <3>1
    <3> QED BY <2>1, <3>2
  <2>2. CASE e # N
    <3>1. e + 1 \in Good
      BY <1>1, <2>2
    <3>2. PICK f : Eq(f, e + 1)
      BY <3>1
    <3> DEFINE g == [d \in e..N |->
                        IF d = e THEN IF e \in Stop THEN result[e] ELSE f[next[e]] ELSE f[d]]
    <3>3. e..N = {e} \cup e + 1..N /\ e \notin e + 1..N
      OBVIOUS
    <3>4. ASSUME NEW d \in e..N PROVE g[d] = IF d \in Stop THEN result[d] ELSE g[next[d]]
      <4>1. CASE d \in Stop
        <5>1. CASE d = e
          BY <4>1, <5>1
        <5>2. CASE d # e
          BY <4>1, <5>2, <3>2, <3>3
        <5> QED BY <5>1, <5>2
      <4>2. CASE d \notin Stop
        <5>1. next[d] \in e + 1..N /\ next[d] # e
          BY <4>2, <3>3
        <5>2. g[next[d]] = f[next[d]]
          BY <5>1, <3>3
        <5>3. CASE d = e
          BY <4>2, <5>2, <5>3
        <5>4. CASE d # e
          BY <4>2, <5>2, <5>4, <3>2, <3>3
        <5> QED BY <5>3, <5>4
      <4> QED BY <4>1, <4>2
    <3>5. Eq(g, e)
      <4> HIDE DEF g
      <4>1. g = [d \in e..N |-> g[d]]
        BY DEF g
      <4> QED BY <4>1, <3>4
    <3> QED BY <3>5
  <2> QED BY <2>1, <2>2
<1>2. 0..N \subseteq Good
  <2> HIDE DEF Good
  <2> QED BY <1>1, FromTheEnd
<1>3. 0 \in Good
  BY <1>2
<1> QED BY <1>3 DEF GoesOn

-----------------------------------------------------------------------------
(* The functions of the tokenizer that call themselves.                    *)

\* Scan(b, c, set) stops after e: up to there are characters of the set only,
\* the next one is none, and it is read too.
ScanStops(b, c, set, e) ==
    /\ \A p \in c + 1..e : b[p] \in set
    /\ e < Len(b) => b[e + 1] \notin set
    /\ Scan(b, c, set) = [string |-> SubSeq(b, c + 1, e),
                          ch |-> GetChar(b, e).ch, count |-> GetChar(b, e).count]

\* Scan reads the longest string of characters of the set, and what follows it.
LEMMA ScanReads ==
    ASSUME NEW b \in Seq(Char), NEW c \in 0..Len(b), NEW set
    PROVE  \E e \in c..Len(b) : ScanStops(b, c, set, e)
<1> DEFINE N == Len(b)
           More(d) == d < N /\ b[d + 1] \in set
           Eq(f) == f = [d \in 0..N |-> IF d < N /\ b[d + 1] \in set THEN f[d + 1] ELSE d]
           stop == CHOOSE f : Eq(f)
           Good == {d \in 0..N :
                      /\ stop[d] \in d..N
                      /\ \A p \in d + 1..stop[d] : b[p] \in set
                      /\ stop[d] < N => b[stop[d] + 1] \notin set}
<1>0. N \in Nat
  OBVIOUS
<1>1. \E f : Eq(f)
  <2> DEFINE Stop   == {d \in 0..N : ~More(d)}
             result == [d \in 0..N |-> d]
             next   == [d \in 0..N |-> d + 1]
  <2>1. N \in Nat /\ N \in Stop
    OBVIOUS
  <2>2. \A d \in 0..N : d \notin Stop => next[d] \in d + 1..N
    BY <2>1
  <2>3. PICK f : GoesOn(f, N, Stop, result, next)
    <3> HIDE DEF Stop, result, next, N
    <3> QED BY <2>1, <2>2, TailRecursion
  <2>4. Eq(f)
    BY <2>3, <2>1 DEF GoesOn
  <2> QED BY <2>4
<1>2. Eq(stop)
  BY <1>1
<1>3. ASSUME NEW d \in 0..N, \A e \in d + 1..N : e \in Good PROVE d \in Good
  <2>1. CASE More(d)
    <3>0. d + 1 \in 0..N /\ d + 1 \in d + 1..N
      BY <2>1, <1>0
    <3>1. d + 1 \in Good
      <4> HIDE DEF Good
      <4> QED BY <1>3, <3>0
    <3> HIDE DEF stop
    <3>3. stop[d] = stop[d + 1]
      BY <1>2, <2>1
    <3>2. \A p \in d + 1..stop[d] : p = d + 1 \/ p \in d + 2..stop[d + 1]
      BY <3>1, <3>3
    <3> QED BY <3>1, <3>2, <3>3, <2>1
  <2>2. CASE ~More(d)
    <3>1. stop[d] = d
      BY <1>2, <2>2
    <3> HIDE DEF stop
    <3> QED BY <3>1, <2>2
  <2> QED BY <2>1, <2>2
<1>4. c \in Good
  <2>1. 0..N \subseteq Good
    <3> HIDE DEF Good, N
    <3> QED BY <1>0, <1>3, FromTheEnd
  <2> QED BY <2>1
<1>5. Scan(b, c, set) = [string |-> SubSeq(b, c + 1, stop[c]),
                         ch |-> GetChar(b, stop[c]).ch, count |-> GetChar(b, stop[c]).count]
  BY DEF Scan
<1>6. /\ stop[c] \in c..Len(b)
      /\ \A p \in c + 1..stop[c] : b[p] \in set
      /\ stop[c] < Len(b) => b[stop[c] + 1] \notin set
  <2> HIDE DEF stop
  <2> QED BY <1>4
<1> HIDE DEF stop
<1>7. ScanStops(b, c, set, stop[c])
  BY <1>5, <1>6 DEF ScanStops
<1> QED BY <1>6, <1>7

\* CheckComment goes on in the text, and what it returns is the character
\* before the position, or the end.
LEMMA CheckCommentReads ==
    ASSUME NEW b \in Seq(Char), NEW d \in 0..Len(b) - 1
    PROVE  LET checked == CheckComment(b, GetChar(b, d))
           IN  /\ checked.count \in d + 1..Len(b)
               /\ checked.ch = End \/ checked.ch = b[checked.count]
<1> DEFINE last == GetChar(b, d)
           next == GetChar(b, d + 1)
           k    == next.count
           rest == Char \ {Newline, End}
           line == Scan(b, k, rest)
<1>1. last = [ch |-> b[d + 1], count |-> d + 1]
  BY DEF GetChar
<1>2. /\ next.count \in d + 1..Len(b)
      /\ next.ch = End \/ next.ch = b[next.count]
  BY DEF GetChar
<1>3. /\ line.count \in d + 1..Len(b)
      /\ line.ch = End \/ line.ch = b[line.count]
  <2> HIDE DEF k, rest
  <2>1. PICK e \in k..Len(b) :
           line = [string |-> SubSeq(b, k + 1, e),
                   ch |-> GetChar(b, e).ch, count |-> GetChar(b, e).count]
    <3>1. k \in 0..Len(b)
      BY <1>2 DEF k
    <3>2. \E e \in k..Len(b) : ScanStops(b, k, rest, e)
      BY <3>1, ScanReads
    <3> QED BY <3>2 DEF ScanStops
  <2>2. k \in d + 1..Len(b)
    BY <1>2 DEF k
  <2> HIDE DEF line
  <2> QED BY <2>1, <2>2 DEF GetChar
<1>4. CheckComment(b, last) =
        IF last.ch # Slash THEN last
        ELSE IF next.ch # Slash THEN next
        ELSE [ch |-> line.ch, count |-> line.count]
  BY <1>1 DEF CheckComment
<1>5. /\ CheckComment(b, last).count \in d + 1..Len(b)
      /\ \/ CheckComment(b, last).ch = End
         \/ CheckComment(b, last).ch = b[CheckComment(b, last).count]
  <2> HIDE DEF last, next, line
  <2> QED BY <1>1, <1>2, <1>3, <1>4
<1> QED BY <1>5

\* FirstChar skips what it does not return.
LEMMA FirstCharSkips ==
    ASSUME NEW b \in Seq(Char), NEW c \in 0..Len(b)
    PROVE  FirstChar(b, c) =
              LET last    == GetChar(b, c)
                  checked == CheckComment(b, last)
              IN  IF last.ch = End THEN last
                  ELSE IF last.ch \in Blank THEN FirstChar(b, last.count)
                  ELSE IF checked.ch = Newline THEN FirstChar(b, checked.count)
                  ELSE checked
<1> DEFINE N == Len(b)
           Last(d) == GetChar(b, d)
           Checked(d) == CheckComment(b, Last(d))
           Eq(f) == f = [d \in 0..N |->
                          LET last    == GetChar(b, d)
                              checked == CheckComment(b, last)
                          IN  IF last.ch = End THEN last
                              ELSE IF last.ch \in Blank THEN f[last.count]
                              ELSE IF checked.ch = Newline THEN f[checked.count]
                              ELSE checked]
           first == CHOOSE f : Eq(f)
<1>1. \A d \in 0..N : Last(d).ch # End =>
          /\ Last(d).count \in d + 1..N
          /\ Checked(d).count \in d + 1..N
  BY CheckCommentReads DEF GetChar
<1>2. \E f : Eq(f)
  <2> DEFINE Stop   == {d \in 0..N :
                          \/ Last(d).ch = End
                          \/ Last(d).ch \notin Blank /\ Checked(d).ch # Newline}
             result == [d \in 0..N |-> IF Last(d).ch = End THEN Last(d) ELSE Checked(d)]
             next   == [d \in 0..N |-> IF Last(d).ch \in Blank THEN Last(d).count
                                       ELSE Checked(d).count]
  <2>1. N \in Nat /\ N \in Stop
    BY DEF GetChar
  <2>2. \A d \in 0..N : d \notin Stop => next[d] \in d + 1..N
    <3> HIDE DEF Last, Checked
    <3> QED BY <1>1
  <2>3. PICK f : GoesOn(f, N, Stop, result, next)
    <3> HIDE DEF Stop, result, next, N
    <3> QED BY <2>1, <2>2, TailRecursion
  <2>4. ASSUME NEW d \in 0..N
        PROVE  f[d] = IF Last(d).ch = End THEN Last(d)
                      ELSE IF Last(d).ch \in Blank THEN f[Last(d).count]
                      ELSE IF Checked(d).ch = Newline THEN f[Checked(d).count]
                      ELSE Checked(d)
    <3> HIDE DEF Last, Checked
    <3>1. f[d] = IF d \in Stop THEN result[d] ELSE f[next[d]]
      BY <2>3 DEF GoesOn
    <3> QED BY <3>1
  <2>5. Eq(f)
    <3>1. f = [d \in 0..N |-> f[d]]
      BY <2>3 DEF GoesOn
    <3> QED BY <3>1, <2>4
  <2> QED BY <2>5
<1>3. Eq(first)
  BY <1>2
<1>4. \A d \in 0..N : FirstChar(b, d) = first[d]
  BY DEF FirstChar
<1>5. first[c] = IF Last(c).ch = End THEN Last(c)
                 ELSE IF Last(c).ch \in Blank THEN first[Last(c).count]
                 ELSE IF Checked(c).ch = Newline THEN first[Checked(c).count]
                 ELSE Checked(c)
  BY <1>3
<1> HIDE DEF first, Last, Checked
<1>6. Last(c).ch # End => Last(c).count \in 0..N /\ Checked(c).count \in 0..N
  BY <1>1
<1>7. FirstChar(b, c) = IF Last(c).ch = End THEN Last(c)
                 ELSE IF Last(c).ch \in Blank THEN FirstChar(b, Last(c).count)
                 ELSE IF Checked(c).ch = Newline THEN FirstChar(b, Checked(c).count)
                 ELSE Checked(c)
  BY <1>4, <1>5, <1>6
<1> QED BY <1>7 DEF Last, Checked

\* FirstChar goes on in the text, and what it returns is the character before
\* the position, or the end.
LEMMA FirstCharReads ==
    ASSUME NEW b \in Seq(Char), NEW c \in 0..Len(b)
    PROVE  LET first == FirstChar(b, c)
           IN  /\ first.count \in c..Len(b)
               /\ \/ first.ch = End /\ (c < Len(b) => c < first.count)
                  \/ c < first.count /\ first.ch = b[first.count]
<1> DEFINE N == Len(b)
           Reads(d) == /\ FirstChar(b, d).count \in d..N
                       /\ \/ FirstChar(b, d).ch = End /\ (d < N => d < FirstChar(b, d).count)
                          \/ d < FirstChar(b, d).count
                             /\ FirstChar(b, d).ch = b[FirstChar(b, d).count]
           Good == {d \in 0..N : Reads(d)}
<1>0. N \in Nat
  OBVIOUS
<1>1. ASSUME NEW d \in 0..N, \A e \in d + 1..N : e \in Good PROVE d \in Good
  <2> DEFINE last    == GetChar(b, d)
             checked == CheckComment(b, last)
  <2>1. FirstChar(b, d) = IF last.ch = End THEN last
                          ELSE IF last.ch \in Blank THEN FirstChar(b, last.count)
                          ELSE IF checked.ch = Newline THEN FirstChar(b, checked.count)
                          ELSE checked
    BY FirstCharSkips
  <2>2. last = IF d < N THEN [ch |-> b[d + 1], count |-> d + 1] ELSE [ch |-> End, count |-> d]
    BY DEF GetChar
  <2>3. d < N => /\ checked.count \in d + 1..N
                 /\ checked.ch = End \/ checked.ch = b[checked.count]
    BY CheckCommentReads
  <2>4. \A e \in d + 1..N : Reads(e)
    BY <1>1
  <2> HIDE DEF last, checked
  <2>5. CASE last.ch = End
    BY <2>1, <2>2, <2>5
  <2>6. CASE last.ch # End /\ last.ch \in Blank
    <3>1. d < N /\ last.count = d + 1 /\ FirstChar(b, d) = FirstChar(b, d + 1)
      BY <2>1, <2>2, <2>6
    <3>2. Reads(d + 1)
      BY <3>1, <2>4
    <3> QED BY <3>1, <3>2
  <2>7. CASE last.ch # End /\ last.ch \notin Blank /\ checked.ch = Newline
    <3>1. d < N /\ checked.count \in d + 1..N /\ FirstChar(b, d) = FirstChar(b, checked.count)
      BY <2>1, <2>2, <2>3, <2>7
    <3>2. Reads(checked.count)
      BY <3>1, <2>4
    <3> QED BY <3>1, <3>2
  <2>8. CASE last.ch # End /\ last.ch \notin Blank /\ checked.ch # Newline
    <3>1. d < N /\ FirstChar(b, d) = checked
      BY <2>1, <2>2, <2>8
    <3> QED BY <3>1, <2>3
  <2> QED BY <2>5, <2>6, <2>7, <2>8
<1>2. 0..N \subseteq Good
  <2> HIDE DEF Good, N
  <2> QED BY <1>0, <1>1, FromTheEnd
<1>3. Reads(c)
  BY <1>2
<1> QED BY <1>3

\* What the tokenizer tells apart, it does.
LEMMA Characters ==
    /\ {End, Newline, Quote, Slash} \cup Blank \cup NumberChar \cup WordChar \subseteq Char
    /\ End \notin Blank \cup NumberChar \cup WordChar \cup {Newline, Quote, Slash}
    /\ Slash \notin Blank \cup NumberChar \cup WordChar \cup {Newline, Quote}
    /\ Quote \notin Blank \cup NumberChar \cup WordChar
    /\ Letter \subseteq WordChar /\ Letter \cap NumberChar = {} /\ Newline \in Blank
    /\ Blank \cap (NumberChar \cup WordChar) = {}
BY DEF End, Newline, Quote, Slash, Blank, NumberChar, WordChar, Letter, Digit, Char

\* Giving a character back keeps the text, but for that character.
LEMMA UnGetCharKeeps ==
    ASSUME NEW b \in Seq(Char), NEW c \in 1..Len(b), NEW ch \in Char
    PROVE  LET back == UnGetChar(b, c, ch)
           IN  /\ back.buff \in Seq(Char) /\ Len(back.buff) = Len(b)
               /\ back.buff[c] = ch /\ \A p \in 1..Len(b) : p # c => back.buff[p] = b[p]
               /\ back.count = c - 1
               /\ ch = b[c] => back.buff = b
<1>1. UnGetChar(b, c, ch) = [buff |-> [b EXCEPT ![c] = ch], count |-> c - 1]
  BY DEF UnGetChar
<1>2. /\ [b EXCEPT ![c] = ch] \in Seq(Char)
      /\ Len([b EXCEPT ![c] = ch]) = Len(b)
      /\ \A j \in 1..Len(b) : [b EXCEPT ![c] = ch][j] = IF j = c THEN ch ELSE b[j]
  BY ExceptSeq
<1>3. ch = b[c] => [b EXCEPT ![c] = ch] = b
  OBVIOUS
<1> QED BY <1>1, <1>2, <1>3

\* A number is read to its last character, and the one after it with it.
LEMMA NumberReads ==
    ASSUME NEW b \in Seq(Char), NEW c \in 1..Len(b), b[c] \in NumberChar
    PROVE  \E e \in c..Len(b) :
              /\ \A p \in c..e : b[p] \in NumberChar
              /\ e < Len(b) => b[e + 1] \notin NumberChar
              /\ GetTokenNumber(b, c, b[c]) =
                    Token("NUMBER", SubSeq(b, c, e), b, IF e < Len(b) THEN e + 1 ELSE e)
<1> DEFINE back == UnGetChar(b, c, b[c])
<1>1. back.buff = b /\ back.count = c - 1
  <2>1. b[c] \in Char
    OBVIOUS
  <2> QED BY <2>1, UnGetCharKeeps
<1>2. PICK e \in c - 1..Len(b) :
        /\ \A p \in c..e : b[p] \in NumberChar
        /\ e < Len(b) => b[e + 1] \notin NumberChar
        /\ Scan(b, c - 1, NumberChar) = [string |-> SubSeq(b, c, e),
                                         ch |-> GetChar(b, e).ch, count |-> GetChar(b, e).count]
  <2>1. c - 1 \in 0..Len(b) /\ c - 1 + 1 = c
    OBVIOUS
  <2> DEFINE d == c - 1
  <2>2. PICK e \in d..Len(b) :
          /\ \A p \in d + 1..e : b[p] \in NumberChar
          /\ e < Len(b) => b[e + 1] \notin NumberChar
          /\ Scan(b, d, NumberChar) = [string |-> SubSeq(b, d + 1, e),
                                       ch |-> GetChar(b, e).ch, count |-> GetChar(b, e).count]
    <3> HIDE DEF d
    <3>1. d \in 0..Len(b)
      BY <2>1 DEF d
    <3>2. \E e \in d..Len(b) : ScanStops(b, d, NumberChar, e)
      BY <3>1, ScanReads
    <3> QED BY <3>2 DEF ScanStops
  <2> QED BY <2>1, <2>2
<1>3. e # c - 1
  <2>1. c - 1 < Len(b) /\ c - 1 + 1 = c
    OBVIOUS
  <2> QED BY <1>2, <2>1
<1>4. GetChar(b, e).count = IF e < Len(b) THEN e + 1 ELSE e
  BY DEF GetChar
<1>5. GetTokenNumber(b, c, b[c]) = Token("NUMBER", SubSeq(b, c, e), b, GetChar(b, e).count)
  <2> DEFINE s == Scan(back.buff, back.count, NumberChar)
  <2>1. GetTokenNumber(b, c, b[c]) = Token("NUMBER", s.string, back.buff, s.count)
    BY DEF GetTokenNumber
  <2> HIDE DEF back
  <2>2. s = [string |-> SubSeq(b, c, e), ch |-> GetChar(b, e).ch, count |-> GetChar(b, e).count]
    BY <1>1, <1>2
  <2> HIDE DEF s
  <2>3. s.string = SubSeq(b, c, e) /\ s.count = GetChar(b, e).count
    BY <2>2
  <2> QED BY <1>1, <2>1, <2>3
<1> QED BY <1>2, <1>3, <1>4, <1>5

\* A string is read to its closing quote, or to an end, which then stands for
\* the character before the position.
LEMMA StringReads ==
    ASSUME NEW b \in Seq(Char), NEW c \in 1..Len(b)
    PROVE  \E e \in c..Len(b) :
              /\ \A p \in c + 1..e : b[p] \notin {Quote, End}
              /\ e < Len(b) => b[e + 1] \in {Quote, End}
              /\ GetTokenString(b, c) =
                    IF e < Len(b) /\ b[e + 1] = Quote
                    THEN Token("STRING", SubSeq(b, c + 1, e), b, e + 1)
                    ELSE LET k == IF e < Len(b) THEN e + 1 ELSE e
                         IN  Token("STRING", SubSeq(b, c + 1, e), [b EXCEPT ![k] = End], k - 1)
<1> DEFINE set == Char \ {Quote, End}
<1>1. PICK e \in c..Len(b) :
        /\ \A p \in c + 1..e : b[p] \in set
        /\ e < Len(b) => b[e + 1] \notin set
        /\ Scan(b, c, set) = [string |-> SubSeq(b, c + 1, e),
                              ch |-> GetChar(b, e).ch, count |-> GetChar(b, e).count]
  <2> HIDE DEF set
  <2>1. c \in 0..Len(b)
    OBVIOUS
  <2>2. \E e \in c..Len(b) : ScanStops(b, c, set, e)
    BY <2>1, ScanReads
  <2> QED BY <2>2 DEF ScanStops
<1>2. e < Len(b) => b[e + 1] \in {Quote, End}
  BY <1>1
<1> DEFINE k == IF e < Len(b) THEN e + 1 ELSE e
<1>3. GetChar(b, e) = [ch |-> IF e < Len(b) THEN b[e + 1] ELSE End, count |-> k]
  BY DEF GetChar
<1> DEFINE s == Scan(b, c, Char \ {Quote, End})
           back == UnGetChar(b, s.count, s.ch)
<1>0. /\ s.string = SubSeq(b, c + 1, e) /\ s.count = k
      /\ s.ch = IF e < Len(b) THEN b[e + 1] ELSE End
  <2>1. s = [string |-> SubSeq(b, c + 1, e),
             ch |-> GetChar(b, e).ch, count |-> GetChar(b, e).count]
    BY <1>1
  <2> HIDE DEF s, k
  <2> QED BY <1>3, <2>1
<1>6. GetTokenString(b, c) =
        IF s.ch = Quote THEN Token("STRING", s.string, b, s.count)
                        ELSE Token("STRING", s.string, back.buff, back.count)
  BY DEF GetTokenString
<1> HIDE DEF s
<1>4. CASE e < Len(b) /\ b[e + 1] = Quote
  <2>1. GetTokenString(b, c) = Token("STRING", SubSeq(b, c + 1, e), b, e + 1)
    BY <1>0, <1>6, <1>4
  <2> QED BY <1>1, <1>2, <1>4, <2>1
<1>5. CASE ~(e < Len(b) /\ b[e + 1] = Quote)
  <2>1. s.ch = End /\ End # Quote
    BY <1>0, <1>2, <1>5, Characters
  <2>2. back = [buff |-> [b EXCEPT ![k] = End], count |-> k - 1]
    BY <1>0, <2>1 DEF UnGetChar
  <2> HIDE DEF back
  <2>3. GetTokenString(b, c) =
          Token("STRING", SubSeq(b, c + 1, e), [b EXCEPT ![k] = End], k - 1)
    BY <1>0, <1>6, <2>1, <2>2
  <2> QED BY <1>1, <1>2, <1>5, <2>3
<1> QED BY <1>4, <1>5

\* A word is read to its last character, which becomes an end when nothing
\* comes after it.
LEMMA WordReads ==
    ASSUME NEW b \in Seq(Char), NEW c \in 1..Len(b), b[c] \in Letter
    PROVE  \E e \in c..Len(b) :
              /\ \A p \in c..e : b[p] \in WordChar
              /\ e < Len(b) => b[e + 1] \notin WordChar
              /\ GetTokenCommon(b, c, b[c]) =
                    IF e < Len(b)
                    THEN Token("STRING", SubSeq(b, c, e), b, e)
                    ELSE Token("STRING", SubSeq(b, c, e), [b EXCEPT ![e] = End], e - 1)
<1>1. PICK e \in c..Len(b) :
        /\ \A p \in c + 1..e : b[p] \in WordChar
        /\ e < Len(b) => b[e + 1] \notin WordChar
        /\ Scan(b, c, WordChar) = [string |-> SubSeq(b, c + 1, e),
                                   ch |-> GetChar(b, e).ch, count |-> GetChar(b, e).count]
  <2>1. c \in 0..Len(b)
    OBVIOUS
  <2>2. \E e \in c..Len(b) : ScanStops(b, c, WordChar, e)
    BY <2>1, ScanReads
  <2> QED BY <2>2 DEF ScanStops
<1>2. \A p \in c..e : b[p] \in WordChar
  BY <1>1, Characters
<1>3. <<b[c]>> \o SubSeq(b, c + 1, e) = SubSeq(b, c, e)
  BY SubSeqRecursiveFirst
<1> DEFINE s == Scan(b, c, WordChar)
           back == UnGetChar(b, s.count, s.ch)
<1>4. GetTokenCommon(b, c, b[c]) =
        Token("STRING", <<b[c]>> \o s.string, back.buff, back.count)
  BY DEF GetTokenCommon
<1>5. s.string = SubSeq(b, c + 1, e) /\ s.ch = GetChar(b, e).ch /\ s.count = GetChar(b, e).count
  BY <1>1
<1> HIDE DEF s
<1> DEFINE Result == IF e < Len(b)
                     THEN Token("STRING", SubSeq(b, c, e), b, e)
                     ELSE Token("STRING", SubSeq(b, c, e), [b EXCEPT ![e] = End], e - 1)
<1>6. ASSUME e < Len(b) PROVE GetTokenCommon(b, c, b[c]) = Result
  <2>1. s.ch = b[e + 1] /\ s.count = e + 1
    BY <1>5, <1>6 DEF GetChar
  <2>2. back = [buff |-> b, count |-> e]
    BY <2>1, <1>6 DEF UnGetChar
  <2> HIDE DEF back
  <2>3. GetTokenCommon(b, c, b[c]) = Token("STRING", SubSeq(b, c, e), b, e)
    BY <1>3, <1>4, <1>5, <2>2
  <2> QED BY <1>6, <2>3
<1>7. ASSUME e = Len(b) PROVE GetTokenCommon(b, c, b[c]) = Result
  <2>1. s.ch = End /\ s.count = e
    BY <1>5, <1>7 DEF GetChar
  <2>2. back = [buff |-> [b EXCEPT ![e] = End], count |-> e - 1]
    BY <2>1, <1>7 DEF UnGetChar
  <2> HIDE DEF back
  <2>3. GetTokenCommon(b, c, b[c]) =
          Token("STRING", SubSeq(b, c, e), [b EXCEPT ![e] = End], e - 1)
    BY <1>3, <1>4, <1>5, <2>2
  <2> QED BY <1>7, <2>3
<1>8. e = Len(b) \/ e < Len(b)
  OBVIOUS
<1>9. GetTokenCommon(b, c, b[c]) = Result
  BY <1>6, <1>7, <1>8
<1> QED BY <1>1, <1>2, <1>9

-----------------------------------------------------------------------------
(* Any text.                                                               *)

\* A token goes on in the text and keeps its length.  One that leaves the
\* position where it is finds nothing left, or leaves nothing.
LEMMA GetTokenAdvances ==
    ASSUME NEW b \in Seq(Char), NEW c \in 0..Len(b)
    PROVE  LET t == GetToken(b, c)
           IN  /\ t.buff \in Seq(Char) /\ Len(t.buff) = Len(b)
               /\ t.count \in c..Len(b)
               /\ t.string \in String
               /\ t.count = c =>
                     \/ c = Len(b) /\ t.kind = "END" /\ t.buff = b
                     \/ c < Len(b) /\ b[c + 1] # End /\ t.buff[c + 1] = End
<1> DEFINE first == FirstChar(b, c)
           k == first.count
           Good(t) == /\ t.buff \in Seq(Char) /\ Len(t.buff) = Len(b)
                      /\ t.count \in c..Len(b)
                      /\ t.string \in String
                      /\ t.count = c =>
                            \/ c = Len(b) /\ t.kind = "END" /\ t.buff = b
                            \/ c < Len(b) /\ b[c + 1] # End /\ t.buff[c + 1] = End
<1>1. /\ k \in c..Len(b)
      /\ \/ first.ch = End /\ (c < Len(b) => c < k)
         \/ c < k /\ first.ch = b[k]
  BY FirstCharReads
<1>2. GetToken(b, c) = CASE first.ch = End -> Token("END", << >>, b, k)
                         [] first.ch \in NumberChar -> GetTokenNumber(b, k, first.ch)
                         [] first.ch = Quote -> GetTokenString(b, k)
                         [] OTHER -> GetTokenCommon(b, k, first.ch)
  BY DEF GetToken
<1> HIDE DEF first, k
<1>3. End \notin NumberChar /\ Quote \notin NumberChar /\ Quote # End
  BY Characters
<1>4. << >> \in String
  BY EmptySeq DEF String
<1>5. ASSUME NEW i \in 1..Len(b) + 1, NEW j \in 0..Len(b), \A p \in i..j : b[p] # End
      PROVE  SubSeq(b, i, j) \in String
  <2>1. \A p \in i..j : b[p] \in Char \ {End}
    BY <1>5
  <2> QED BY <2>1, SubSeqProperties DEF String
<1>6. ASSUME NEW m \in 1..Len(b)
      PROVE  /\ [b EXCEPT ![m] = End] \in Seq(Char)
             /\ Len([b EXCEPT ![m] = End]) = Len(b)
             /\ [b EXCEPT ![m] = End][m] = End
  <2>1. End \in Char
    BY Characters
  <2> QED BY <2>1, ExceptSeq
<1>7. CASE first.ch = End
  <2>1. GetToken(b, c) = Token("END", << >>, b, k)
    BY <1>2, <1>3, <1>7
  <2>2. Good(Token("END", << >>, b, k))
    BY <1>1, <1>4, <1>7 DEF Token
  <2> QED BY <2>1, <2>2
<1>8. CASE first.ch # End /\ first.ch \in NumberChar
  <2>1. k \in 1..Len(b) /\ c < k /\ first.ch = b[k]
    BY <1>1, <1>8
  <2>2. PICK e \in k..Len(b) :
           /\ \A p \in k..e : b[p] \in NumberChar
           /\ GetTokenNumber(b, k, b[k]) =
                 Token("NUMBER", SubSeq(b, k, e), b, IF e < Len(b) THEN e + 1 ELSE e)
    BY <1>8, <2>1, NumberReads
  <2>3. SubSeq(b, k, e) \in String
    <3>1. \A p \in k..e : b[p] # End
      BY <2>2, <1>3
    <3> QED BY <3>1, <2>1, <1>5
  <2>4. GetToken(b, c) = Token("NUMBER", SubSeq(b, k, e), b, IF e < Len(b) THEN e + 1 ELSE e)
    BY <1>2, <1>3, <1>8, <2>1, <2>2
  <2>5. Good(Token("NUMBER", SubSeq(b, k, e), b, IF e < Len(b) THEN e + 1 ELSE e))
    BY <2>1, <2>3 DEF Token
  <2> QED BY <2>4, <2>5
<1>9. CASE first.ch # End /\ first.ch \notin NumberChar /\ first.ch = Quote
  <2>1. k \in 1..Len(b) /\ c < k /\ b[k] = Quote
    BY <1>1, <1>9
  <2>2. PICK e \in k..Len(b) :
           /\ \A p \in k + 1..e : b[p] \notin {Quote, End}
           /\ GetTokenString(b, k) =
                 IF e < Len(b) /\ b[e + 1] = Quote
                 THEN Token("STRING", SubSeq(b, k + 1, e), b, e + 1)
                 ELSE LET m == IF e < Len(b) THEN e + 1 ELSE e
                      IN  Token("STRING", SubSeq(b, k + 1, e), [b EXCEPT ![m] = End], m - 1)
    BY <2>1, StringReads
  <2>3. SubSeq(b, k + 1, e) \in String
    <3>1. \A p \in k + 1..e : b[p] # End
      BY <2>2
    <3> QED BY <3>1, <2>1, <1>5
  <2> DEFINE m == IF e < Len(b) THEN e + 1 ELSE e
  <2>4. CASE e < Len(b) /\ b[e + 1] = Quote
    <3>1. GetToken(b, c) = Token("STRING", SubSeq(b, k + 1, e), b, e + 1)
      BY <1>2, <1>3, <1>9, <2>2, <2>4
    <3>2. Good(Token("STRING", SubSeq(b, k + 1, e), b, e + 1))
      BY <2>1, <2>3, <2>4 DEF Token
    <3> QED BY <3>1, <3>2
  <2>5. CASE ~(e < Len(b) /\ b[e + 1] = Quote)
    <3>1. GetToken(b, c) = Token("STRING", SubSeq(b, k + 1, e), [b EXCEPT ![m] = End], m - 1)
      BY <1>2, <1>3, <1>9, <2>2, <2>5
    <3>2. m \in 1..Len(b) /\ m - 1 \in c..Len(b) /\ (m - 1 = c => m = k /\ m = c + 1)
      BY <2>1
    <3> HIDE DEF m
    <3>3. Good(Token("STRING", SubSeq(b, k + 1, e), [b EXCEPT ![m] = End], m - 1))
      BY <3>2, <2>1, <2>3, <1>3, <1>6 DEF Token
    <3> QED BY <3>1, <3>3
  <2> QED BY <2>4, <2>5
<1>10. CASE first.ch # End /\ first.ch \notin NumberChar /\ first.ch # Quote
  <2>1. k \in 1..Len(b) /\ c < k /\ first.ch = b[k]
    BY <1>1, <1>10
  <2>2. GetToken(b, c) = GetTokenCommon(b, k, b[k])
    BY <1>2, <1>10, <2>1
  <2>3. CASE b[k] \notin Letter
    <3>1. GetToken(b, c) = Token("ERROR", << >>, b, k)
      BY <2>2, <2>3 DEF GetTokenCommon
    <3>2. Good(Token("ERROR", << >>, b, k))
      BY <2>1, <1>4 DEF Token
    <3> QED BY <3>1, <3>2
  <2>4. CASE b[k] \in Letter
    <3>1. PICK e \in k..Len(b) :
             /\ \A p \in k..e : b[p] \in WordChar
             /\ GetTokenCommon(b, k, b[k]) =
                   IF e < Len(b)
                   THEN Token("STRING", SubSeq(b, k, e), b, e)
                   ELSE Token("STRING", SubSeq(b, k, e), [b EXCEPT ![e] = End], e - 1)
      BY <2>1, <2>4, WordReads
    <3>2. SubSeq(b, k, e) \in String
      <4>1. \A p \in k..e : b[p] # End
        BY <3>1, Characters
      <4> QED BY <4>1, <2>1, <1>5
    <3>3. CASE e < Len(b)
      <4>1. GetToken(b, c) = Token("STRING", SubSeq(b, k, e), b, e)
        BY <2>2, <3>1, <3>3
      <4>2. Good(Token("STRING", SubSeq(b, k, e), b, e))
        BY <2>1, <3>2 DEF Token
      <4> QED BY <4>1, <4>2
    <3>4. CASE ~(e < Len(b))
      <4>1. GetToken(b, c) = Token("STRING", SubSeq(b, k, e), [b EXCEPT ![e] = End], e - 1)
        BY <2>2, <3>1, <3>4
      <4>2. e \in 1..Len(b) /\ e - 1 \in c..Len(b) /\ (e - 1 = c => e = k /\ e = c + 1)
        BY <2>1
      <4>3. Good(Token("STRING", SubSeq(b, k, e), [b EXCEPT ![e] = End], e - 1))
        BY <4>2, <2>1, <3>2, <1>6, <1>10 DEF Token
      <4> QED BY <4>1, <4>3
    <3> QED BY <3>3, <3>4
  <2> QED BY <2>3, <2>4
<1>11. Good(GetToken(b, c))
  BY <1>7, <1>8, <1>9, <1>10
<1> QED BY <1>11

\* NoInfo is an entry, and entries stay entries when one of their fields is set.
LEMMA InfoTypes ==
    /\ NoInfo \in Info
    /\ \A i \in Info, s \in String :
          /\ [i EXCEPT !.name = s] \in Info
          /\ [i EXCEPT !.auth = s] \in Info
          /\ [i EXCEPT !.flag = s] \in Info
<1>1. << >> \in String
  BY EmptySeq DEF String
<1> HIDE DEF String
<1> QED BY <1>1 DEF NoInfo, Info

\* What a token changes has its types.
LEMMA MoveOnTypes ==
    ASSUME TypeOK, NEW token, token = GetToken(buff, count), MoveOn(token)
    PROVE  /\ buff' \in Seq(Char) /\ Len(buff') = Len(file'.text) /\ count' \in 0..Len(buff')
           /\ token.string \in String
           /\ file' = file /\ late' = late
<1>1. buff \in Seq(Char) /\ count \in 0..Len(buff) /\ Len(buff) = Len(file.text)
  BY DEF TypeOK
<1>2. /\ token.buff \in Seq(Char) /\ Len(token.buff) = Len(buff)
      /\ token.count \in count..Len(buff)
      /\ token.string \in String
  BY <1>1, GetTokenAdvances
<1> QED BY <1>1, <1>2 DEF MoveOn

\* Every variable has its type from the start.
LEMMA TypeInit == Init => TypeOK
<1> SUFFICES ASSUME Init PROVE TypeOK
  OBVIOUS
<1>1. file.text \in Seq(Char)
  BY FileAssumption DEF Init
<1>2. Len(file.text) \in Nat
  BY <1>1
<1>3. /\ buff = file.text /\ count = 0 /\ late = FALSE /\ data = {} /\ info \in Info
      /\ pc = IF file.text = << >> THEN "done" ELSE "name"
  BY InfoTypes DEF Init
<1>4. pc \in {"name", "auth", "flag", "done"}
  BY <1>3
<1>5. buff \in Seq(Char) /\ Len(buff) = Len(file.text) /\ count \in 0..Len(buff)
  BY <1>1, <1>2, <1>3
<1> QED BY <1>3, <1>4, <1>5 DEF TypeOK

\* Every step keeps every variable's type.
LEMMA TypeStep == TypeOK /\ [Next]_vars => TypeOK'
<1> SUFFICES ASSUME TypeOK, [Next]_vars PROVE TypeOK'
  OBVIOUS
<1>1. CASE ReadName
  <2>1. PICK token : /\ token = GetToken(buff, count) /\ MoveOn(token)
                     /\ info' = [NoInfo EXCEPT !.name = token.string]
                     /\ pc' = IF token.kind = "END" THEN "done" ELSE "auth"
                     /\ data' = data
    BY <1>1 DEF ReadName
  <2>2. info' \in Info
    BY <2>1, MoveOnTypes, InfoTypes
  <2> QED BY <2>1, <2>2, MoveOnTypes DEF TypeOK
<1>2. CASE ReadAuth
  <2>1. PICK token : /\ token = GetToken(buff, count) /\ MoveOn(token)
                     /\ info' = [info EXCEPT !.auth = token.string]
                     /\ pc' = "flag" /\ data' = data
    BY <1>2 DEF ReadAuth
  <2>2. info' \in Info
    BY <2>1, MoveOnTypes, InfoTypes DEF TypeOK
  <2> QED BY <2>1, <2>2, MoveOnTypes DEF TypeOK
<1>3. CASE ReadFlag
  <2>1. PICK token : /\ token = GetToken(buff, count) /\ MoveOn(token)
                     /\ info' = [info EXCEPT !.flag = token.string]
                     /\ pc' = "name" /\ data' = Insert(data, info')
    BY <1>3 DEF ReadFlag
  <2>2. info' \in Info
    BY <2>1, MoveOnTypes, InfoTypes DEF TypeOK
  <2>3. data' \subseteq Info
    BY <2>1, <2>2 DEF Insert, TypeOK
  <2> QED BY <2>1, <2>2, <2>3, MoveOnTypes DEF TypeOK
<1>4. CASE Tick
  BY <1>4 DEF Tick, TypeOK
<1>5. CASE GiveUp
  BY <1>5 DEF GiveUp, TypeOK
<1>6. CASE UNCHANGED vars
  BY <1>6 DEF vars, TypeOK
<1> QED BY <1>1, <1>2, <1>3, <1>4, <1>5, <1>6 DEF Next

\* Whatever the text, the position stays within it, its length stays, and no
\* string that is read holds the char that stands for the end.
THEOREM TypeCorrect == Spec => []TypeOK
<1>1. Init => TypeOK
  BY TypeInit
<1>2. TypeOK /\ [Next]_vars => TypeOK'
  BY TypeStep
<1> QED BY <1>1, <1>2, PTL DEF Spec

\* A token leaves less ahead, or there was nothing and is nothing.
LEMMA MoveOnAdvances ==
    ASSUME TypeOK, MoveOn(GetToken(buff, count))
    PROVE  Ahead' < Ahead \/ (Ahead = 0 /\ Ahead' = 0)
<1> DEFINE token == GetToken(buff, count)
           N == Len(buff)
           bit == IF GetChar(buff, count).ch = End THEN 0 ELSE 1
           bit1 == IF GetChar(buff', count').ch = End THEN 0 ELSE 1
<1>1. buff \in Seq(Char) /\ count \in 0..N
  BY DEF TypeOK
<1>2. /\ buff' = token.buff /\ count' = token.count
      /\ Len(buff') = N
      /\ count' \in count..N
      /\ count' = count =>
            \/ count = N /\ buff' = buff
            \/ count < N /\ buff[count + 1] # End /\ buff'[count + 1] = End
  <2>1. buff' = token.buff /\ count' = token.count
    BY DEF MoveOn
  <2> HIDE DEF N
  <2>2. /\ Len(token.buff) = Len(buff)
        /\ token.count \in count..Len(buff)
        /\ token.count = count =>
              \/ count = Len(buff) /\ token.buff = buff
              \/ count < Len(buff) /\ buff[count + 1] # End /\ token.buff[count + 1] = End
    BY <1>1, GetTokenAdvances DEF N
  <2> HIDE DEF token
  <2> QED BY <2>1, <2>2 DEF N
<1>3. Ahead = 2 * (N - count) + bit /\ Ahead' = 2 * (N - count') + bit1
  BY <1>2 DEF Ahead
<1>4. bit \in 0..1 /\ bit1 \in 0..1
  OBVIOUS
<1>5. count = N => bit = 0
  BY <1>1 DEF GetChar
<1>6. count < N /\ buff[count + 1] # End => bit = 1
  BY <1>1 DEF GetChar
<1>7. count' = count /\ count < N /\ buff'[count + 1] = End => bit1 = 0
  BY <1>2 DEF GetChar
<1>8. count' = count /\ buff' = buff => bit1 = bit
  OBVIOUS
<1>9. N \in Nat
  BY <1>1
<1> HIDE DEF token, N, bit, bit1
<1>10. CASE count' = count
  BY <1>1, <1>2, <1>3, <1>5, <1>6, <1>7, <1>8, <1>9, <1>10
<1>11. CASE count' # count
  <2>1. N - count' \in Int /\ N - count \in Int /\ N - count' <= N - count - 1
    BY <1>1, <1>2, <1>9, <1>11
  <2> QED BY <2>1, <1>3, <1>4
<1> QED BY <1>10, <1>11

\* Every token of any text leaves less to read, so that nothing is left after at
\* most twice as many tokens as the text has characters, and the loop stops at
\* the next name.
THEOREM Advances == Spec => ReadingAdvances
<1>1. TypeOK /\ [Next]_vars =>
        [ReadName \/ ReadAuth \/ ReadFlag => Ahead' < Ahead \/ (Ahead = 0 /\ Ahead' = 0)]_vars
  BY MoveOnAdvances DEF ReadName, ReadAuth, ReadFlag
<1> QED BY <1>1, TypeCorrect, PTL DEF Spec, ReadingAdvances

-----------------------------------------------------------------------------
(* A text that is laid out, perhaps cut off.                               *)

\* The text b is the text o up to some position.
CutOff(b, o) ==
    /\ b \in Seq(Char) /\ o \in Seq(Char)
    /\ Len(b) <= Len(o) /\ \A p \in 1..Len(b) : b[p] = o[p]

\* No comment of the gap from x to y has the position d inside.
Outside(o, x, y, d) ==
    \A c, e \in x + 1..y : Comment(o, c, e) => ~(c <= d /\ d < e)

\* What CheckComment makes of the first slash of a comment, in a text that may
\* be cut off within the comment
LEMMA CommentIsSkipped ==
    ASSUME NEW b, NEW o, CutOff(b, o), NEW c \in 1..Len(b), NEW e \in c..Len(o), Comment(o, c, e)
    PROVE  CheckComment(b, GetChar(b, c - 1)) =
              IF e <= Len(b) THEN [ch |-> Newline, count |-> e]
                             ELSE [ch |-> End, count |-> Len(b)]
<1> DEFINE n == Len(b)
           d == c + 1
           rest == Char \ {Newline, End}
           line == Scan(b, d, rest)
<1>0. /\ b \in Seq(Char) /\ n \in Nat /\ Len(o) \in Nat /\ n <= Len(o)
      /\ \A p \in 1..n : b[p] = o[p] /\ o[p] \in Char
  BY DEF CutOff
<1>1. /\ c + 1 < e /\ o[c] = Slash /\ o[c + 1] = Slash /\ o[e] = Newline
      /\ \A p \in c + 2..e - 1 : o[p] \notin {Newline, End}
  BY DEF Comment
<1>2. GetChar(b, c - 1) = [ch |-> Slash, count |-> c]
  BY <1>0, <1>1 DEF GetChar
<1>3. GetChar(b, c) = IF c < n THEN [ch |-> b[c + 1], count |-> c + 1] ELSE [ch |-> End, count |-> n]
  BY <1>0 DEF GetChar
<1>4. End # Slash /\ End # Newline
  BY Characters
<1>5. CASE c = n
  <2>1. CheckComment(b, GetChar(b, c - 1)) = [ch |-> End, count |-> n]
    BY <1>2, <1>3, <1>4, <1>5 DEF CheckComment
  <2> QED BY <2>1, <1>1, <1>5
<1>6. CASE c # n
  <2>1. GetChar(b, c) = [ch |-> Slash, count |-> d]
    BY <1>0, <1>1, <1>3, <1>6
  <2>2. CheckComment(b, GetChar(b, c - 1)) = [ch |-> line.ch, count |-> line.count]
    BY <1>2, <2>1 DEF CheckComment
  <2>3. d \in 0..n
    BY <1>0, <1>6
  <2>4. PICK f \in d..n :
          /\ \A p \in d + 1..f : b[p] \in rest
          /\ f < n => b[f + 1] \notin rest
          /\ line = [string |-> SubSeq(b, d + 1, f),
                     ch |-> GetChar(b, f).ch, count |-> GetChar(b, f).count]
    <3> HIDE DEF d, rest
    <3>1. \E f \in d..Len(b) : ScanStops(b, d, rest, f)
      BY <1>0, <2>3, ScanReads
    <3> QED BY <3>1 DEF ScanStops
  <2>5. GetChar(b, f) = IF f < n THEN [ch |-> b[f + 1], count |-> f + 1]
                                 ELSE [ch |-> End, count |-> n]
    BY <1>0 DEF GetChar
  <2>6. f < n => b[f + 1] \in {Newline, End}
    BY <1>0, <2>4
  <2>7. CASE e <= n
    <3>1. f < e
      <4>1. b[e] = Newline
        BY <1>0, <1>1, <2>7
      <4> QED BY <4>1, <1>1, <2>4
    <3>2. f + 1 = e
      <4>1. f < n /\ b[f + 1] = o[f + 1]
        BY <3>1, <2>7, <1>0
      <4>2. f + 1 \notin c + 2..e - 1
        BY <4>1, <2>6, <1>1
      <4> QED BY <4>2, <3>1, <2>4
    <3>3. GetChar(b, f) = [ch |-> Newline, count |-> e]
      BY <3>2, <2>5, <2>7, <1>0, <1>1
    <3> HIDE DEF line
    <3> QED BY <3>3, <2>2, <2>4, <2>7
  <2>8. CASE e > n
    <3>1. f = n
      <4>1. ASSUME f < n PROVE FALSE
        <5>1. f + 1 \in c + 2..e - 1 /\ b[f + 1] = o[f + 1]
          BY <4>1, <2>8, <1>0
        <5> QED BY <5>1, <4>1, <2>6, <1>1
      <4> QED BY <4>1
    <3>2. GetChar(b, f) = [ch |-> End, count |-> n]
      BY <3>1, <2>5
    <3> HIDE DEF line
    <3> QED BY <3>2, <2>2, <2>4, <2>8
  <2> QED BY <2>7, <2>8
<1> QED BY <1>5, <1>6

\* FirstChar skips a gap, to the end of the text where the gap is cut off.
LEMMA GapIsSkipped ==
    ASSUME NEW b, NEW o, CutOff(b, o), NEW x \in 0..Len(b), NEW y \in x..Len(o), Gap(o, x, y)
    PROVE  FirstChar(b, x) = IF y <= Len(b) THEN FirstChar(b, y)
                                            ELSE [ch |-> End, count |-> Len(b)]
<1> DEFINE n == Len(b)
           Result == IF y <= n THEN FirstChar(b, y) ELSE [ch |-> End, count |-> n]
           Good == {d \in 0..n : d \in x..y /\ Outside(o, x, y, d) => FirstChar(b, d) = Result}
<1>0. /\ b \in Seq(Char) /\ n \in Nat /\ Len(o) \in Nat /\ n <= Len(o)
      /\ \A p \in 1..n : b[p] = o[p] /\ o[p] \in Char
  BY DEF CutOff
<1>1. ASSUME NEW d \in 0..n, \A e \in d + 1..n : e \in Good PROVE d \in Good
  <2> SUFFICES ASSUME d \in x..y, Outside(o, x, y, d) PROVE FirstChar(b, d) = Result
    OBVIOUS
  <2> DEFINE last == GetChar(b, d)
             checked == CheckComment(b, last)
  <2>1. FirstChar(b, d) = IF last.ch = End THEN last
                          ELSE IF last.ch \in Blank THEN FirstChar(b, last.count)
                          ELSE IF checked.ch = Newline THEN FirstChar(b, checked.count)
                          ELSE checked
    BY <1>0, FirstCharSkips
  <2>2. last = IF d < n THEN [ch |-> b[d + 1], count |-> d + 1] ELSE [ch |-> End, count |-> n]
    BY <1>0 DEF GetChar
  <2>3. CASE d = y
    BY <2>3, <1>0
  <2>4. CASE d # y /\ d = n
    <3>1. FirstChar(b, d) = [ch |-> End, count |-> n]
      BY <2>1, <2>2, <2>4
    <3> QED BY <3>1, <2>4, <1>0
  <2>5. CASE d < y /\ d < n /\ b[d + 1] \in Blank
    <3>1. last.ch = b[d + 1] /\ last.count = d + 1 /\ b[d + 1] # End
      BY <2>2, <2>5, Characters
    <3>2. FirstChar(b, d) = FirstChar(b, d + 1)
      <4> HIDE DEF last
      <4> QED BY <2>1, <2>5, <3>1
    <3>3. Outside(o, x, y, d + 1)
      <4> SUFFICES ASSUME NEW c \in x + 1..y, NEW e \in x + 1..y, Comment(o, c, e),
                          c <= d + 1, d + 1 < e
                   PROVE  FALSE
        BY DEF Outside
      <4>1. c # d + 1
        <5>1. o[d + 1] \in Blank /\ o[c] = Slash
          BY <1>0, <2>5 DEF Comment
        <5> QED BY <5>1, Characters
      <4> QED BY <4>1, <1>0 DEF Outside
    <3>4. d + 1 \in Good /\ d + 1 \in x..y
      <4> HIDE DEF Good
      <4> QED BY <1>0, <1>1, <2>5
    <3> QED BY <3>2, <3>3, <3>4
  <2>6. CASE d < y /\ d < n /\ b[d + 1] \notin Blank
    <3>1. PICK c \in x + 1..d + 1, e \in d + 1..y : Comment(o, c, e)
      <4>1. d + 1 \in x + 1..y /\ o[d + 1] \notin Blank
        BY <1>0, <2>6
      <4> QED BY <4>1 DEF Gap
    <3>2. /\ c + 1 < e /\ o[c] = Slash /\ o[c + 1] = Slash /\ o[e] = Newline
          /\ \A p \in c + 2..e - 1 : o[p] \notin {Newline, End}
      BY <3>1 DEF Comment
    <3>3. c = d + 1
      <4>1. o[d + 1] # Newline
        BY <1>0, <2>6, Characters
      <4>2. d < e /\ c \in x + 1..y /\ e \in x + 1..y
        BY <4>1, <3>2, <1>0
      <4>3. ~(c <= d)
        BY <4>2, <3>1 DEF Outside
      <4> QED BY <4>3, <1>0
    <3>4. checked = IF e <= n THEN [ch |-> Newline, count |-> e] ELSE [ch |-> End, count |-> n]
      <4>1. c \in 1..n /\ e \in c..Len(o) /\ c - 1 = d
        BY <3>3, <3>1, <2>6, <1>0
      <4>2. CheckComment(b, GetChar(b, c - 1)) =
              IF e <= Len(b) THEN [ch |-> Newline, count |-> e]
                             ELSE [ch |-> End, count |-> Len(b)]
        <5> HIDE DEF n
        <5>1. c \in 1..Len(b)
          BY <4>1 DEF n
        <5> QED BY <5>1, <4>1, <3>1, CommentIsSkipped
      <4>3. checked = CheckComment(b, GetChar(b, c - 1))
        BY <4>1
      <4> HIDE DEF checked
      <4> QED BY <4>2, <4>3
    <3>5. last.ch # End /\ last.ch \notin Blank
      <4>1. b[d + 1] = Slash
        <5>1. d + 1 \in 1..n
          BY <1>0, <2>6
        <5> QED BY <5>1, <1>0, <3>2, <3>3
      <4>2. last.ch = b[d + 1]
        BY <2>2, <2>6
      <4> HIDE DEF last
      <4> QED BY <4>1, <4>2, <2>6, Characters
    <3> HIDE DEF last, checked
    <3>6. CASE e <= n
      <4>1. FirstChar(b, d) = FirstChar(b, e)
        BY <2>1, <3>4, <3>5, <3>6
      <4>2. Outside(o, x, y, e)
        <5> SUFFICES ASSUME NEW k \in x + 1..y, NEW f \in x + 1..y, Comment(o, k, f),
                            k <= e, e < f
                     PROVE  FALSE
          BY DEF Outside
        <5>1. /\ o[k] = Slash /\ o[k + 1] = Slash
              /\ \A p \in k + 2..f - 1 : o[p] \notin {Newline, End}
          BY DEF Comment
        <5>2. ~(k <= d)
          BY <3>1, <1>0 DEF Outside
        <5>3. k # e /\ k + 1 # e
          BY <5>1, <3>2, Characters
        <5>4. e \in k + 2..f - 1
          BY <5>3, <1>0
        <5> QED BY <5>1, <5>4, <3>2
      <4>3. e \in Good /\ e \in x..y
        <5> HIDE DEF Good
        <5> QED BY <1>0, <1>1, <3>1, <3>6
      <4> QED BY <4>1, <4>2, <4>3
    <3>7. CASE e > n
      <4>1. FirstChar(b, d) = [ch |-> End, count |-> n]
        BY <2>1, <3>4, <3>5, <3>7, <1>0, Characters
      <4>2. y > n
        BY <3>1, <3>7, <1>0
      <4> QED BY <4>1, <4>2, <1>0
    <3> QED BY <3>6, <3>7, <1>0
  <2> QED BY <2>3, <2>4, <2>5, <2>6, <1>0
<1>2. 0..n \subseteq Good
  <2> HIDE DEF Good, n
  <2> QED BY <1>0, <1>1, FromTheEnd
<1>3. x \in Good
  <2> HIDE DEF Good
  <2> QED BY <1>2
<1>4. Outside(o, x, y, x)
  BY DEF Outside
<1> QED BY <1>3, <1>4, <1>0

\* Nothing can be read any more: the position is at the end of the text, or
\* before its last character, which is the end.
AtEnd(b, c) == c = Len(b) \/ (c + 1 = Len(b) /\ b[Len(b)] = End)

\* Nothing is read at the end, and the position stays there.
LEMMA NothingAtEnd ==
    ASSUME NEW b \in Seq(Char), NEW c \in 0..Len(b), AtEnd(b, c)
    PROVE  GetToken(b, c) = Token("END", << >>, b, Len(b))
<1>1. GetChar(b, c) = [ch |-> End, count |-> Len(b)]
  BY DEF GetChar, AtEnd
<1>2. FirstChar(b, c) = [ch |-> End, count |-> Len(b)]
  BY <1>1, FirstCharSkips
<1> QED BY <1>2, Characters DEF GetToken

\* A character that no gap and no comment begins with is the first of a token.
LEMMA TokenBegins ==
    ASSUME NEW b \in Seq(Char), NEW y \in 0..Len(b) - 1,
           b[y + 1] \in {Quote} \cup NumberChar \cup WordChar
    PROVE  FirstChar(b, y) = [ch |-> b[y + 1], count |-> y + 1]
<1> DEFINE last == GetChar(b, y)
<1>1. last = [ch |-> b[y + 1], count |-> y + 1]
  BY DEF GetChar
<1>2. b[y + 1] # End /\ b[y + 1] # Slash /\ b[y + 1] \notin Blank /\ b[y + 1] # Newline
  BY Characters
<1>3. CheckComment(b, last) = last
  BY <1>1, <1>2 DEF CheckComment
<1>4. FirstChar(b, y) = IF last.ch = End THEN last
                        ELSE IF last.ch \in Blank THEN FirstChar(b, last.count)
                        ELSE IF CheckComment(b, last).ch = Newline
                             THEN FirstChar(b, CheckComment(b, last).count)
                             ELSE CheckComment(b, last)
  BY FirstCharSkips
<1> HIDE DEF last
<1> QED BY <1>1, <1>2, <1>3, <1>4

\* A number is read up to the blank after it, or up to the end of the text.
LEMMA NumberFieldIsRead ==
    ASSUME NEW b, NEW o, CutOff(b, o), NEW f \in Field, NumberField(o, f), f.from < Len(b)
    PROVE  GetToken(b, f.from) =
              IF f.to < Len(b)
              THEN Token("NUMBER", SubSeq(b, f.from + 1, f.to), b, f.to + 1)
              ELSE Token("NUMBER", SubSeq(b, f.from + 1, Len(b)), b, Len(b))
<1> DEFINE n == Len(b)
           y == f.from
           k == f.from + 1
<1>0. /\ b \in Seq(Char) /\ n \in Nat /\ Len(o) \in Nat /\ n <= Len(o)
      /\ \A p \in 1..n : b[p] = o[p]
      /\ y \in Nat /\ f.to \in Nat /\ y < n /\ k \in 1..n /\ y \in 0..n - 1
      /\ y < f.to /\ f.to < Len(o)
      /\ \A p \in k..f.to : o[p] \in NumberChar
      /\ o[f.to + 1] \in Blank
  BY DEF CutOff, Field, NumberField
<1>1. b[k] \in NumberChar /\ b[k] # End /\ b[k] # Quote
  BY <1>0, Characters
<1>2. FirstChar(b, y) = [ch |-> b[k], count |-> k]
  BY <1>0, <1>1, TokenBegins
<1>3. GetToken(b, y) = GetTokenNumber(b, k, b[k])
  BY <1>1, <1>2 DEF GetToken
<1> HIDE DEF k
<1>4. PICK e \in k..n :
        /\ \A p \in k..e : b[p] \in NumberChar
        /\ e < n => b[e + 1] \notin NumberChar
        /\ GetTokenNumber(b, k, b[k]) =
              Token("NUMBER", SubSeq(b, k, e), b, IF e < n THEN e + 1 ELSE e)
  BY <1>0, <1>1, NumberReads
<1>5. o[f.to + 1] \notin NumberChar
  BY <1>0, Characters
<1>6. k = f.from + 1
  BY DEF k
<1>7. CASE f.to < n
  <2>1. ~(e < f.to)
    <3> SUFFICES ASSUME e < f.to PROVE FALSE
      OBVIOUS
    <3>1. e < n /\ e + 1 \in k..f.to /\ e + 1 \in 1..n
      BY <1>0, <1>4, <1>7
    <3>2. b[e + 1] = o[e + 1]
      BY <3>1, <1>0
    <3> QED BY <3>1, <3>2, <1>0, <1>4
  <2>2. ~(f.to < e)
    <3>1. b[f.to + 1] = o[f.to + 1]
      <4>1. f.to + 1 \in 1..n
        BY <1>0, <1>7
      <4> QED BY <4>1, <1>0
    <3>2. f.to < e => f.to + 1 \in k..e
      BY <1>0, <1>4, <1>6
    <3> QED BY <3>1, <3>2, <1>4, <1>5
  <2>3. e = f.to
    BY <2>1, <2>2, <1>0, <1>4
  <2> QED BY <2>3, <1>3, <1>4, <1>6, <1>7
<1>8. CASE ~(f.to < n)
  <2>1. ~(e < n)
    <3>1. e < n => e + 1 \in k..f.to /\ b[e + 1] = o[e + 1]
      BY <1>0, <1>4, <1>8
    <3> QED BY <3>1, <1>0, <1>4
  <2>2. e = n
    BY <2>1, <1>0, <1>4
  <2> QED BY <2>2, <1>3, <1>4, <1>6, <1>8
<1> QED BY <1>7, <1>8

\* A word is read up to what comes after it.  The end of the text takes the
\* place of its last character.
LEMMA WordFieldIsRead ==
    ASSUME NEW b, NEW o, CutOff(b, o), NEW f \in Field, WordField(o, f), f.from < Len(b)
    PROVE  GetToken(b, f.from) =
              IF f.to < Len(b)
              THEN Token("STRING", SubSeq(b, f.from + 1, f.to), b, f.to)
              ELSE Token("STRING", SubSeq(b, f.from + 1, Len(b)),
                         [b EXCEPT ![Len(b)] = End], Len(b) - 1)
<1> DEFINE n == Len(b)
           y == f.from
           k == f.from + 1
<1>0. /\ b \in Seq(Char) /\ n \in Nat /\ Len(o) \in Nat /\ n <= Len(o)
      /\ \A p \in 1..n : b[p] = o[p]
      /\ y \in Nat /\ f.to \in Nat /\ y < n /\ k \in 1..n /\ y \in 0..n - 1
      /\ y < f.to /\ f.to < Len(o)
      /\ o[k] \in Letter
      /\ \A p \in k..f.to : o[p] \in WordChar
      /\ o[f.to + 1] \notin WordChar
  BY DEF CutOff, Field, WordField
<1>1. b[k] \in Letter /\ b[k] \in WordChar /\ b[k] # End /\ b[k] \notin NumberChar /\ b[k] # Quote
  BY <1>0, Characters
<1>2. FirstChar(b, y) = [ch |-> b[k], count |-> k]
  BY <1>0, <1>1, TokenBegins
<1>3. GetToken(b, y) = GetTokenCommon(b, k, b[k])
  BY <1>1, <1>2 DEF GetToken
<1> HIDE DEF k
<1>4. PICK e \in k..n :
        /\ \A p \in k..e : b[p] \in WordChar
        /\ e < n => b[e + 1] \notin WordChar
        /\ GetTokenCommon(b, k, b[k]) =
              IF e < n
              THEN Token("STRING", SubSeq(b, k, e), b, e)
              ELSE Token("STRING", SubSeq(b, k, e), [b EXCEPT ![e] = End], e - 1)
  BY <1>0, <1>1, WordReads
<1>6. k = f.from + 1
  BY DEF k
<1>7. CASE f.to < n
  <2>1. ~(e < f.to)
    <3> SUFFICES ASSUME e < f.to PROVE FALSE
      OBVIOUS
    <3>1. e < n /\ e + 1 \in k..f.to /\ e + 1 \in 1..n
      BY <1>0, <1>4, <1>7
    <3>2. b[e + 1] = o[e + 1]
      BY <3>1, <1>0
    <3> QED BY <3>1, <3>2, <1>0, <1>4
  <2>2. ~(f.to < e)
    <3> SUFFICES ASSUME f.to < e PROVE FALSE
      OBVIOUS
    <3>1. b[f.to + 1] = o[f.to + 1]
      <4>1. f.to + 1 \in 1..n
        BY <1>0, <1>7
      <4> QED BY <4>1, <1>0
    <3>2. f.to + 1 \in k..e
      BY <1>0, <1>4, <1>6
    <3> QED BY <3>1, <3>2, <1>0, <1>4
  <2>3. e = f.to
    BY <2>1, <2>2, <1>0, <1>4
  <2> QED BY <2>3, <1>3, <1>4, <1>6, <1>7
<1>8. CASE ~(f.to < n)
  <2>1. ~(e < n)
    <3>1. e < n => e + 1 \in k..f.to /\ b[e + 1] = o[e + 1]
      BY <1>0, <1>4, <1>8
    <3> QED BY <3>1, <1>0, <1>4
  <2>2. e = n
    BY <2>1, <1>0, <1>4
  <2>3. GetToken(b, y) = Token("STRING", SubSeq(b, k, n), [b EXCEPT ![n] = End], n - 1)
    BY <2>2, <1>3, <1>4
  <2> QED BY <2>3, <1>6, <1>8
<1> QED BY <1>7, <1>8

\* A string in quotes is read to its closing quote.  The end of the text takes
\* the place of its last character.
LEMMA QuotedFieldIsRead ==
    ASSUME NEW b, NEW o, CutOff(b, o), NEW f \in Field, QuotedField(o, f), f.from <= Len(b)
    PROVE  GetToken(b, f.from - 1) =
              IF f.to < Len(b)
              THEN Token("STRING", SubSeq(b, f.from + 1, f.to), b, f.to + 1)
              ELSE Token("STRING", SubSeq(b, f.from + 1, Len(b)),
                         [b EXCEPT ![Len(b)] = End], Len(b) - 1)
<1> DEFINE n == Len(b)
           y == f.from - 1
           k == f.from
<1>0. /\ b \in Seq(Char) /\ n \in Nat /\ Len(o) \in Nat /\ n <= Len(o)
      /\ \A p \in 1..n : b[p] = o[p]
      /\ f.to \in Nat /\ k \in 1..n /\ y \in 0..n - 1 /\ y + 1 = k
      /\ k <= f.to /\ f.to < Len(o)
      /\ o[k] = Quote /\ o[f.to + 1] = Quote
      /\ \A p \in k + 1..f.to : o[p] \notin {Quote, End}
  BY DEF CutOff, Field, QuotedField
<1>1. b[k] = Quote /\ b[k] # End /\ b[k] \notin NumberChar
  BY <1>0, Characters
<1>2. FirstChar(b, y) = [ch |-> b[k], count |-> k]
  BY <1>0, <1>1, TokenBegins
<1>3. GetToken(b, y) = GetTokenString(b, k)
  BY <1>1, <1>2 DEF GetToken
<1> HIDE DEF k, y
<1>4. PICK e \in k..n :
        /\ \A p \in k + 1..e : b[p] \notin {Quote, End}
        /\ e < n => b[e + 1] \in {Quote, End}
        /\ GetTokenString(b, k) =
              IF e < n /\ b[e + 1] = Quote
              THEN Token("STRING", SubSeq(b, k + 1, e), b, e + 1)
              ELSE LET m == IF e < n THEN e + 1 ELSE e
                   IN  Token("STRING", SubSeq(b, k + 1, e), [b EXCEPT ![m] = End], m - 1)
  BY <1>0, StringReads
<1>6. k = f.from /\ y = f.from - 1
  BY DEF k, y
<1>7. CASE f.to < n
  <2>1. ~(e < f.to)
    <3>1. e < f.to => e < n /\ e + 1 \in k + 1..f.to /\ b[e + 1] = o[e + 1]
      BY <1>0, <1>4, <1>7
    <3> QED BY <3>1, <1>0, <1>4
  <2>2. b[f.to + 1] = Quote
    BY <1>0, <1>7
  <2>3. ~(f.to < e)
    <3>1. f.to < e => f.to + 1 \in k + 1..e
      BY <1>0, <1>4
    <3> QED BY <3>1, <2>2, <1>4
  <2>4. e = f.to
    BY <2>1, <2>3, <1>0, <1>4
  <2> QED BY <2>2, <2>4, <1>3, <1>4, <1>6, <1>7
<1>8. CASE ~(f.to < n)
  <2>1. ~(e < n)
    <3>1. e < n => e + 1 \in k + 1..f.to /\ b[e + 1] = o[e + 1]
      BY <1>0, <1>4, <1>8
    <3> QED BY <3>1, <1>0, <1>4
  <2>2. e = n
    BY <2>1, <1>0, <1>4
  <2> DEFINE m == IF e < n THEN e + 1 ELSE e
  <2>3. GetToken(b, y) = Token("STRING", SubSeq(b, k + 1, e), [b EXCEPT ![m] = End], m - 1)
    BY <2>1, <1>3, <1>4
  <2>4. m = n
    BY <2>1, <2>2
  <2> HIDE DEF m
  <2>5. GetToken(b, y) = Token("STRING", SubSeq(b, k + 1, n), [b EXCEPT ![n] = End], n - 1)
    BY <2>2, <2>3, <2>4
  <2> QED BY <2>5, <1>6, <1>8
<1> QED BY <1>7, <1>8

\* What is left of a text has the strings that the text has there.
LEMMA SameStrings ==
    ASSUME NEW b, NEW o, CutOff(b, o), NEW i \in 1..Len(b) + 1, NEW j \in 0..Len(b)
    PROVE  SubSeq(b, i, j) = SubSeq(o, i, j)
<1>1. /\ Len(b) \in Nat /\ Len(o) \in Nat /\ Len(b) <= Len(o)
      /\ \A p \in 1..Len(b) : b[p] = o[p] /\ b[p] \in Char
  BY DEF CutOff
<1>2. i \in Int /\ j \in Int /\ \A p \in i..j : b[p] \in Char /\ o[p] \in Char /\ b[p] = o[p]
  BY <1>1
<1>3. /\ SubSeq(b, i, j) \in Seq(Char)
      /\ Len(SubSeq(b, i, j)) = IF i <= j THEN j - i + 1 ELSE 0
      /\ \A p \in 1..j - i + 1 : SubSeq(b, i, j)[p] = b[i + p - 1]
  BY <1>2, SubSeqProperties
<1>4. /\ SubSeq(o, i, j) \in Seq(Char)
      /\ Len(SubSeq(o, i, j)) = IF i <= j THEN j - i + 1 ELSE 0
      /\ \A p \in 1..j - i + 1 : SubSeq(o, i, j)[p] = o[i + p - 1]
  BY <1>2, SubSeqProperties
<1>5. ASSUME NEW p \in 1..Len(SubSeq(b, i, j)) PROVE SubSeq(b, i, j)[p] = SubSeq(o, i, j)[p]
  <2>1. p \in 1..j - i + 1 /\ i + p - 1 \in i..j
    BY <1>3
  <2> QED BY <2>1, <1>2, <1>3, <1>4
<1> QED BY <1>3, <1>4, <1>5, SeqEqual

\* A field that is cut off has the first of its characters.
LEMMA FirstCharacters ==
    ASSUME NEW o \in Seq(Char), NEW i \in 0..Len(o), NEW n \in i..Len(o), NEW j \in n..Len(o)
    PROVE  LET s == SubSeq(o, i + 1, n)
           IN  s = SubSeq(SubSeq(o, i + 1, j), 1, Len(s))
<1> DEFINE s == SubSeq(o, i + 1, n)
           t == SubSeq(o, i + 1, j)
<1>1. /\ s \in Seq(Char) /\ Len(s) = n - i
      /\ \A p \in 1..n - i : s[p] = o[i + p]
  BY SubSeqProperties
<1>2. /\ t \in Seq(Char) /\ Len(t) = j - i
      /\ \A p \in 1..j - i : t[p] = o[i + p]
  BY SubSeqProperties
<1> HIDE DEF s, t
<1>3. /\ SubSeq(t, 1, n - i) \in Seq(Char) /\ Len(SubSeq(t, 1, n - i)) = n - i
      /\ \A p \in 1..n - i : SubSeq(t, 1, n - i)[p] = t[p]
  <2>1. n - i \in Nat /\ \A p \in 1..n - i : t[p] \in Char
    BY <1>2
  <2>2. /\ SubSeq(t, 1, n - i) \in Seq(Char)
        /\ Len(SubSeq(t, 1, n - i)) = IF 1 <= n - i THEN n - i - 1 + 1 ELSE 0
        /\ \A p \in 1..n - i - 1 + 1 : SubSeq(t, 1, n - i)[p] = t[1 + p - 1]
    BY <2>1, SubSeqProperties
  <2> QED BY <2>1, <2>2
<1>4. \A p \in 1..Len(s) : s[p] = SubSeq(t, 1, n - i)[p]
  <2>1. \A p \in 1..n - i : p \in 1..j - i
    OBVIOUS
  <2> QED BY <2>1, <1>1, <1>2, <1>3
<1>5. s = SubSeq(t, 1, n - i)
  BY <1>1, <1>3, <1>4, SeqEqual
<1> QED BY <1>1, <1>5 DEF s, t

\* Where a field is, and what comes before and after it
LEMMA FieldBounds ==
    ASSUME NEW o \in Seq(Char), NEW f \in Field, Readable(o, f)
    PROVE  /\ f.from \in Nat /\ f.to \in Nat /\ f.from <= f.to /\ f.to < Len(o)
           /\ Before(f) \in 0..f.to /\ Beyond(o, f) \in f.to..f.to + 1
           /\ Before(f) = (IF f.quoted THEN f.from - 1 ELSE f.from)
           /\ IF f.quoted THEN f.from >= 1 ELSE f.from < f.to
BY DEF Readable, QuotedField, NumberField, WordField, Before, Beyond, Field

\* The next field is read, whatever is before it, and as it is written, unless
\* the text is cut off before what comes after it.  Then at most its first
\* characters are read, and nothing more can be.
LEMMA FieldIsRead ==
    ASSUME NEW b, NEW o, CutOff(b, o), NEW f \in Field, Readable(o, f),
           NEW x \in 0..Len(b), Gap(o, x, Before(f))
    PROVE  LET t == GetToken(b, x)
           IN  /\ f.to < Len(b) =>
                     /\ t.buff = b /\ t.count = Beyond(o, f)
                     /\ t.string = InField(o, f) /\ t.kind # "END"
               /\ f.to >= Len(b) =>
                     /\ AtEnd(t.buff, t.count)
                     /\ t.string = SubSeq(InField(o, f), 1, Len(t.string))
                     /\ f.to = Len(b) /\ ~f.quoted => t.string = InField(o, f)
<1> DEFINE n == Len(b)
           t == GetToken(b, x)
           Good(u) == /\ f.to < n =>
                            /\ u.buff = b /\ u.count = Beyond(o, f)
                            /\ u.string = InField(o, f) /\ u.kind # "END"
                      /\ f.to >= n =>
                            /\ AtEnd(u.buff, u.count)
                            /\ u.string = SubSeq(InField(o, f), 1, Len(u.string))
                            /\ f.to = n /\ ~f.quoted => u.string = InField(o, f)
<1>0. /\ b \in Seq(Char) /\ o \in Seq(Char) /\ n \in Nat /\ Len(o) \in Nat /\ n <= Len(o)
  BY DEF CutOff
<1>1. /\ f.from \in Nat /\ f.to \in Nat /\ f.from <= f.to /\ f.to < Len(o)
      /\ Before(f) \in x..f.to /\ Beyond(o, f) \in f.to..f.to + 1
      /\ Before(f) = (IF f.quoted THEN f.from - 1 ELSE f.from)
      /\ IF f.quoted THEN f.from >= 1 ELSE f.from < f.to
  BY <1>0, FieldBounds DEF Gap
<1>2. FirstChar(b, x) = IF Before(f) <= n THEN FirstChar(b, Before(f))
                                          ELSE [ch |-> End, count |-> n]
  <2>1. Before(f) \in x..Len(o)
    BY <1>0, <1>1
  <2> QED BY <2>1, GapIsSkipped
<1>3. CASE Before(f) >= n
  <2>1. FirstChar(b, n) = [ch |-> End, count |-> n]
    <3>1. GetChar(b, n) = [ch |-> End, count |-> n]
      BY <1>0 DEF GetChar
    <3> QED BY <3>1, <1>0, FirstCharSkips
  <2>2. FirstChar(b, x) = [ch |-> End, count |-> n]
    BY <2>1, <1>0, <1>1, <1>2, <1>3
  <2>3. t = Token("END", << >>, b, n)
    BY <2>2, Characters DEF GetToken
  <2>4. SubSeq(InField(o, f), 1, 0) = << >>
    BY SubSeqEmpty
  <2>5. f.to >= n /\ ~(f.to = n /\ ~f.quoted)
    BY <1>0, <1>1, <1>3
  <2>6. Good(Token("END", << >>, b, n))
    BY <2>4, <2>5, <1>0, <1>1 DEF Token, AtEnd
  <2> QED BY <2>3, <2>6
<1>4. CASE Before(f) < n
  <2>1. t = GetToken(b, Before(f))
    <3>1. FirstChar(b, x) = FirstChar(b, Before(f))
      BY <1>0, <1>1, <1>2, <1>4
    <3> QED BY <3>1 DEF GetToken
  <2> HIDE DEF t
  <2>2. f.from <= n
    BY <1>0, <1>1, <1>4
  <2> DEFINE i == f.from + 1
             cut == [b EXCEPT ![n] = End]
  <2>9. i \in 1..n + 1 /\ n \in 0..n /\ (f.to < n => f.to \in 0..n)
    BY <1>0, <1>1, <2>2
  <2>3. f.to < n => SubSeq(b, f.from + 1, f.to) = InField(o, f)
    <3>1. f.to < n => SubSeq(b, i, f.to) = SubSeq(o, i, f.to)
      <4> HIDE DEF i
      <4> QED BY <2>9, SameStrings
    <3> QED BY <3>1 DEF InField
  <2>4. /\ SubSeq(b, f.from + 1, n) = SubSeq(o, f.from + 1, n)
        /\ f.to >= n => SubSeq(o, f.from + 1, n) =
                           SubSeq(InField(o, f), 1, Len(SubSeq(o, f.from + 1, n)))
        /\ f.to = n => SubSeq(o, f.from + 1, n) = InField(o, f)
    <3>1. SubSeq(b, i, n) = SubSeq(o, i, n)
      <4> HIDE DEF i
      <4> QED BY <2>9, SameStrings
    <3>2. f.to >= n => SubSeq(o, f.from + 1, n) =
                          SubSeq(SubSeq(o, f.from + 1, f.to), 1, Len(SubSeq(o, f.from + 1, n)))
      <4>1. f.from \in 0..Len(o) /\ n \in f.from..Len(o) /\ (f.to >= n => f.to \in n..Len(o))
        BY <1>0, <1>1, <2>2
      <4> QED BY <4>1, <1>0, FirstCharacters
    <3> QED BY <3>1, <3>2 DEF InField
  <2>5. /\ AtEnd(b, n)
        /\ AtEnd(cut, n - 1)
    <3>1. n \in 1..Len(b) /\ End \in Char
      BY <1>0, <1>1, <1>4, Characters
    <3>2. Len(cut) = n /\ cut[n] = End
      BY <3>1, <1>0, ExceptSeq
    <3> HIDE DEF cut
    <3>3. AtEnd(cut, n - 1)
      BY <3>1, <3>2, <1>0 DEF AtEnd
    <3> QED BY <3>3 DEF AtEnd
  <2> HIDE DEF cut
  <2>6. CASE QuotedField(o, f)
    <3>1. f.quoted /\ Before(f) = f.from - 1 /\ Beyond(o, f) = f.to + 1
      BY <2>6, <1>1 DEF QuotedField, Beyond, WordField
    <3>2. t = IF f.to < n
              THEN Token("STRING", SubSeq(b, f.from + 1, f.to), b, f.to + 1)
              ELSE Token("STRING", SubSeq(b, f.from + 1, n), cut, n - 1)
      <4>1. t = GetToken(b, f.from - 1)
        BY <2>1, <3>1
      <4>2. GetToken(b, f.from - 1) =
              IF f.to < Len(b)
              THEN Token("STRING", SubSeq(b, f.from + 1, f.to), b, f.to + 1)
              ELSE Token("STRING", SubSeq(b, f.from + 1, Len(b)),
                         [b EXCEPT ![Len(b)] = End], Len(b) - 1)
        BY <2>2, <2>6, QuotedFieldIsRead
      <4> QED BY <4>1, <4>2 DEF cut
    <3>3. CASE f.to < n
      <4>1. /\ t.buff = b /\ t.count = Beyond(o, f)
            /\ t.string = InField(o, f) /\ t.kind # "END"
        BY <3>1, <3>2, <3>3, <2>3 DEF Token
      <4>2. Good(t)
        BY <4>1, <3>3, <1>0, <1>1
      <4> QED BY <4>2 DEF t
    <3>4. CASE ~(f.to < n)
      <4>1. /\ t.string = SubSeq(o, f.from + 1, n)
            /\ AtEnd(t.buff, t.count)
        BY <3>2, <3>4, <2>4, <2>5 DEF Token
      <4>2. Good(t)
        BY <4>1, <3>4, <2>4, <1>0, <1>1
      <4> QED BY <4>2 DEF t
    <3> QED BY <3>3, <3>4
  <2>7. CASE NumberField(o, f)
    <3>1. Before(f) = f.from /\ Beyond(o, f) = f.to + 1
      <4>1. ~f.quoted /\ o[f.from + 1] \in NumberChar
        BY <2>7, <1>1 DEF NumberField
      <4>2. ~WordField(o, f)
        BY <4>1, Characters DEF WordField
      <4> QED BY <4>1, <4>2, <1>1 DEF Beyond
    <3>2. t = IF f.to < n
              THEN Token("NUMBER", SubSeq(b, f.from + 1, f.to), b, f.to + 1)
              ELSE Token("NUMBER", SubSeq(b, f.from + 1, n), b, n)
      BY <2>1, <2>7, <3>1, <1>4, NumberFieldIsRead DEF cut
    <3>3. CASE f.to < n
      <4>1. /\ t.buff = b /\ t.count = Beyond(o, f)
            /\ t.string = InField(o, f) /\ t.kind # "END"
        BY <3>1, <3>2, <3>3, <2>3 DEF Token
      <4>2. Good(t)
        BY <4>1, <3>3, <1>0, <1>1
      <4> QED BY <4>2 DEF t
    <3>4. CASE ~(f.to < n)
      <4>1. /\ t.string = SubSeq(o, f.from + 1, n)
            /\ AtEnd(t.buff, t.count)
        BY <3>2, <3>4, <2>4, <2>5 DEF Token
      <4>2. Good(t)
        BY <4>1, <3>4, <2>4, <1>0, <1>1
      <4> QED BY <4>2 DEF t
    <3> QED BY <3>3, <3>4
  <2>8. CASE WordField(o, f)
    <3>1. Before(f) = f.from /\ Beyond(o, f) = f.to
      BY <2>8, <1>1 DEF WordField, Beyond
    <3>2. t = IF f.to < n
              THEN Token("STRING", SubSeq(b, f.from + 1, f.to), b, f.to)
              ELSE Token("STRING", SubSeq(b, f.from + 1, n), cut, n - 1)
      BY <2>1, <2>8, <3>1, <1>4, WordFieldIsRead DEF cut
    <3>3. CASE f.to < n
      <4>1. /\ t.buff = b /\ t.count = Beyond(o, f)
            /\ t.string = InField(o, f) /\ t.kind # "END"
        BY <3>1, <3>2, <3>3, <2>3 DEF Token
      <4>2. Good(t)
        BY <4>1, <3>3, <1>0, <1>1
      <4> QED BY <4>2 DEF t
    <3>4. CASE ~(f.to < n)
      <4>1. /\ t.string = SubSeq(o, f.from + 1, n)
            /\ AtEnd(t.buff, t.count)
        BY <3>2, <3>4, <2>4, <2>5 DEF Token
      <4>2. Good(t)
        BY <4>1, <3>4, <2>4, <1>0, <1>1
      <4> QED BY <4>2 DEF t
    <3> QED BY <3>3, <3>4
  <2> QED BY <2>6, <2>7, <2>8 DEF Readable
<1> QED BY <1>0, <1>1, <1>3, <1>4

-----------------------------------------------------------------------------
(* The players that a list names.                                          *)

\* Of the first k players, one has the auth id of each of them.
LEMMA EntriesHaveAuths ==
    ASSUME NEW listed \in Seq(Info), NEW k \in 0..Len(listed), NEW h \in 1..k
    PROVE  \E e \in Entries(listed, k) : e.auth = listed[h].auth
<1> DEFINE Same == {j \in 1..k : listed[j].auth = listed[h].auth}
<1>1. PICK m \in Same : \A n \in Same : m <= n
  <2>1. Same \in SUBSET Nat /\ h \in Same
    OBVIOUS
  <2> HIDE DEF Same
  <2> QED BY <2>1, LeastNumber
<1>2. \A n \in 1..m - 1 : listed[n].auth # listed[m].auth
  BY <1>1
<1>3. listed[m] \in Entries(listed, k)
  BY <1>1, <1>2 DEF Entries
<1> QED BY <1>1, <1>3

\* The next player of the list is inserted as the list means it.
LEMMA EntriesGrow ==
    ASSUME NEW listed \in Seq(Info), NEW k \in Nat, k < Len(listed)
    PROVE  Insert(Entries(listed, k), listed[k + 1]) = Entries(listed, k + 1)
<1> DEFINE First(n) == {j \in 1..n : \A h \in 1..j - 1 : listed[h].auth # listed[j].auth}
<1>1. Entries(listed, k) = {listed[i] : i \in First(k)}
      /\ Entries(listed, k + 1) = {listed[i] : i \in First(k + 1)}
  BY DEF Entries
<1>2. CASE \E e \in Entries(listed, k) : e.auth = listed[k + 1].auth
  <2>1. PICK i \in First(k) : listed[i].auth = listed[k + 1].auth
    BY <1>1, <1>2
  <2>2. i \in 1..k + 1 - 1
    BY <2>1
  <2>3. First(k + 1) = First(k)
    <3>1. k + 1 \notin First(k + 1)
      BY <2>1, <2>2
    <3>2. \A j \in 1..k + 1 : j = k + 1 \/ j \in 1..k
      OBVIOUS
    <3> QED BY <3>1, <3>2
  <2> QED BY <1>1, <1>2, <2>3 DEF Insert
<1>3. CASE ~\E e \in Entries(listed, k) : e.auth = listed[k + 1].auth
  <2>1. \A h \in 1..k : listed[h].auth # listed[k + 1].auth
    BY <1>3, EntriesHaveAuths
  <2>2. First(k + 1) = First(k) \cup {k + 1}
    <3>1. k + 1 \in First(k + 1)
      BY <2>1
    <3>2. \A j \in 1..k + 1 : j = k + 1 \/ j \in 1..k
      OBVIOUS
    <3>3. \A j \in 1..k : j \in 1..k + 1
      OBVIOUS
    <3> QED BY <3>1, <3>2, <3>3
  <2>3. Entries(listed, k + 1) = Entries(listed, k) \cup {listed[k + 1]}
    <3> HIDE DEF First
    <3> QED BY <1>1, <2>2
  <2> QED BY <1>3, <2>3 DEF Insert
<1> QED BY <1>2, <1>3

\* The first players of a list are players of it.
LEMMA EntriesOfList ==
    ASSUME NEW listed \in Seq(Info), NEW k \in 0..Len(listed)
    PROVE  Entries(listed, k) \subseteq Entries(listed, Len(listed))
<1>1. \A i \in 1..k : i \in 1..Len(listed)
  OBVIOUS
<1> QED BY <1>1 DEF Entries

\* The flags of the players of a list are the list's.
LEMMA ListedFlags ==
    ASSUME NEW listed \in Seq(Info), NEW e \in Entries(listed, Len(listed))
    PROVE  e.flag = SubSeq(e.flag, 1, Len(e.flag))
<1>1. PICK i \in 1..Len(listed) : e = listed[i]
  BY DEF Entries
<1>2. e \in Info
  BY <1>1
<1>3. e.flag \in String
  BY <1>2 DEF Info
<1> QED BY <1>3, SubSeqFull DEF String

-----------------------------------------------------------------------------
(* The reading of a list that is laid out.                                 *)

\* The beginning of a text is the text, cut off.
LEMMA BeginningIsCutOff ==
    ASSUME NEW s \in Seq(Char), NEW t \in Seq(Char)
    PROVE  CutOff(s, s \o t) /\ s \o t \in Seq(Char)
<1>1. Len(s) \in Nat /\ Len(t) \in Nat
  OBVIOUS
<1>2. /\ s \o t \in Seq(Char)
      /\ Len(s \o t) = Len(s) + Len(t)
      /\ \A i \in 1..Len(s) + Len(t) : (s \o t)[i] = IF i <= Len(s) THEN s[i] ELSE t[i - Len(s)]
  BY ConcatProperties
<1>3. \A i \in 1..Len(s) : i \in 1..Len(s) + Len(t)
  BY <1>1
<1> HIDE DEF Char
<1> QED BY <1>1, <1>2, <1>3 DEF CutOff

\* What is known of a file that somebody wrote as a list
LEMMA WrittenFile ==
    ASSUME NEW f \in File, f.written
    PROVE  /\ CutOff(f.text, Original(f)) /\ Original(f) \in Seq(Char)
           /\ f.listed \in Seq(Info) /\ f.fields \in Seq(Field)
           /\ Len(f.fields) = 3 * Len(f.listed)
           /\ \A i \in 1..Len(f.fields) :
                 /\ f.fields[i] \in Field
                 /\ Readable(Original(f), f.fields[i])
                 /\ Gap(Original(f), Reached(f, i - 1), Before(f.fields[i]))
           /\ Gap(Original(f), Reached(f, Len(f.fields)), Len(Original(f)))
           /\ \A k \in 1..Len(f.listed) :
                 f.listed[k] = [name |-> InField(Original(f), f.fields[3 * k - 2]),
                                auth |-> InField(Original(f), f.fields[3 * k - 1]),
                                flag |-> InField(Original(f), f.fields[3 * k])]
<1>1. /\ f.text \in Seq(Char) /\ f.rest \in Seq(Char)
      /\ f.listed \in Seq(Info) /\ f.fields \in Seq(Field)
      /\ LaidOut(f)
  BY FileAssumption
<1>3. CutOff(f.text, Original(f)) /\ Original(f) \in Seq(Char)
  BY <1>1, BeginningIsCutOff DEF Original
<1>4. DOMAIN f.fields = 1..Len(f.fields) /\ DOMAIN f.listed = 1..Len(f.listed)
  BY <1>1
<1>5. \A i \in 1..Len(f.fields) : f.fields[i] \in Field
  BY <1>1
<1>6. /\ Len(f.fields) = 3 * Len(f.listed)
      /\ \A i \in DOMAIN f.fields :
            /\ Readable(Original(f), f.fields[i])
            /\ Gap(Original(f), Reached(f, i - 1), Before(f.fields[i]))
      /\ Gap(Original(f), Reached(f, Len(f.fields)), Len(Original(f)))
      /\ \A k \in DOMAIN f.listed :
            f.listed[k] = [name |-> InField(Original(f), f.fields[3 * k - 2]),
                           auth |-> InField(Original(f), f.fields[3 * k - 1]),
                           flag |-> InField(Original(f), f.fields[3 * k])]
  <2> HIDE DEF Original, Reached, Readable, Gap, InField
  <2> QED BY <1>1 DEF LaidOut
<1> HIDE DEF Original, Reached, Readable, Gap, InField, CutOff
<1> QED BY <1>1, <1>3, <1>4, <1>5, <1>6

\* In a complete list the text goes on after every field but the last.
LEMMA FieldsInOrder ==
    ASSUME NEW f \in File, Complete(f), NEW i \in 1..Len(f.fields), i < Len(f.fields)
    PROVE  f.fields[i].to < Len(f.text)
<1> DEFINE o == Original(f)
           g == f.fields[i]
           h == f.fields[i + 1]
<1>1. i \in Nat /\ i + 1 \in 1..Len(f.fields) /\ i + 1 - 1 = i
  BY WrittenFile DEF Complete
<1>2. /\ o \in Seq(Char) /\ g \in Field /\ h \in Field /\ Readable(o, g) /\ Readable(o, h)
      /\ Gap(o, Reached(f, i), Before(h))
  BY <1>1, WrittenFile DEF Complete
<1>3. Reached(f, i) = Beyond(o, g)
  BY <1>1 DEF Reached
<1>4. h.to + (IF h.quoted THEN 1 ELSE 0) <= Len(f.text)
  <2>1. f.fields \in Seq(Field)
    BY WrittenFile DEF Complete
  <2> QED BY <1>1, <2>1 DEF Complete
<1>5. Len(f.text) \in Nat
  BY FileAssumption
<1> HIDE DEF o, g, h
<1>6. Beyond(o, g) <= Before(h)
  BY <1>2, <1>3 DEF Gap
<1>7. Beyond(o, g) \in g.to..g.to + 1 /\ g.to \in Nat
  BY <1>2, FieldBounds
<1>8. /\ Before(h) = (IF h.quoted THEN h.from - 1 ELSE h.from)
      /\ IF h.quoted THEN h.from >= 1 ELSE h.from < h.to
      /\ h.from \in Nat /\ h.to \in Nat /\ h.from <= h.to
  BY <1>2, FieldBounds
<1>9. Before(h) < Len(f.text)
  BY <1>4, <1>5, <1>8
<1>10. g.to < Len(f.text)
  BY <1>5, <1>6, <1>7, <1>8, <1>9
<1> QED BY <1>10 DEF g

\* The token after the first i - 1 fields of a list
LEMMA NextField ==
    ASSUME NEW f \in File, f.written, NEW i \in 1..Len(f.fields),
           Reached(f, i - 1) \in 0..Len(f.text)
    PROVE  LET t == GetToken(f.text, Reached(f, i - 1))
               s == InField(Original(f), f.fields[i])
           IN  \/ t.buff = f.text /\ t.count = Reached(f, i) /\ t.string = s /\ t.kind # "END"
               \/ /\ AtEnd(t.buff, t.count)
                  /\ t.string = SubSeq(s, 1, Len(t.string))
                  /\ Complete(f) => t.string = s /\ i = Len(f.fields)
<1> DEFINE n == Len(f.text)
           g == f.fields[i]
           x == Reached(f, i - 1)
           t == GetToken(f.text, x)
           s == InField(Original(f), g)
<1>1. /\ CutOff(f.text, Original(f)) /\ g \in Field /\ Readable(Original(f), g)
      /\ Gap(Original(f), x, Before(g))
  BY WrittenFile
<1>2. /\ g.to < n => /\ t.buff = f.text /\ t.count = Beyond(Original(f), g)
                     /\ t.string = s /\ t.kind # "END"
      /\ g.to >= n => /\ AtEnd(t.buff, t.count)
                      /\ t.string = SubSeq(s, 1, Len(t.string))
                      /\ g.to = n /\ ~g.quoted => t.string = s
  <2> HIDE DEF g, x
  <2> QED BY <1>1, FieldIsRead DEF x
<1>3. Reached(f, i) = Beyond(Original(f), g)
  BY DEF Reached
<1>4. g.to \in Nat /\ n \in Nat
  BY <1>1, FileAssumption DEF Field
<1>5. Complete(f) /\ g.to >= n => g.to = n /\ ~g.quoted /\ i = Len(f.fields)
  <2> SUFFICES ASSUME Complete(f), g.to >= n PROVE g.to = n /\ ~g.quoted /\ i = Len(f.fields)
    OBVIOUS
  <2>1. f.fields \in Seq(Field)
    BY WrittenFile
  <2>2. g.to + (IF g.quoted THEN 1 ELSE 0) <= n
    BY <2>1 DEF Complete
  <2>3. ~(i < Len(f.fields))
    <3>1. i < Len(f.fields) => g.to < n
      BY FieldsInOrder
    <3> QED BY <3>1, <1>4
  <2>4. i = Len(f.fields)
    BY <2>1, <2>3
  <2> HIDE DEF g, n
  <2> QED BY <2>2, <2>4, <1>4
<1> HIDE DEF t, s
<1>6. \/ t.buff = f.text /\ t.count = Reached(f, i) /\ t.string = s /\ t.kind # "END"
      \/ /\ AtEnd(t.buff, t.count)
         /\ t.string = SubSeq(s, 1, Len(t.string))
         /\ Complete(f) => t.string = s /\ i = Len(f.fields)
  BY <1>2, <1>3, <1>4, <1>5
<1> QED BY <1>6 DEF t, s

\* After the last field of a list there is no token.
LEMMA NoField ==
    ASSUME NEW f \in File, f.written, Reached(f, Len(f.fields)) \in 0..Len(f.text)
    PROVE  GetToken(f.text, Reached(f, Len(f.fields))) = Token("END", << >>, f.text, Len(f.text))
<1> DEFINE b == f.text
           o == Original(f)
           x == Reached(f, Len(f.fields))
<1>1. CutOff(b, o) /\ Gap(o, x, Len(o))
  BY WrittenFile
<1>2. b \in Seq(Char) /\ Len(b) \in Nat /\ Len(o) \in Nat /\ Len(b) <= Len(o)
  BY <1>1 DEF CutOff
<1>3. FirstChar(b, Len(b)) = [ch |-> End, count |-> Len(b)]
  <2>1. GetChar(b, Len(b)) = [ch |-> End, count |-> Len(b)]
    BY <1>2 DEF GetChar
  <2> QED BY <2>1, <1>2, FirstCharSkips
<1>4. FirstChar(b, x) = [ch |-> End, count |-> Len(b)]
  <2> DEFINE y == Len(o)
  <2>1. x \in 0..Len(b) /\ y \in x..Len(o) /\ Gap(o, x, y)
    BY <1>1, <1>2
  <2>2. FirstChar(b, x) = IF y <= Len(b) THEN FirstChar(b, y) ELSE [ch |-> End, count |-> Len(b)]
    <3> HIDE DEF y, x
    <3> QED BY <1>1, <2>1, GapIsSkipped
  <2>3. y <= Len(b) => y = Len(b)
    BY <1>2
  <2> HIDE DEF y, x
  <2> QED BY <2>2, <2>3, <1>3
<1> QED BY <1>4, Characters DEF GetToken

\* Nothing of the list has been cut off yet: k players and j fields of the next
\* are read.
InOrder ==
    \E k \in 0..Len(file.listed), j \in 0..2 :
        /\ 3 * k + j <= Len(file.fields)
        /\ buff = file.text /\ count = Reached(file, 3 * k + j)
        /\ pc = <<"name", "auth", "flag">>[j + 1]
        /\ j >= 1 => info.name = file.listed[k + 1].name
        /\ j = 2 => info.auth = file.listed[k + 1].auth
        /\ data = Entries(file.listed, k)

\* The end of the text is reached, which in a complete list is after the last
\* player.
Exhausted ==
    /\ AtEnd(buff, count)
    /\ NobodyGainsFlags
    /\ Complete(file) =>
          /\ pc \in {"name", "done"}
          /\ data = Entries(file.listed, Len(file.listed))

\* The clock has ended the reading.
GivenUp ==
    /\ pc = "done" /\ late
    /\ \E k \in 0..Len(file.listed) : data = Entries(file.listed, k)

\* Of a written list the first fields are read, in their order.
ReadOK ==
    /\ file \in File
    /\ file.written => InOrder \/ Exhausted \/ GivenUp

\* The inductive invariant
IInv == TypeOK /\ ReadOK

\* Players of the list have no flag that the list does not give them.
LEMMA ListedPlayersGainNothing ==
    ASSUME NEW f \in File, f.written, NEW k \in 0..Len(f.listed), NEW e \in Entries(f.listed, k)
    PROVE  \E l \in Entries(f.listed, Len(f.listed)) :
              l.auth = e.auth /\ e.flag = SubSeq(l.flag, 1, Len(e.flag))
<1>1. f.listed \in Seq(Info)
  BY WrittenFile
<1>2. e \in Entries(f.listed, Len(f.listed))
  BY <1>1, EntriesOfList
<1> QED BY <1>1, <1>2, ListedFlags

\* The fields of the player after the first k
LEMMA PlayerFields ==
    ASSUME NEW f \in File, f.written, NEW k \in Nat, k < Len(f.listed)
    PROVE  /\ f.listed[k + 1] \in Info
           /\ f.listed[k + 1].name = InField(Original(f), f.fields[3 * k + 1])
           /\ f.listed[k + 1].auth = InField(Original(f), f.fields[3 * k + 2])
           /\ f.listed[k + 1].flag = InField(Original(f), f.fields[3 * k + 3])
<1>1. /\ f.listed \in Seq(Info)
      /\ \A m \in 1..Len(f.listed) :
            f.listed[m] = [name |-> InField(Original(f), f.fields[3 * m - 2]),
                           auth |-> InField(Original(f), f.fields[3 * m - 1]),
                           flag |-> InField(Original(f), f.fields[3 * m])]
  BY WrittenFile
<1> DEFINE m == k + 1
<1>2. m \in 1..Len(f.listed) /\ f.listed[m] \in Info
  BY <1>1
<1>3. 3 * m - 2 = 3 * k + 1 /\ 3 * m - 1 = 3 * k + 2 /\ 3 * m = 3 * k + 3
  OBVIOUS
<1>4. f.listed[m] = [name |-> InField(Original(f), f.fields[3 * m - 2]),
                     auth |-> InField(Original(f), f.fields[3 * m - 1]),
                     flag |-> InField(Original(f), f.fields[3 * m])]
  <2> HIDE DEF m
  <2> QED BY <1>1, <1>2
<1> QED BY <1>2, <1>3, <1>4

\* No player is among the first none.
LEMMA NoEntries == \A listed : Entries(listed, 0) = {}
BY DEF Entries

\* A complete list whose text is empty has no players.
LEMMA EmptyList ==
    ASSUME NEW f \in File, Complete(f), Len(f.text) = 0
    PROVE  Len(f.listed) = 0
<1>1. /\ f.listed \in Seq(Info) /\ f.fields \in Seq(Field)
      /\ Len(f.fields) = 3 * Len(f.listed)
      /\ Original(f) \in Seq(Char)
      /\ \A i \in 1..Len(f.fields) :
            f.fields[i] \in Field /\ Readable(Original(f), f.fields[i])
  BY WrittenFile DEF Complete
<1>2. ~(1 \in 1..Len(f.fields))
  <2> SUFFICES ASSUME 1 \in 1..Len(f.fields) PROVE FALSE
    OBVIOUS
  <2> DEFINE g == f.fields[1]
  <2>1. g \in Field /\ Readable(Original(f), g) /\ g.to + (IF g.quoted THEN 1 ELSE 0) <= 0
    BY <1>1 DEF Complete
  <2> HIDE DEF g
  <2>2. /\ g.from \in Nat /\ g.to \in Nat /\ g.from <= g.to
        /\ IF g.quoted THEN g.from >= 1 ELSE g.from < g.to
    BY <1>1, <2>1, FieldBounds
  <2> QED BY <2>1, <2>2
<1>3. Len(f.fields) \in Nat /\ Len(f.listed) \in Nat
  BY <1>1
<1> QED BY <1>1, <1>2, <1>3

\* At first nothing is read.
LEMMA ReadInit == Init => ReadOK
<1> SUFFICES ASSUME Init, file.written PROVE InOrder \/ Exhausted
  BY DEF Init, ReadOK
<1>1. /\ file \in File /\ buff = file.text /\ count = 0 /\ data = {}
      /\ pc = IF file.text = << >> THEN "done" ELSE "name"
  BY DEF Init
<1>2. file.listed \in Seq(Info) /\ file.text \in Seq(Char)
  BY <1>1, FileAssumption
<1>3. CASE file.text = << >>
  <2>1. Len(file.text) = 0
    BY <1>3
  <2>2. Complete(file) => data = Entries(file.listed, Len(file.listed))
    BY <1>1, <2>1, EmptyList, NoEntries
  <2> QED BY <1>1, <1>3, <2>1, <2>2 DEF Exhausted, AtEnd, NobodyGainsFlags
<1>4. CASE file.text # << >>
  <2>1. 3 * 0 + 0 <= Len(file.fields) /\ 0 \in 0..Len(file.listed)
    <3>1. file.fields \in Seq(Field)
      BY <1>1, WrittenFile
    <3> QED BY <3>1, <1>2
  <2>2. /\ buff = file.text /\ count = Reached(file, 3 * 0 + 0)
        /\ pc = <<"name", "auth", "flag">>[0 + 1]
        /\ data = Entries(file.listed, 0)
    BY <1>1, <1>4, NoEntries DEF Reached
  <2> QED BY <2>1, <2>2 DEF InOrder
<1> QED BY <1>3, <1>4

\* At the end every token is empty, and the end stays where it is.
LEMMA ExhaustedToken ==
    ASSUME TypeOK, Exhausted, MoveOn(GetToken(buff, count))
    PROVE  /\ GetToken(buff, count).kind = "END" /\ GetToken(buff, count).string = << >>
           /\ AtEnd(buff', count') /\ file' = file
<1>1. GetToken(buff, count) = Token("END", << >>, buff, Len(buff))
  BY NothingAtEnd DEF TypeOK, Exhausted
<1> QED BY <1>1 DEF MoveOn, Token, AtEnd

\* A name is read in its place, or the text ends before it ends.
LEMMA ReadNameOK == IInv /\ ReadName => ReadOK'
<1> SUFFICES ASSUME IInv, ReadName, file.written PROVE (InOrder \/ Exhausted)'
  BY DEF IInv, ReadOK, ReadName, MoveOn
<1> DEFINE token == GetToken(buff, count)
<1>1. /\ pc = "name" /\ MoveOn(token) /\ data' = data /\ file' = file
      /\ buff' = token.buff /\ count' = token.count
      /\ info' = [NoInfo EXCEPT !.name = token.string]
      /\ pc' = IF token.kind = "END" THEN "done" ELSE "auth"
  BY DEF ReadName, Reading, MoveOn
<1>2. TypeOK /\ file \in File
  BY DEF IInv, ReadOK
<1>3. CASE Exhausted
  <2>1. token.kind = "END" /\ AtEnd(buff', count')
    BY <1>1, <1>2, <1>3, ExhaustedToken
  <2> HIDE DEF token
  <2> QED BY <1>1, <1>3, <2>1 DEF Exhausted, NobodyGainsFlags
<1>4. CASE InOrder
  <2>1. PICK k \in 0..Len(file.listed), j \in 0..2 :
          /\ 3 * k + j <= Len(file.fields)
          /\ buff = file.text /\ count = Reached(file, 3 * k + j)
          /\ pc = <<"name", "auth", "flag">>[j + 1]
          /\ data = Entries(file.listed, k)
    BY <1>4 DEF InOrder
  <2>2. j = 0
    BY <1>1, <2>1
  <2>3. /\ file.listed \in Seq(Info) /\ file.fields \in Seq(Field)
        /\ Len(file.fields) = 3 * Len(file.listed)
    BY <1>2, WrittenFile
  <2>4. k \in Nat /\ Len(file.listed) \in Nat /\ Len(file.fields) \in Nat
    BY <2>3
  <2>5. buff = file.text /\ count = Reached(file, 3 * k) /\ count \in 0..Len(file.text)
    BY <1>2, <2>1, <2>2, <2>4 DEF TypeOK
  <2>6. NobodyGainsFlags'
    BY <1>1, <1>2, <2>1, ListedPlayersGainNothing DEF NobodyGainsFlags
  <2>7. CASE k = Len(file.listed)
    <3>1. token = Token("END", << >>, file.text, Len(file.text))
      BY <1>2, <2>3, <2>5, <2>7, NoField
    <3>2. token.kind = "END" /\ AtEnd(buff', count')
      BY <1>1, <3>1 DEF Token, AtEnd
    <3> HIDE DEF token
    <3> QED BY <1>1, <2>1, <2>6, <2>7, <3>2 DEF Exhausted
  <2>8. CASE k < Len(file.listed)
    <3> DEFINE i == 3 * k + 1
               s == InField(Original(file), file.fields[i])
    <3>1. i \in 1..Len(file.fields) /\ i - 1 = 3 * k /\ i # Len(file.fields)
      BY <2>3, <2>4, <2>8
    <3>2. \/ token.buff = file.text /\ token.count = Reached(file, i)
             /\ token.string = s /\ token.kind # "END"
          \/ /\ AtEnd(token.buff, token.count)
             /\ Complete(file) => i = Len(file.fields)
      <4> HIDE DEF i
      <4> QED BY <1>2, <2>5, <3>1, NextField
    <3>3. file.listed[k + 1].name = s
      BY <1>2, <2>4, <2>8, PlayerFields
    <3> HIDE DEF token, s
    <3>4. CASE token.buff = file.text /\ token.count = Reached(file, i)
               /\ token.string = s /\ token.kind # "END"
      <4>1. info'.name = s /\ pc' = <<"name", "auth", "flag">>[1 + 1]
        BY <1>1, <3>4 DEF NoInfo
      <4>2. 3 * k + 1 <= Len(file.fields)
        BY <3>1
      <4> QED BY <1>1, <2>1, <3>3, <3>4, <4>1, <4>2 DEF InOrder
    <3>5. CASE AtEnd(token.buff, token.count) /\ (Complete(file) => i = Len(file.fields))
      BY <1>1, <2>6, <3>1, <3>5 DEF Exhausted
    <3> QED BY <3>2, <3>4, <3>5
  <2> QED BY <2>4, <2>7, <2>8
<1>5. ~GivenUp
  BY <1>1 DEF GivenUp
<1> QED BY <1>3, <1>4, <1>5 DEF IInv, ReadOK

\* An auth id is read in its place, or the text ends before it ends.
LEMMA ReadAuthOK == IInv /\ ReadAuth => ReadOK'
<1> SUFFICES ASSUME IInv, ReadAuth, file.written PROVE (InOrder \/ Exhausted)'
  BY DEF IInv, ReadOK, ReadAuth, MoveOn
<1> DEFINE token == GetToken(buff, count)
<1>1. /\ pc = "auth" /\ MoveOn(token) /\ data' = data /\ file' = file
      /\ buff' = token.buff /\ count' = token.count
      /\ info' = [info EXCEPT !.auth = token.string]
      /\ pc' = "flag"
  BY DEF ReadAuth, Reading, MoveOn
<1>2. TypeOK /\ file \in File /\ info \in Info
  BY DEF IInv, ReadOK, TypeOK
<1>3. CASE Exhausted
  <2>1. AtEnd(buff', count')
    BY <1>1, <1>2, <1>3, ExhaustedToken
  <2>2. ~Complete(file)
    BY <1>1, <1>3 DEF Exhausted
  <2> HIDE DEF token
  <2> QED BY <1>1, <1>3, <2>1, <2>2 DEF Exhausted, NobodyGainsFlags
<1>4. CASE InOrder
  <2>1. PICK k \in 0..Len(file.listed), j \in 0..2 :
          /\ 3 * k + j <= Len(file.fields)
          /\ buff = file.text /\ count = Reached(file, 3 * k + j)
          /\ pc = <<"name", "auth", "flag">>[j + 1]
          /\ j >= 1 => info.name = file.listed[k + 1].name
          /\ data = Entries(file.listed, k)
    BY <1>4 DEF InOrder
  <2>2. j = 1 /\ info.name = file.listed[k + 1].name
    BY <1>1, <2>1
  <2>3. /\ file.listed \in Seq(Info) /\ file.fields \in Seq(Field)
        /\ Len(file.fields) = 3 * Len(file.listed)
    BY <1>2, WrittenFile
  <2>4. /\ k \in Nat /\ Len(file.listed) \in Nat /\ Len(file.fields) \in Nat
        /\ k < Len(file.listed)
    BY <2>1, <2>2, <2>3
  <2>5. buff = file.text /\ count = Reached(file, 3 * k + 1) /\ count \in 0..Len(file.text)
    BY <1>2, <2>1, <2>2, <2>4 DEF TypeOK
  <2>6. NobodyGainsFlags'
    BY <1>1, <1>2, <2>1, ListedPlayersGainNothing DEF NobodyGainsFlags
  <2> DEFINE i == 3 * k + 2
             s == InField(Original(file), file.fields[i])
  <2>7. i \in 1..Len(file.fields) /\ i - 1 = 3 * k + 1 /\ i # Len(file.fields)
    BY <2>3, <2>4
  <2>8. \/ token.buff = file.text /\ token.count = Reached(file, i) /\ token.string = s
        \/ /\ AtEnd(token.buff, token.count)
           /\ Complete(file) => i = Len(file.fields)
    <3> HIDE DEF i
    <3> QED BY <1>2, <2>5, <2>7, NextField
  <2>9. file.listed[k + 1].auth = s
    BY <1>2, <2>4, PlayerFields
  <2> HIDE DEF token, s
  <2>10. CASE token.buff = file.text /\ token.count = Reached(file, i) /\ token.string = s
    <3>1. info'.auth = s /\ info'.name = info.name /\ pc' = <<"name", "auth", "flag">>[2 + 1]
      BY <1>1, <1>2, <2>10 DEF Info
    <3>2. 3 * k + 2 <= Len(file.fields)
      BY <2>7
    <3> QED BY <1>1, <2>1, <2>2, <2>9, <2>10, <3>1, <3>2 DEF InOrder
  <2>11. CASE AtEnd(token.buff, token.count) /\ (Complete(file) => i = Len(file.fields))
    BY <1>1, <2>6, <2>7, <2>11 DEF Exhausted
  <2> QED BY <2>8, <2>10, <2>11
<1>5. ~GivenUp
  BY <1>1 DEF GivenUp
<1> QED BY <1>3, <1>4, <1>5 DEF IInv, ReadOK

\* The flags are read in their place and the player is inserted, or the text
\* ends before they end, and a player who is new has the first of them.
LEMMA ReadFlagOK == IInv /\ ReadFlag => ReadOK'
<1> SUFFICES ASSUME IInv, ReadFlag, file.written PROVE (InOrder \/ Exhausted)'
  BY DEF IInv, ReadOK, ReadFlag, MoveOn
<1> DEFINE token == GetToken(buff, count)
<1>1. /\ pc = "flag" /\ MoveOn(token) /\ data' = Insert(data, info') /\ file' = file
      /\ buff' = token.buff /\ count' = token.count
      /\ info' = [info EXCEPT !.flag = token.string]
      /\ pc' = "name"
  BY DEF ReadFlag, Reading, MoveOn
<1>2. TypeOK /\ file \in File /\ info \in Info
  BY DEF IInv, ReadOK, TypeOK
<1>3. info'.flag = token.string /\ info'.auth = info.auth /\ info'.name = info.name
  <2> HIDE DEF token
  <2> QED BY <1>1, <1>2 DEF Info
<1>4. CASE Exhausted
  <2>1. AtEnd(buff', count') /\ info'.flag = << >>
    BY <1>1, <1>2, <1>3, <1>4, ExhaustedToken
  <2>2. ~Complete(file)
    BY <1>1, <1>4 DEF Exhausted
  <2>3. \A e \in data' : e \in data \/ e = info'
    BY <1>1 DEF Insert
  <2>4. NobodyGainsFlags'
    BY <1>1, <1>4, <2>1, <2>3 DEF Exhausted, NobodyGainsFlags
  <2> QED BY <1>1, <2>1, <2>2, <2>4 DEF Exhausted
<1>5. CASE InOrder
  <2>1. PICK k \in 0..Len(file.listed), j \in 0..2 :
          /\ 3 * k + j <= Len(file.fields)
          /\ buff = file.text /\ count = Reached(file, 3 * k + j)
          /\ pc = <<"name", "auth", "flag">>[j + 1]
          /\ j >= 1 => info.name = file.listed[k + 1].name
          /\ j = 2 => info.auth = file.listed[k + 1].auth
          /\ data = Entries(file.listed, k)
    BY <1>5 DEF InOrder
  <2> DEFINE l == file.listed[k + 1]
  <2>2. j = 2 /\ info.name = l.name /\ info.auth = l.auth
    BY <1>1, <2>1
  <2>3. /\ file.listed \in Seq(Info) /\ file.fields \in Seq(Field)
        /\ Len(file.fields) = 3 * Len(file.listed)
    BY <1>2, WrittenFile
  <2>4. /\ k \in Nat /\ Len(file.listed) \in Nat /\ Len(file.fields) \in Nat
        /\ k < Len(file.listed)
    BY <2>1, <2>2, <2>3
  <2>5. buff = file.text /\ count = Reached(file, 3 * k + 2) /\ count \in 0..Len(file.text)
    BY <1>2, <2>1, <2>2, <2>4 DEF TypeOK
  <2> DEFINE i == 3 * k + 3
             s == InField(Original(file), file.fields[i])
  <2>6. i \in 1..Len(file.fields) /\ i - 1 = 3 * k + 2
    BY <2>3, <2>4
  <2>7. \/ token.buff = file.text /\ token.count = Reached(file, i) /\ token.string = s
        \/ /\ AtEnd(token.buff, token.count)
           /\ token.string = SubSeq(s, 1, Len(token.string))
           /\ Complete(file) => token.string = s /\ i = Len(file.fields)
    <3> HIDE DEF i
    <3> QED BY <1>2, <2>5, <2>6, NextField
  <2>8. l.flag = s /\ l \in Info
    BY <1>2, <2>4, PlayerFields
  <2>9. Insert(data, l) = Entries(file.listed, k + 1)
    BY <2>1, <2>3, <2>4, EntriesGrow
  <2>10. info'.flag = s => info' = l
    <3>1. info' = [info EXCEPT !.flag = token.string]
      BY <1>1
    <3> HIDE DEF token, s, l
    <3> QED BY <3>1, <1>2, <1>3, <2>2, <2>8 DEF Info
  <2> HIDE DEF token, s, l
  <2>11. CASE token.buff = file.text /\ token.count = Reached(file, i) /\ token.string = s
    <3>1. data' = Entries(file.listed, k + 1)
      BY <1>1, <1>3, <2>9, <2>10, <2>11
    <3>2. /\ k + 1 \in 0..Len(file.listed) /\ i = 3 * (k + 1) + 0
          /\ pc' = <<"name", "auth", "flag">>[0 + 1]
      BY <1>1, <2>4
    <3>3. i <= Len(file.fields)
      BY <2>6
    <3> HIDE DEF i
    <3> QED BY <1>1, <2>11, <3>1, <3>2, <3>3 DEF InOrder
  <2>12. CASE /\ AtEnd(token.buff, token.count)
              /\ token.string = SubSeq(s, 1, Len(token.string))
              /\ Complete(file) => token.string = s /\ i = Len(file.fields)
    <3>1. Complete(file) => data' = Entries(file.listed, Len(file.listed))
      <4>1. i = Len(file.fields) => k + 1 = Len(file.listed)
        BY <2>3, <2>4
      <4> QED BY <4>1, <1>1, <1>3, <2>9, <2>10, <2>12
    <3>2. ASSUME NEW e \in data', e.flag # << >>
          PROVE  \E m \in Entries(file.listed, Len(file.listed)) :
                    m.auth = e.auth /\ e.flag = SubSeq(m.flag, 1, Len(e.flag))
      <4>1. CASE e \in data
        BY <4>1, <1>2, <2>1, ListedPlayersGainNothing
      <4>2. CASE e \notin data
        <5>1. e = info' /\ ~\E d \in data : d.auth = info'.auth
          BY <4>2, <3>2, <1>1 DEF Insert
        <5>2. Insert(data, l) = data \cup {l}
          BY <5>1, <1>3, <2>2 DEF Insert
        <5>3. l \in Entries(file.listed, Len(file.listed))
          <6>1. k + 1 \in 0..Len(file.listed)
            BY <2>4
          <6> QED BY <6>1, <5>2, <2>3, <2>9, EntriesOfList
        <5>4. e.flag = SubSeq(l.flag, 1, Len(e.flag))
          BY <5>1, <1>3, <2>8, <2>12
        <5> QED BY <5>1, <5>3, <5>4, <1>3, <2>2
      <4> QED BY <4>1, <4>2
    <3>3. NobodyGainsFlags'
      BY <1>1, <3>2 DEF NobodyGainsFlags
    <3> QED BY <1>1, <2>12, <3>1, <3>3 DEF Exhausted
  <2> QED BY <2>7, <2>11, <2>12
<1>6. ~GivenUp
  BY <1>1 DEF GivenUp
<1> QED BY <1>4, <1>5, <1>6 DEF IInv, ReadOK

\* The clock ends a reading with the players that are read.
LEMMA ClockOK == IInv /\ (Tick \/ GiveUp \/ UNCHANGED vars) => ReadOK'
<1> SUFFICES ASSUME IInv, Tick \/ GiveUp \/ UNCHANGED vars PROVE ReadOK'
  OBVIOUS
<1>1. /\ file' = file /\ buff' = buff /\ count' = count /\ info' = info /\ data' = data
      /\ \/ pc' = pc /\ (late' = late \/ pc # "done")
         \/ pc' = "done" /\ late'
  BY DEF Tick, GiveUp, vars
<1>2. file' \in File
  BY <1>1 DEF IInv, ReadOK
<1>3. CASE ~file.written
  BY <1>1, <1>2, <1>3 DEF ReadOK
<1>4. CASE file.written /\ Exhausted
  BY <1>1, <1>2, <1>4 DEF ReadOK, Exhausted, NobodyGainsFlags
<1>5. CASE file.written /\ InOrder
  <2>1. CASE pc' = pc
    BY <1>1, <1>2, <1>5, <2>1 DEF ReadOK, InOrder
  <2>2. CASE pc' = "done" /\ late'
    BY <1>1, <1>2, <1>5, <2>2 DEF ReadOK, InOrder, GivenUp
  <2> QED BY <1>1, <2>1, <2>2
<1>6. CASE file.written /\ GivenUp
  BY <1>1, <1>2, <1>6 DEF ReadOK, GivenUp
<1> QED BY <1>3, <1>4, <1>5, <1>6 DEF IInv, ReadOK

\* The inductive invariant holds when a reading begins.
LEMMA IInvInit == Init => IInv
BY TypeInit, ReadInit DEF IInv

\* Every step of a reading keeps it.
LEMMA IInvStep == IInv /\ [Next]_vars => IInv'
BY TypeStep, ReadNameOK, ReadAuthOK, ReadFlagOK, ClockOK DEF IInv, Next

\* The inductive invariant holds of every list, laid out or not, cut off or not.
THEOREM Invariance == Spec => []IInv
BY IInvInit, IInvStep, PTL DEF Spec

\* It implies that a complete list is read as it is written,
LEMMA IInvListIsRead == IInv => ListIsRead
<1> SUFFICES ASSUME IInv, Complete(file)
             PROVE  \E k \in 0..Len(file.listed) :
                       /\ data = Entries(file.listed, k)
                       /\ pc = "done" /\ ~late => k = Len(file.listed)
  BY DEF ListIsRead
<1>1. file \in File /\ file.written /\ (InOrder \/ Exhausted \/ GivenUp)
  BY DEF IInv, ReadOK, Complete
<1>2. Len(file.listed) \in Nat
  BY <1>1, FileAssumption
<1>3. CASE InOrder
  <2>1. PICK k \in 0..Len(file.listed), j \in 0..2 :
          pc = <<"name", "auth", "flag">>[j + 1] /\ data = Entries(file.listed, k)
    BY <1>3 DEF InOrder
  <2>2. pc # "done"
    BY <2>1
  <2> QED BY <2>1, <2>2
<1>4. CASE Exhausted
  BY <1>2, <1>4 DEF Exhausted
<1>5. CASE GivenUp
  BY <1>5 DEF GivenUp
<1> QED BY <1>1, <1>3, <1>4, <1>5

\* and that a list cut off gives nobody flags.
LEMMA IInvNobodyGains == IInv => NobodyGainsFlags
<1> SUFFICES ASSUME IInv, file.written PROVE NobodyGainsFlags
  BY DEF NobodyGainsFlags
<1>1. file \in File /\ (InOrder \/ Exhausted \/ GivenUp)
  BY DEF IInv, ReadOK
<1>2. CASE InOrder \/ GivenUp
  <2>1. PICK k \in 0..Len(file.listed) : data = Entries(file.listed, k)
    BY <1>2 DEF InOrder, GivenUp
  <2> QED BY <1>1, <2>1, ListedPlayersGainNothing DEF NobodyGainsFlags
<1>3. CASE Exhausted
  BY <1>3 DEF Exhausted
<1> QED BY <1>1, <1>2, <1>3

\* Every complete list of players, however long and however laid out, is read as
\* it is written, unless the clock ends the reading, and then its first players.
THEOREM ListsAreRead == Spec => []ListIsRead
BY Invariance, IInvListIsRead, PTL

\* A list cut off at any character gives nobody a flag that it does not give
\* whole.
THEOREM NobodyGains == Spec => []NobodyGainsFlags
BY Invariance, IInvNobodyGains, PTL

=============================================================================
