------------------------- MODULE AnswerStreamProofs -------------------------
(***************************************************************************)
(* A streamed answer is the stripped text of what the model said, and the  *)
(* turn stored is what the client was shown, for every set of words, every *)
(* way of cutting the text into deltas and every number of retries.        *)
(***************************************************************************)
EXTENDS AnswerStream, FiniteInduction

-----------------------------------------------------------------------------
(* Whitespace                                                               *)

Chars == Words \cup {Space}
Written == {"extract", "noteNoModel", "noteCutShort", "noteServerError"}
Marks == Chars \cup Written
Blanks == Seq({Space})
\* A text that neither begins nor ends with whitespace.
Tight(text) == text # <<>> => text[1] # Space /\ text[Len(text)] # Space

LEMMA SeqFacts ==
  ASSUME NEW S, NEW s \in Seq(S)
  PROVE  /\ Len(s) \in Nat /\ DOMAIN s = 1..Len(s)
         /\ \A i \in 1..Len(s) : s[i] \in S
         /\ s = <<>> <=> Len(s) = 0
OBVIOUS

LEMMA JoinFacts ==
  ASSUME NEW S, NEW s \in Seq(S), NEW t \in Seq(S)
  PROVE  /\ s \o t \in Seq(S) /\ Len(s \o t) = Len(s) + Len(t)
         /\ \A i \in 1..Len(s) : (s \o t)[i] = s[i]
         /\ \A i \in 1..Len(t) : (s \o t)[Len(s) + i] = t[i]
<1>1. s \o t \in Seq(S) /\ Len(s \o t) = Len(s) + Len(t)
  BY ConcatProperties
<1>2. ASSUME NEW i \in 1..Len(s) PROVE (s \o t)[i] = s[i]
  <2>1. i \in 1..(Len(s) + Len(t)) /\ i <= Len(s)
    OBVIOUS
  <2>. QED BY <2>1, ConcatProperties
<1>3. ASSUME NEW i \in 1..Len(t) PROVE (s \o t)[Len(s) + i] = t[i]
  <2>1. Len(s) + i \in 1..(Len(s) + Len(t)) /\ ~ (Len(s) + i <= Len(s)) /\ Len(s) + i - Len(s) = i
    OBVIOUS
  <2>. QED BY <2>1, ConcatProperties
<1>. QED BY <1>1, <1>2, <1>3

LEMMA Reassociates ==
  ASSUME NEW S, NEW s \in Seq(S), NEW t \in Seq(S), NEW u \in Seq(S)
  PROVE  (s \o t) \o u = s \o (t \o u)
BY ConcatAssociative

LEMMA EmptyJoins ==
  ASSUME NEW S, NEW s \in Seq(S)
  PROVE  <<>> \o s = s /\ s \o <<>> = s
BY ConcatEmptySeq

\* A part of a text from one place to another.
LEMMA PartFacts ==
  ASSUME NEW S, NEW s \in Seq(S), NEW a \in 1..(Len(s) + 1), NEW b \in 0..Len(s)
  PROVE  /\ SubSeq(s, a, b) \in Seq(S)
         /\ Len(SubSeq(s, a, b)) = IF a <= b THEN b - a + 1 ELSE 0
         /\ \A i \in 1..(b - a + 1) : SubSeq(s, a, b)[i] = s[a + i - 1]
<1>1. \A i \in a..b : i \in 1..Len(s) /\ s[i] \in S
  OBVIOUS
<1>2. SubSeq(s, a, b) \in Seq(S)
  BY <1>1, SubSeqProperties
<1>3. Len(SubSeq(s, a, b)) = IF a <= b THEN b - a + 1 ELSE 0
  BY SubSeqProperties
<1>4. \A i \in 1..(b - a + 1) : SubSeq(s, a, b)[i] = s[a + i - 1]
  BY SubSeqProperties
<1>. QED BY <1>2, <1>3, <1>4

LEMMA FirstOf ==
  ASSUME NEW T \in SUBSET Nat, T # {}
  PROVE  LET m == CHOOSE i \in T : \A j \in T : i <= j
         IN  m \in T /\ \A j \in T : m <= j
<1>1. \E m \in T : \A j \in T : m <= j
  BY LeastNumber
<1>. QED BY <1>1

LEMMA LastOf ==
  ASSUME NEW n \in Nat, NEW T \in SUBSET (0..n), T # {}
  PROVE  LET m == CHOOSE i \in T : \A j \in T : i >= j
         IN  m \in T /\ \A j \in T : m >= j
<1>1. \E m \in T : \A j \in T : m >= j
  <2>1. PICK m \in T : \A j \in T : j <= m
    BY GreatestNumber
  <2>2. ASSUME NEW j \in T PROVE m >= j
    <3>1. j \in Int /\ m \in Int /\ j <= m
      BY <2>1
    <3>. QED BY <3>1
  <2>. QED BY <2>2
<1>. QED BY <1>1

LEMMA BlankIsMark == Space \in Marks /\ Blanks \subseteq Seq(Marks)
<1>1. Space \in Marks
  BY DEF Marks, Chars
<1>. HIDE DEF Marks
<1>2. ASSUME NEW s \in Blanks PROVE s \in Seq(Marks)
  <2>1. s \in Seq({Space}) /\ {Space} \subseteq Marks
    BY <1>1 DEF Blanks
  <2>. QED BY <2>1, SeqMonotonic
<1>. QED BY <1>1, <1>2

\* A text of nothing but whitespace.
LEMMA BlankFacts ==
  ASSUME NEW s \in Seq(Marks), \A i \in 1..Len(s) : s[i] = Space
  PROVE  s \in Blanks
<1>0. PICK n \in Nat : n = Len(s)
  BY SeqFacts
<1>2. \A i \in 1..n : s[i] \in {Space}
  BY <1>0
<1>. DEFINE same == SubSeq(s, 1, n)
<1>1. n \in Nat /\ 1 \in 1..(n + 1) /\ n \in 0..n /\ n - 1 + 1 = n
  BY <1>0
<1>3. same \in Seq({Space})
  <2>1. 1 \in Int /\ n \in Int
    BY <1>0
  <2>. QED BY <1>2, <2>1, SubSeqProperties
<1>4. same \in Seq(Marks) /\ Len(same) = n /\ \A i \in 1..n : same[i] = s[i]
  <2>1. /\ same \in Seq(Marks)
        /\ Len(same) = IF 1 <= n THEN n - 1 + 1 ELSE 0
        /\ \A i \in 1..(n - 1 + 1) : same[i] = s[1 + i - 1]
    BY <1>0, <1>1, PartFacts
  <2>. HIDE DEF same
  <2>2. \A i \in 1..n : 1 + i - 1 = i
    BY <1>1
  <2>3. Len(same) = n
    <3>1. ~ (1 <= n) => n = 0
      BY <1>0
    <3>. QED BY <1>1, <2>1, <3>1
  <2>. QED BY <1>1, <2>1, <2>2, <2>3
<1>5. same = s
  BY <1>0, <1>4, SeqEqual
<1>. QED BY <1>3, <1>5 DEF Blanks

LEMMA NonSpaceFacts ==
  ASSUME NEW s \in Seq(Marks)
  PROVE  /\ NonSpace(s) \in SUBSET (1..Len(s)) /\ NonSpace(s) \in SUBSET Nat
         /\ NonSpace(s) \in SUBSET (0..Len(s))
         /\ \A i \in 1..Len(s) : i \notin NonSpace(s) <=> s[i] = Space
         /\ \A i \in NonSpace(s) : s[i] # Space
<1>. DEFINE n == Len(s)
<1>1. n \in Nat /\ DOMAIN s = 1..n
  BY SeqFacts
<1>. HIDE DEF n
<1>2. NonSpace(s) = {i \in 1..n : s[i] # Space}
  BY <1>1 DEF NonSpace
<1>3. 1..n \subseteq Nat /\ 1..n \subseteq 0..n
  BY <1>1
<1>. QED BY <1>2, <1>3 DEF n

LEMMA LeftStrip ==
  ASSUME NEW text \in Seq(Marks)
  PROVE  /\ LStrip(text) \in Seq(Marks)
         /\ \E lead \in Blanks : text = lead \o LStrip(text)
         /\ LStrip(text) # <<>> => LStrip(text)[1] # Space
         /\ NonSpace(text) # {} => LStrip(text) # <<>>
<1>. DEFINE T == NonSpace(text)
            n == Len(text)
            m == CHOOSE i \in T : \A j \in T : i <= j
<1>0. n \in Nat
  BY SeqFacts
<1>1. CASE T = {}
  <2>1. LStrip(text) = <<>>
    BY <1>1 DEF LStrip
  <2>2. \A i \in 1..n : text[i] = Space
    BY <1>1, NonSpaceFacts
  <2>3. text \in Blanks
    BY <2>2, BlankFacts
  <2>4. text = text \o <<>>
    BY EmptyJoins
  <2>. QED BY <1>1, <2>1, <2>3, <2>4
<1>2. CASE T # {}
  <2>1. T \in SUBSET Nat /\ T \in SUBSET (1..n)
    BY NonSpaceFacts
  <2>2. m \in T /\ \A j \in T : m <= j
    <3>. HIDE DEF T
    <3>. QED BY <1>2, <2>1, FirstOf
  <2>3. m \in 1..n
    BY <2>1, <2>2
  <2>. DEFINE rest == SubSeq(text, m, n)
              lead == SubSeq(text, 1, m - 1)
  <2>4. LStrip(text) = rest
    BY <1>2 DEF LStrip
  <2>5. text[m] # Space /\ \A j \in 1..(m - 1) : text[j] = Space
    <3>1. text[m] # Space
      BY <2>2, NonSpaceFacts
    <3>2. ASSUME NEW j \in 1..(m - 1) PROVE text[j] = Space
      <4>. HIDE DEF m
      <4>1. j \in 1..n /\ ~ (m <= j)
        BY <1>0, <2>3
      <4>2. j \notin T
        BY <2>2, <4>1
      <4>. QED BY <4>1, <4>2, NonSpaceFacts
    <3>. QED BY <3>1, <3>2
  <2>. HIDE DEF T, m
  <2>6. m \in 1..(n + 1) /\ n \in 0..n /\ 1 \in 1..(n + 1) /\ m - 1 \in 0..n
    BY <1>0, <2>3
  <2>7. /\ rest \in Seq(Marks) /\ Len(rest) = n - m + 1
        /\ \A i \in 1..(n - m + 1) : rest[i] = text[m + i - 1]
    BY <2>3, <2>6, PartFacts
  <2>8. /\ lead \in Seq(Marks) /\ Len(lead) = m - 1
        /\ \A i \in 1..(m - 1) : lead[i] = text[i]
    <3>1. /\ lead \in Seq(Marks)
          /\ Len(lead) = IF 1 <= m - 1 THEN (m - 1) - 1 + 1 ELSE 0
          /\ \A i \in 1..((m - 1) - 1 + 1) : lead[i] = text[1 + i - 1]
      BY <2>6, PartFacts
    <3>2. (m - 1) - 1 + 1 = m - 1 /\ \A i \in 1..(m - 1) : 1 + i - 1 = i
      BY <2>3
    <3>3. Len(lead) = m - 1
      <4>. HIDE DEF lead
      <4>. QED BY <2>3, <3>1
    <3>. QED BY <3>1, <3>2, <3>3
  <2>. HIDE DEF rest, lead, n
  <2>9. lead \in Blanks
    BY <2>5, <2>8, BlankFacts
  <2>10. /\ lead \o rest \in Seq(Marks) /\ Len(lead \o rest) = n
         /\ \A i \in 1..(m - 1) : (lead \o rest)[i] = lead[i]
         /\ \A i \in 1..(n - m + 1) : (lead \o rest)[(m - 1) + i] = rest[i]
    <3>1. /\ lead \o rest \in Seq(Marks) /\ Len(lead \o rest) = Len(lead) + Len(rest)
          /\ \A i \in 1..Len(lead) : (lead \o rest)[i] = lead[i]
          /\ \A i \in 1..Len(rest) : (lead \o rest)[Len(lead) + i] = rest[i]
      <4>1. lead \in Seq(Marks) /\ rest \in Seq(Marks)
        BY <2>7, <2>8
      <4>. HIDE DEF Marks
      <4>. QED BY <4>1, JoinFacts
    <3>2. Len(lead) + Len(rest) = n
      BY <1>0, <2>3, <2>7, <2>8
    <3>. QED BY <2>7, <2>8, <3>1, <3>2
  <2>11. ASSUME NEW i \in 1..n PROVE text[i] = (lead \o rest)[i]
    <3>1. CASE i <= m - 1
      <4>1. i \in 1..(m - 1)
        BY <2>3, <3>1
      <4>. QED BY <2>8, <2>10, <4>1
    <3>2. CASE ~ (i <= m - 1)
      <4>. DEFINE k == i - (m - 1)
      <4>1. k \in 1..(n - m + 1) /\ (m - 1) + k = i /\ m + k - 1 = i
        BY <1>0, <2>3, <3>2
      <4>. HIDE DEF k
      <4>2. (lead \o rest)[(m - 1) + k] = rest[k] /\ rest[k] = text[m + k - 1]
        BY <2>7, <2>10, <4>1
      <4>. QED BY <4>1, <4>2
    <3>. QED BY <3>1, <3>2
  <2>12. text = lead \o rest
    BY <2>10, <2>11, SeqEqual DEF n
  <2>13. rest # <<>> /\ rest[1] # Space
    <3>1. 1 \in 1..(n - m + 1) /\ m + 1 - 1 = m /\ n - m + 1 # 0
      BY <1>0, <2>3
    <3>. QED BY <2>5, <2>7, <3>1, SeqFacts
  <2>. QED BY <2>4, <2>7, <2>9, <2>12, <2>13
<1>. QED BY <1>1, <1>2

LEMMA RightStrip ==
  ASSUME NEW text \in Seq(Marks)
  PROVE  /\ RStrip(text) \in Seq(Marks) /\ Tail_(text, RStrip(text)) \in Blanks
         /\ text = RStrip(text) \o Tail_(text, RStrip(text))
         /\ RStrip(text) # <<>> => /\ RStrip(text)[Len(RStrip(text))] # Space
                                   /\ RStrip(text)[1] = text[1]
         /\ NonSpace(text) # {} => RStrip(text) # <<>>
         /\ NonSpace(text) = {} => RStrip(text) = <<>>
<1>0. PICK n \in Nat : n = Len(text)
  BY SeqFacts
<1>. DEFINE T == NonSpace(text)
            m == CHOOSE i \in T : \A j \in T : i >= j
<1>1. CASE T = {}
  <2>1. RStrip(text) = <<>> /\ <<>> \in Seq(Marks) /\ Len(<<>>) = 0
    BY <1>1 DEF RStrip
  <2>2. \A i \in 1..Len(text) : text[i] = Space
    BY <1>1, NonSpaceFacts
  <2>3. text \in Blanks
    BY <2>2, BlankFacts
  <2>. DEFINE all == SubSeq(text, 1, n)
  <2>4. Tail_(text, <<>>) = all
    BY <1>0, <2>1 DEF Tail_
  <2>5. 1 \in 1..(n + 1) /\ n \in 0..n /\ n - 1 + 1 = n /\ \A i \in 1..n : 1 + i - 1 = i
    BY <1>0
  <2>6. /\ all \in Seq(Marks)
        /\ Len(all) = IF 1 <= n THEN n - 1 + 1 ELSE 0
        /\ \A i \in 1..(n - 1 + 1) : all[i] = text[1 + i - 1]
    BY <1>0, <2>5, PartFacts
  <2>. HIDE DEF all
  <2>7. Len(all) = n /\ \A i \in 1..n : all[i] = text[i]
    BY <1>0, <2>5, <2>6
  <2>8. all = text
    BY <1>0, <2>6, <2>7, SeqEqual
  <2>9. text = <<>> \o text
    BY EmptyJoins
  <2>. QED BY <1>1, <2>1, <2>3, <2>4, <2>8, <2>9
<1>2. CASE T # {}
  <2>1. T \in SUBSET (0..n) /\ T \in SUBSET (1..n)
    BY <1>0, NonSpaceFacts
  <2>2. m \in T /\ \A j \in T : m >= j
    <3>. HIDE DEF T
    <3>. QED BY <1>0, <1>2, <2>1, LastOf
  <2>3. m \in 1..n
    BY <2>1, <2>2
  <2>. DEFINE body == SubSeq(text, 1, m)
              tail == SubSeq(text, m + 1, n)
  <2>4. RStrip(text) = body
    BY <1>2 DEF RStrip
  <2>5. text[m] # Space /\ \A j \in (m + 1)..n : text[j] = Space
    <3>1. text[m] # Space
      BY <2>2, NonSpaceFacts
    <3>2. ASSUME NEW j \in (m + 1)..n PROVE text[j] = Space
      <4>. HIDE DEF m
      <4>1. j \in 1..n /\ ~ (m >= j)
        BY <1>0, <2>3
      <4>2. j \notin T
        BY <2>2, <4>1
      <4>. QED BY <1>0, <4>1, <4>2, NonSpaceFacts
    <3>. QED BY <3>1, <3>2
  <2>. HIDE DEF T, m
  <2>6. m + 1 \in 1..(n + 1) /\ n \in 0..n /\ 1 \in 1..(n + 1) /\ m \in 0..n
    BY <1>0, <2>3
  <2>7. /\ body \in Seq(Marks) /\ Len(body) = m
        /\ \A i \in 1..m : body[i] = text[i]
    <3>1. /\ body \in Seq(Marks)
          /\ Len(body) = IF 1 <= m THEN m - 1 + 1 ELSE 0
          /\ \A i \in 1..(m - 1 + 1) : body[i] = text[1 + i - 1]
      BY <1>0, <2>6, PartFacts
    <3>. HIDE DEF body
    <3>2. m - 1 + 1 = m /\ 1 <= m /\ \A i \in 1..m : 1 + i - 1 = i
      BY <2>3
    <3>. QED BY <3>1, <3>2
  <2>8. /\ tail \in Seq(Marks) /\ Len(tail) = n - m
        /\ \A i \in 1..(n - m) : tail[i] = text[m + i]
    <3>1. /\ tail \in Seq(Marks)
          /\ Len(tail) = IF m + 1 <= n THEN n - (m + 1) + 1 ELSE 0
          /\ \A i \in 1..(n - (m + 1) + 1) : tail[i] = text[(m + 1) + i - 1]
      BY <1>0, <2>6, PartFacts
    <3>. HIDE DEF tail
    <3>2. n - (m + 1) + 1 = n - m /\ \A i \in 1..(n - m) : (m + 1) + i - 1 = m + i
      BY <1>0, <2>3
    <3>3. ~ (m + 1 <= n) => n - m = 0
      BY <1>0, <2>3
    <3>. QED BY <3>1, <3>2, <3>3
  <2>9. Tail_(text, body) = tail
    BY <1>0, <2>7 DEF Tail_
  <2>. HIDE DEF body, tail
  <2>10. tail \in Blanks
    <3>1. \A i \in 1..(n - m) : m + i \in (m + 1)..n
      BY <1>0, <2>3
    <3>2. \A i \in 1..Len(tail) : tail[i] = Space
      BY <2>5, <2>8, <3>1
    <3>. QED BY <2>8, <3>2, BlankFacts
  <2>11. /\ body \o tail \in Seq(Marks) /\ Len(body \o tail) = n
         /\ \A i \in 1..m : (body \o tail)[i] = body[i]
         /\ \A i \in 1..(n - m) : (body \o tail)[m + i] = tail[i]
    <3>0. body \in Seq(Marks) /\ tail \in Seq(Marks)
      BY <2>7, <2>8
    <3>1. /\ body \o tail \in Seq(Marks) /\ Len(body \o tail) = Len(body) + Len(tail)
          /\ \A i \in 1..Len(body) : (body \o tail)[i] = body[i]
          /\ \A i \in 1..Len(tail) : (body \o tail)[Len(body) + i] = tail[i]
      BY <3>0, JoinFacts
    <3>2. Len(body) + Len(tail) = n
      BY <1>0, <2>3, <2>7, <2>8
    <3>. QED BY <2>7, <2>8, <3>1, <3>2
  <2>12. ASSUME NEW i \in 1..n PROVE text[i] = (body \o tail)[i]
    <3>1. CASE i <= m
      <4>1. i \in 1..m
        BY <2>3, <3>1
      <4>. QED BY <2>7, <2>11, <4>1
    <3>2. CASE ~ (i <= m)
      <4>1. PICK k \in 1..(n - m) : m + k = i
        <5>1. i - m \in 1..(n - m) /\ m + (i - m) = i
          BY <1>0, <2>3, <3>2
        <5>. QED BY <5>1
      <4>. QED BY <2>8, <2>11, <4>1
    <3>. QED BY <3>1, <3>2
  <2>13. text = body \o tail
    BY <1>0, <2>11, <2>12, SeqEqual
  <2>14. body # <<>> /\ body[Len(body)] # Space /\ body[1] = text[1]
    <3>1. 1 \in 1..m /\ m \in 1..m /\ m # 0
      BY <2>3
    <3>. QED BY <2>5, <2>7, <3>1, SeqFacts
  <2>15. NonSpace(text) # {}
    BY <1>2 DEF T
  <2>. QED BY <2>4, <2>7, <2>9, <2>10, <2>13, <2>14, <2>15
<1>. QED BY <1>1, <1>2

LEMMA StripEmpty == Strip(<<>>) = <<>>
<1>1. NonSpace(<<>>) = {}
  BY DEF NonSpace
<1>2. LStrip(<<>>) = <<>> /\ RStrip(<<>>) = <<>>
  BY <1>1 DEF LStrip, RStrip
<1>. QED BY <1>2 DEF Strip

\* A text is blank when nothing is left of it.
LEMMA StripBlank ==
  ASSUME NEW text \in Seq(Marks)
  PROVE  Strip(text) = <<>> <=> NonSpace(text) = {}
<1>1. ASSUME NonSpace(text) = {} PROVE Strip(text) = <<>>
  <2>1. LStrip(text) = <<>>
    BY <1>1 DEF LStrip
  <2>2. LStrip(<<>>) = <<>>
    <3>1. NonSpace(<<>>) = {}
      BY DEF NonSpace
    <3>. QED BY <3>1 DEF LStrip
  <2>. QED BY <2>1, <2>2, StripEmpty DEF Strip
<1>2. ASSUME NonSpace(text) # {} PROVE Strip(text) # <<>>
  <2>. DEFINE rest == LStrip(text)
  <2>1. rest \in Seq(Marks) /\ rest # <<>> /\ rest[1] # Space
    BY <1>2, LeftStrip
  <2>. HIDE DEF rest
  <2>2. 1 \in NonSpace(rest)
    <3>1. 1 \in 1..Len(rest) /\ DOMAIN rest = 1..Len(rest)
      <4>1. Len(rest) \in Nat /\ Len(rest) # 0 /\ DOMAIN rest = 1..Len(rest)
        BY <2>1, SeqFacts
      <4>. QED BY <4>1
    <3>. QED BY <2>1, <3>1 DEF NonSpace
  <2>3. RStrip(rest) # <<>>
    BY <2>1, <2>2, RightStrip
  <2>. QED BY <2>3 DEF rest, Strip
<1>. QED BY <1>1, <1>2

\* What is left of a text is its tight part.
LEMMA StripIs ==
  ASSUME NEW lead \in Blanks, NEW body \in Seq(Marks), NEW tail \in Blanks, Tight(body)
  PROVE  Strip((lead \o body) \o tail) = body
<1>0. /\ lead \in Seq(Marks) /\ tail \in Seq(Marks)
      /\ \A i \in 1..Len(lead) : lead[i] = Space
      /\ \A i \in 1..Len(tail) : tail[i] = Space
  <2>1. lead \in Seq({Space}) /\ tail \in Seq({Space})
    BY DEF Blanks
  <2>. QED BY <2>1, BlankIsMark
<1>a. PICK a \in Nat : a = Len(lead)
  BY <1>0, SeqFacts
<1>b. PICK b \in Nat : b = Len(body)
  BY SeqFacts
<1>c. PICK c \in Nat : c = Len(tail)
  BY <1>0, SeqFacts
<1>. DEFINE front == lead \o body
            text == front \o tail
            rest == body \o tail
<1>1. /\ front \in Seq(Marks) /\ Len(front) = a + b
      /\ \A i \in 1..a : front[i] = lead[i]
      /\ \A i \in 1..b : front[a + i] = body[i]
  <2>1. /\ front \in Seq(Marks) /\ Len(front) = Len(lead) + Len(body)
        /\ \A i \in 1..Len(lead) : front[i] = lead[i]
        /\ \A i \in 1..Len(body) : front[Len(lead) + i] = body[i]
    BY <1>0, JoinFacts
  <2>. QED BY <1>a, <1>b, <2>1
<1>2. /\ rest \in Seq(Marks) /\ Len(rest) = b + c
      /\ \A i \in 1..b : rest[i] = body[i]
      /\ \A i \in 1..c : rest[b + i] = tail[i]
  <2>1. /\ rest \in Seq(Marks) /\ Len(rest) = Len(body) + Len(tail)
        /\ \A i \in 1..Len(body) : rest[i] = body[i]
        /\ \A i \in 1..Len(tail) : rest[Len(body) + i] = tail[i]
    BY <1>0, JoinFacts
  <2>. QED BY <1>b, <1>c, <2>1
<1>. HIDE DEF front, rest
<1>3. /\ text \in Seq(Marks) /\ Len(text) = a + b + c
      /\ \A i \in 1..a : text[i] = Space
      /\ \A i \in 1..b : text[a + i] = body[i]
      /\ \A i \in 1..c : text[a + b + i] = Space
  <2>1. /\ text \in Seq(Marks) /\ Len(text) = Len(front) + Len(tail)
        /\ \A i \in 1..Len(front) : text[i] = front[i]
        /\ \A i \in 1..Len(tail) : text[Len(front) + i] = tail[i]
    <3>1. front \in Seq(Marks) /\ tail \in Seq(Marks)
      BY <1>0, <1>1
    <3>. QED BY <3>1, JoinFacts
  <2>. HIDE DEF text
  <2>2. \A i \in 1..a : i \in 1..(a + b)
    OBVIOUS
  <2>3. \A i \in 1..b : a + i \in 1..(a + b)
    OBVIOUS
  <2>. QED BY <1>0, <1>1, <1>a, <1>c, <2>1, <2>2, <2>3
<1>. HIDE DEF text
<1>4. CASE b = 0
  <2>1. body = <<>>
    BY <1>4, <1>b, SeqFacts
  <2>2. ASSUME NEW i \in 1..Len(text) PROVE text[i] = Space
    <3>1. i \in 1..(a + c)
      BY <1>3, <1>4
    <3>2. CASE i <= a
      <4>1. i \in 1..a
        BY <3>1, <3>2
      <4>. QED BY <1>3, <4>1
    <3>3. CASE ~ (i <= a)
      <4>1. i - a \in 1..c /\ a + b + (i - a) = i
        BY <1>4, <3>1, <3>3
      <4>. QED BY <1>3, <4>1
    <3>. QED BY <3>2, <3>3
  <2>3. NonSpace(text) = {}
    <3>1. \A i \in 1..Len(text) : i \notin NonSpace(text)
      BY <1>3, <2>2, NonSpaceFacts
    <3>2. NonSpace(text) \in SUBSET (1..Len(text))
      BY <1>3, NonSpaceFacts
    <3>. QED BY <3>1, <3>2
  <2>4. Strip(text) = <<>>
    BY <1>3, <2>3, StripBlank
  <2>. QED BY <2>1, <2>4 DEF text, front
<1>5. CASE b # 0
  <2>1. b \in 1..b /\ 1 \in 1..b
    BY <1>5
  <2>2. body # <<>>
    BY <1>5, <1>b, SeqFacts
  <2>3. body[1] # Space /\ body[b] # Space
    BY <1>b, <2>2 DEF Tight
  <2>4. LStrip(text) = rest
    <3>. DEFINE T == NonSpace(text)
                m == CHOOSE i \in T : \A j \in T : i <= j
    <3>1. a + 1 \in T
      <4>1. a + 1 \in 1..Len(text) /\ text[a + 1] # Space
        BY <1>3, <2>1, <2>3
      <4>. QED BY <1>3, <4>1, NonSpaceFacts
    <3>2. \A j \in T : j \in Nat /\ a + 1 <= j
      <4>. SUFFICES ASSUME NEW j \in T PROVE j \in Nat /\ a + 1 <= j
        OBVIOUS
      <4>1. j \in 1..Len(text) /\ text[j] # Space
        BY <1>3, NonSpaceFacts
      <4>2. j \notin 1..a
        BY <1>3, <4>1
      <4>. QED BY <1>3, <4>1, <4>2
    <3>3. m \in T /\ \A j \in T : m <= j
      <4>1. T \in SUBSET Nat /\ T # {}
        BY <3>1, <3>2
      <4>. HIDE DEF T
      <4>. QED BY <4>1, FirstOf
    <3>4. m = a + 1
      <4>. HIDE DEF m, T
      <4>1. m <= a + 1 /\ a + 1 <= m /\ m \in Nat
        BY <3>1, <3>2, <3>3
      <4>. QED BY <4>1
    <3>5. LStrip(text) = SubSeq(text, a + 1, a + b + c)
      <4>1. LStrip(text) = SubSeq(text, m, Len(text))
        BY <3>1 DEF LStrip
      <4>. HIDE DEF m
      <4>. QED BY <1>3, <3>4, <4>1
    <3>. DEFINE part == SubSeq(text, a + 1, a + b + c)
    <3>6. /\ part \in Seq(Marks)
          /\ Len(part) = IF a + 1 <= a + b + c THEN a + b + c - (a + 1) + 1 ELSE 0
          /\ \A i \in 1..(a + b + c - (a + 1) + 1) : part[i] = text[a + 1 + i - 1]
      <4>1. a + 1 \in 1..(a + b + c + 1) /\ a + b + c \in 0..(a + b + c)
        OBVIOUS
      <4>. HIDE DEF part
      <4>2. a + 1 \in 1..(Len(text) + 1) /\ a + b + c \in 0..Len(text)
        BY <1>3, <4>1
      <4>. QED BY <1>3, <4>2, PartFacts DEF part
    <3>. HIDE DEF part
    <3>7. Len(part) = b + c /\ \A i \in 1..(b + c) : part[i] = text[a + i]
      <4>1. a + b + c - (a + 1) + 1 = b + c /\ a + 1 <= a + b + c
        BY <1>5
      <4>2. \A i \in 1..(b + c) : a + 1 + i - 1 = a + i
        OBVIOUS
      <4>. QED BY <3>6, <4>1, <4>2
    <3>8. ASSUME NEW i \in 1..(b + c) PROVE part[i] = rest[i]
      <4>1. CASE i <= b
        <5>1. i \in 1..b
          BY <4>1
        <5>. QED BY <1>2, <1>3, <3>7, <5>1
      <4>2. CASE ~ (i <= b)
        <5>1. PICK k \in 1..c : b + k = i
          <6>1. i - b \in 1..c /\ b + (i - b) = i
            BY <4>2
          <6>. QED BY <6>1
        <5>2. a + i = a + b + k
          BY <5>1
        <5>3. part[i] = Space
          BY <1>3, <3>7, <5>1, <5>2
        <5>4. rest[i] = Space
          BY <1>0, <1>2, <1>c, <5>1
        <5>. QED BY <5>3, <5>4
      <4>. QED BY <4>1, <4>2
    <3>9. part = rest
      BY <1>2, <3>6, <3>7, <3>8, SeqEqual
    <3>. QED BY <3>5, <3>9 DEF part
  <2>5. RStrip(rest) = body
    <3>. DEFINE T == NonSpace(rest)
                m == CHOOSE i \in T : \A j \in T : i >= j
    <3>1. b \in T
      <4>1. b \in 1..Len(rest) /\ rest[b] # Space
        BY <1>2, <2>1, <2>3
      <4>. QED BY <1>2, <4>1, NonSpaceFacts
    <3>2. \A j \in T : j \in Nat /\ j <= b
      <4>. SUFFICES ASSUME NEW j \in T PROVE j \in Nat /\ j <= b
        OBVIOUS
      <4>1. j \in 1..Len(rest) /\ rest[j] # Space
        BY <1>2, NonSpaceFacts
      <4>2. \A k \in 1..c : rest[b + k] = Space
        BY <1>0, <1>2, <1>c
      <4>3. ASSUME ~ (j <= b) PROVE FALSE
        <5>1. j - b \in 1..c /\ b + (j - b) = j
          BY <1>2, <4>1, <4>3
        <5>. QED BY <4>1, <4>2, <5>1
      <4>. QED BY <4>1, <4>3
    <3>3. m \in T /\ \A j \in T : m >= j
      <4>. HIDE DEF T
      <4>0. \A j \in T : j \in 0..b
        BY <3>2
      <4>1. T \in SUBSET (0..b) /\ T # {}
        BY <3>1, <4>0
      <4>. QED BY <4>1, LastOf
    <3>4. m = b
      <4>. HIDE DEF m, T
      <4>1. m >= b /\ m <= b /\ m \in Nat
        BY <3>1, <3>2, <3>3
      <4>. QED BY <4>1
    <3>5. RStrip(rest) = SubSeq(rest, 1, b)
      <4>1. RStrip(rest) = SubSeq(rest, 1, m)
        BY <3>1 DEF RStrip
      <4>. HIDE DEF m
      <4>. QED BY <3>4, <4>1
    <3>. DEFINE part == SubSeq(rest, 1, b)
    <3>6. /\ part \in Seq(Marks)
          /\ Len(part) = IF 1 <= b THEN b - 1 + 1 ELSE 0
          /\ \A i \in 1..(b - 1 + 1) : part[i] = rest[1 + i - 1]
      <4>1. 1 \in 1..(b + c + 1) /\ b \in 0..(b + c)
        OBVIOUS
      <4>2. 1 \in 1..(Len(rest) + 1) /\ b \in 0..Len(rest)
        BY <1>2, <4>1
      <4>. HIDE DEF part
      <4>. QED BY <1>2, <4>2, PartFacts DEF part
    <3>. HIDE DEF part
    <3>7. Len(part) = b /\ \A i \in 1..b : part[i] = body[i]
      <4>1. 1 <= b /\ b - 1 + 1 = b /\ \A i \in 1..b : 1 + i - 1 = i
        BY <1>5
      <4>. QED BY <1>2, <3>6, <4>1
    <3>8. part = body
      BY <1>b, <3>6, <3>7, SeqEqual
    <3>. QED BY <3>5, <3>8 DEF part
  <2>. QED BY <2>4, <2>5 DEF Strip, text, front
<1>. QED BY <1>4, <1>5

-----------------------------------------------------------------------------
(* Pieces put together                                                      *)

Strings == Seq(Marks)
Pieces == Seq(Strings)

\* upTo goes through the pieces.
Joins(upTo, pieces) ==
  upTo[0] = <<>> /\ \A n \in 1..Len(pieces) : upTo[n] = upTo[n - 1] \o pieces[n]

LEMMA JoinedGoes ==
  ASSUME NEW pieces \in Pieces
  PROVE  \E upTo \in [0..Len(pieces) -> Strings] :
           Joins(upTo, pieces) /\ \A k \in 0..Len(pieces) : Joined(pieces, k) = upTo[k]
<1>. DEFINE S == Strings
            step == [x \in (1..Len(pieces)) \X S |-> x[2] \o pieces[x[1]]]
            Rest(f, n) == IF n = 0 THEN <<>> ELSE f[n - 1] \o pieces[n]
            upTo == CHOOSE f : f = [n \in 0..Len(pieces) |-> Rest(f, n)]
<1>1. Len(pieces) \in Nat /\ \A n \in 1..Len(pieces) : pieces[n] \in S
  BY SeqFacts DEF Pieces
<1>2. ASSUME NEW n \in 1..Len(pieces), NEW s \in S PROVE s \o pieces[n] \in S
  BY <1>1, ConcatProperties DEF Strings
<1>3. <<>> \in S
  BY DEF Strings
<1>. HIDE DEF S
<1>4. step \in [(1..Len(pieces)) \X S -> S] /\ \A n \in 1..Len(pieces), s \in S : step[<<n, s>>] = s \o pieces[n]
  BY <1>2
<1>. HIDE DEF step
<1>5. PICK f \in [0..Len(pieces) -> S] : Walks(f, Len(pieces), <<>>, step)
  BY <1>1, <1>3, <1>4, StepByStep
<1>6. f[0] = <<>> /\ \A n \in 1..Len(pieces) : f[n] = step[<<n, f[n - 1]>>]
  BY <1>5 DEF Walks
<1>7. \A n \in 0..Len(pieces) : f[n] = Rest(f, n)
  <2>. SUFFICES ASSUME NEW n \in 0..Len(pieces) PROVE f[n] = Rest(f, n)
    OBVIOUS
  <2>1. CASE n = 0
    BY <1>6, <2>1
  <2>2. CASE n # 0
    <3>1. n \in 1..Len(pieces) /\ n - 1 \in 0..Len(pieces)
      BY <1>1, <2>2
    <3>2. f[n - 1] \in S
      BY <3>1
    <3>3. f[n] = f[n - 1] \o pieces[n]
      BY <1>4, <1>6, <3>1, <3>2
    <3>. QED BY <2>2, <3>3
  <2>. QED BY <2>1, <2>2
<1>8. f = [n \in 0..Len(pieces) |-> Rest(f, n)]
  BY <1>7
<1>9. upTo = [n \in 0..Len(pieces) |-> Rest(upTo, n)]
  <2>. HIDE DEF Rest
  <2>. QED BY <1>8
<1>10. \A k \in 0..Len(pieces) : Joined(pieces, k) = upTo[k]
  BY DEF Joined
<1>. HIDE DEF upTo
<1>11. Joins(upTo, pieces)
  <2>1. 0 \in 0..Len(pieces) /\ \A n \in 1..Len(pieces) : n \in 0..Len(pieces) /\ n # 0
    BY <1>1
  <2>2. upTo[0] = <<>>
    BY <1>9, <2>1
  <2>3. ASSUME NEW n \in 1..Len(pieces) PROVE upTo[n] = upTo[n - 1] \o pieces[n]
    BY <1>9, <2>1
  <2>. QED BY <2>2, <2>3 DEF Joins
<1>12. \A n \in 0..Len(pieces) : upTo[n] \in S
  <2>. DEFINE Typed == {n \in 0..Len(pieces) : upTo[n] \in S}
  <2>1. 0 \in Typed
    BY <1>1, <1>3, <1>11 DEF Joins
  <2>2. ASSUME NEW n \in 1..Len(pieces), n - 1 \in Typed PROVE n \in Typed
    <3>1. n \in 0..Len(pieces) /\ upTo[n - 1] \in S
      BY <1>1, <2>2
    <3>2. upTo[n] = upTo[n - 1] \o pieces[n]
      BY <1>11 DEF Joins
    <3>. QED BY <1>2, <3>1, <3>2
  <2>. HIDE DEF Typed
  <2>3. \A n \in 0..Len(pieces) : n \in Typed
    BY <1>1, <2>1, <2>2, Climbing
  <2>. QED BY <2>3 DEF Typed
<1>13. upTo \in [0..Len(pieces) -> S]
  <2>. HIDE DEF Rest
  <2>. QED BY <1>9, <1>12
<1>. QED BY <1>10, <1>11, <1>13 DEF S

LEMMA JoinedSteps ==
  ASSUME NEW pieces \in Pieces
  PROVE  /\ Len(pieces) \in Nat /\ Joined(pieces, 0) = <<>>
         /\ \A k \in 0..Len(pieces) : Joined(pieces, k) \in Strings
         /\ \A k \in 1..Len(pieces) : pieces[k] \in Strings /\ Joined(pieces, k) = Joined(pieces, k - 1) \o pieces[k]
<1>1. Len(pieces) \in Nat /\ \A k \in 1..Len(pieces) : pieces[k] \in Strings
  BY SeqFacts DEF Pieces
<1>2. PICK upTo \in [0..Len(pieces) -> Strings] :
        Joins(upTo, pieces) /\ \A k \in 0..Len(pieces) : Joined(pieces, k) = upTo[k]
  BY JoinedGoes
<1>3. 0 \in 0..Len(pieces) /\ \A k \in 1..Len(pieces) : k \in 0..Len(pieces) /\ k - 1 \in 0..Len(pieces)
  BY <1>1
<1>4. Joined(pieces, 0) = <<>>
  BY <1>2, <1>3 DEF Joins
<1>5. \A k \in 0..Len(pieces) : Joined(pieces, k) \in Strings
  BY <1>2
<1>6. ASSUME NEW k \in 1..Len(pieces) PROVE Joined(pieces, k) = Joined(pieces, k - 1) \o pieces[k]
  <2>1. Joined(pieces, k) = upTo[k] /\ Joined(pieces, k - 1) = upTo[k - 1]
    BY <1>2, <1>3
  <2>. QED BY <1>2, <2>1 DEF Joins
<1>. QED BY <1>1, <1>4, <1>5, <1>6

\* The first pieces put together are the same text when the pieces are.
LEMMA JoinedSame ==
  ASSUME NEW pieces \in Pieces, NEW others \in Pieces, NEW n \in Nat,
         n <= Len(pieces), n <= Len(others), \A k \in 1..n : pieces[k] = others[k]
  PROVE  \A k \in 0..n : Joined(pieces, k) = Joined(others, k)
<1>. DEFINE Same == {k \in 0..n : Joined(pieces, k) = Joined(others, k)}
<1>1. 0 \in Same
  <2>1. Joined(pieces, 0) = <<>> /\ Joined(others, 0) = <<>>
    BY JoinedSteps
  <2>. QED BY <2>1
<1>2. ASSUME NEW k \in 1..n, k - 1 \in Same PROVE k \in Same
  <2>0. Len(pieces) \in Nat /\ Len(others) \in Nat
    BY JoinedSteps
  <2>1. k \in 1..Len(pieces) /\ k \in 1..Len(others) /\ k \in 0..n
    BY <2>0
  <2>2. Joined(pieces, k) = Joined(pieces, k - 1) \o pieces[k]
    BY <2>1, JoinedSteps
  <2>3. Joined(others, k) = Joined(others, k - 1) \o others[k]
    BY <2>1, JoinedSteps
  <2>4. Joined(pieces, k - 1) = Joined(others, k - 1)
    BY <1>2
  <2>. QED BY <2>1, <2>2, <2>3, <2>4
<1>. HIDE DEF Same
<1>3. \A k \in 0..n : k \in Same
  BY <1>1, <1>2, Climbing
<1>. QED BY <1>3 DEF Same

LEMMA AppendFacts ==
  ASSUME NEW pieces \in Pieces, NEW p \in Strings
  PROVE  /\ Append(pieces, p) \in Pieces /\ Len(Append(pieces, p)) = Len(pieces) + 1
         /\ \A k \in 1..Len(pieces) : Append(pieces, p)[k] = pieces[k]
         /\ Append(pieces, p)[Len(pieces) + 1] = p
BY DEF Pieces

\* A piece more.
LEMMA JoinedAppend ==
  ASSUME NEW pieces \in Pieces, NEW p \in Strings
  PROVE  /\ Join(Append(pieces, p)) = Join(pieces) \o p
         /\ \A k \in 0..Len(pieces) : Joined(Append(pieces, p), k) = Joined(pieces, k)
<1>0. PICK n \in Nat : n = Len(pieces)
  BY JoinedSteps
<1>. DEFINE more == Append(pieces, p)
<1>1. more \in Pieces /\ Len(more) = n + 1 /\ more[n + 1] = p /\ \A k \in 1..n : more[k] = pieces[k]
  BY <1>0, AppendFacts
<1>. HIDE DEF more
<1>2. \A k \in 0..n : Joined(more, k) = Joined(pieces, k)
  <2>1. n <= Len(pieces) /\ n <= Len(more)
    BY <1>0, <1>1
  <2>2. \A k \in 0..n : Joined(pieces, k) = Joined(more, k)
    BY <1>1, <2>1, JoinedSame
  <2>. QED BY <2>2
<1>3. Joined(more, n + 1) = Joined(more, n) \o p
  <2>1. \A k \in 1..Len(more) : Joined(more, k) = Joined(more, k - 1) \o more[k]
    BY <1>1, JoinedSteps
  <2>2. PICK k \in 1..Len(more) : k = n + 1
    <3>1. n + 1 \in 1..Len(more)
      BY <1>1
    <3>. QED BY <3>1
  <2>3. k - 1 = n
    BY <2>2
  <2>4. Joined(more, k) = Joined(more, k - 1) \o more[k]
    BY <2>1
  <2>5. Joined(more, k) = Joined(more, n) \o more[k]
    BY <2>3, <2>4
  <2>. QED BY <1>1, <2>2, <2>5
<1>4. Joined(more, n) = Joined(pieces, n)
  BY <1>2
<1>. QED BY <1>0, <1>1, <1>2, <1>3, <1>4 DEF Join, more

\* The pieces that are the answer's own.
LEMMA NoteFacts ==
  /\ Extract \in Strings /\ ExtractAndNote \in Strings /\ Notes \subseteq Strings
  /\ Extract \notin Notes /\ ExtractAndNote \notin Notes
  /\ Extract # <<>> /\ ExtractAndNote # <<>>
<1>1. /\ "extract" \in Marks /\ "noteNoModel" \in Marks
      /\ "noteCutShort" \in Marks /\ "noteServerError" \in Marks
  BY DEF Marks, Written
<1>. HIDE DEF Marks
<1>2. /\ Extract \in Strings /\ ExtractAndNote \in Strings
      /\ CutNote \in Strings /\ ErrorNote \in Strings
  BY <1>1 DEF Strings, Extract, ExtractAndNote, CutNote, ErrorNote
<1>3. Extract \notin Notes /\ ExtractAndNote \notin Notes
  BY DEF Extract, ExtractAndNote, Notes, CutNote, ErrorNote
<1>4. Extract # <<>> /\ ExtractAndNote # <<>>
  BY DEF Extract, ExtractAndNote
<1>. QED BY <1>2, <1>3, <1>4 DEF Notes

\* No answer is taken for the want of one.
LEMMA NoTurnIsNoText == NoTurn \notin Strings
<1>1. "noTurn" \notin Words /\ "noTurn" # Space
  BY WordsAssumption, Zenon DEF Space
<1>2. "noTurn" \notin Written
  BY Zenon DEF Written
<1>3. "noTurn" \notin Marks
  BY <1>1, <1>2, Zenon DEF Marks, Chars
<1>. HIDE DEF Marks
<1>4. ASSUME NoTurn \in Strings PROVE "noTurn" \in Marks
  <2>1. NoTurn \in Seq(Marks)
    BY <1>4 DEF Strings
  <2>. DEFINE t == NoTurn
  <2>2. Len(t) = 1 /\ t[1] = "noTurn"
    BY DEF NoTurn
  <2>. HIDE DEF t
  <2>3. t \in Seq(Marks)
    BY <2>1 DEF t
  <2>4. t[1] \in Marks
    BY <2>2, <2>3, SeqFacts
  <2>. QED BY <2>2, <2>4
<1>. QED BY <1>3, <1>4

LEMMA KeptFacts ==
  ASSUME NEW pieces \in Pieces
  PROVE  /\ Kept(pieces) \in Pieces /\ Len(Kept(pieces)) = Len(pieces)
         /\ \A k \in 1..Len(pieces) : Kept(pieces)[k] = IF pieces[k] \in Notes THEN <<>> ELSE pieces[k]
<1>. DEFINE One(k) == IF pieces[k] \in Notes THEN <<>> ELSE pieces[k]
<1>1. Len(pieces) \in Nat /\ DOMAIN pieces = 1..Len(pieces) /\ \A k \in 1..Len(pieces) : pieces[k] \in Strings
  BY SeqFacts DEF Pieces
<1>2. \A k \in 1..Len(pieces) : One(k) \in Strings
  <2>1. <<>> \in Strings
    BY DEF Strings
  <2>. QED BY <1>1, <2>1
<1>. HIDE DEF One
<1>3. Kept(pieces) = [k \in 1..Len(pieces) |-> One(k)]
  BY <1>1 DEF Kept, One
<1>. DEFINE kept == Kept(pieces)
<1>4. kept \in Seq(Strings) /\ Len(kept) = Len(pieces)
  <2>. HIDE DEF Strings
  <2>. QED BY <1>1, <1>2, <1>3
<1>. QED BY <1>3, <1>4 DEF Pieces, One

\* A piece more is kept unless it is a note.
LEMMA KeptAppend ==
  ASSUME NEW pieces \in Pieces, NEW p \in Strings
  PROVE  Join(Kept(Append(pieces, p))) = IF p \in Notes THEN Join(Kept(pieces)) ELSE Join(Kept(pieces)) \o p
<1>. DEFINE more == Append(pieces, p)
            a == Kept(pieces)
            b == Kept(more)
            x == IF p \in Notes THEN <<>> ELSE p
            c == Append(a, x)
<1>0. PICK n \in Nat : n = Len(pieces)
  BY JoinedSteps
<1>1. more \in Pieces /\ Len(more) = n + 1 /\ more[n + 1] = p /\ \A k \in 1..n : more[k] = pieces[k]
  BY <1>0, AppendFacts
<1>2. x \in Strings
  BY DEF Strings
<1>3. a \in Pieces /\ Len(a) = n /\ \A k \in 1..n : a[k] = IF pieces[k] \in Notes THEN <<>> ELSE pieces[k]
  BY <1>0, KeptFacts
<1>. HIDE DEF more
<1>4. b \in Pieces /\ Len(b) = n + 1 /\ \A k \in 1..(n + 1) : b[k] = IF more[k] \in Notes THEN <<>> ELSE more[k]
  BY <1>1, KeptFacts
<1>. HIDE DEF a, b
<1>5. c \in Pieces /\ Len(c) = n + 1 /\ c[n + 1] = x /\ \A k \in 1..n : c[k] = a[k]
  <2>. HIDE DEF x
  <2>. QED BY <1>2, <1>3, AppendFacts
<1>6. \A k \in 1..(n + 1) : b[k] = c[k]
  <2>. SUFFICES ASSUME NEW k \in 1..(n + 1) PROVE b[k] = c[k]
    OBVIOUS
  <2>. HIDE DEF c
  <2>1. CASE k = n + 1
    BY <1>1, <1>4, <1>5, <2>1
  <2>2. CASE k # n + 1
    <3>1. k \in 1..n
      BY <2>2
    <3>. QED BY <1>1, <1>3, <1>4, <1>5, <3>1
  <2>. QED BY <2>1, <2>2
<1>7. b = c
  <2>. HIDE DEF c
  <2>. QED BY <1>4, <1>5, <1>6, SeqEqual DEF Pieces
<1>8. Join(c) = Join(a) \o x
  <2>. HIDE DEF x
  <2>. QED BY <1>2, <1>3, JoinedAppend
<1>9. Join(a) \o <<>> = Join(a)
  <2>1. Join(a) \in Strings
    <3>1. n \in 0..Len(a)
      BY <1>3
    <3>. QED BY <1>3, <3>1, JoinedSteps DEF Join
  <2>. QED BY <2>1, EmptyJoins DEF Strings
<1>10. CASE p \in Notes
  BY <1>7, <1>8, <1>9, <1>10 DEF a, b, more
<1>11. CASE p \notin Notes
  BY <1>7, <1>8, <1>11 DEF a, b, more
<1>. QED BY <1>10, <1>11

\* When no piece is a note all are kept.
LEMMA AllKept ==
  ASSUME NEW pieces \in Pieces, \A k \in 1..Len(pieces) : pieces[k] \notin Notes
  PROVE  Kept(pieces) = pieces
<1>1. Kept(pieces) \in Pieces /\ Len(Kept(pieces)) = Len(pieces) /\ \A k \in 1..Len(pieces) : Kept(pieces)[k] = pieces[k]
  BY KeptFacts
<1>. DEFINE kept == Kept(pieces)
<1>. HIDE DEF kept
<1>2. kept \in Seq(Strings) /\ Len(kept) = Len(pieces) /\ \A k \in 1..Len(pieces) : kept[k] = pieces[k]
  BY <1>1 DEF kept, Pieces
<1>3. kept = pieces
  BY <1>2, SeqEqual DEF Pieces
<1>. QED BY <1>3 DEF kept

LEMMA JoinTypes ==
  ASSUME NEW pieces \in Pieces
  PROVE  Join(pieces) \in Strings /\ Join(pieces) = Joined(pieces, Len(pieces))
<1>1. Len(pieces) \in 0..Len(pieces)
  BY JoinedSteps
<1>. QED BY <1>1, JoinedSteps DEF Join

LEMMA JoinNothing == <<>> \in Pieces /\ Len(<<>>) = 0 /\ Join(<<>>) = <<>> /\ Kept(<<>>) = <<>>
<1>1. <<>> \in Pieces /\ Len(<<>>) = 0
  BY DEF Pieces
<1>2. Join(<<>>) = <<>>
  BY <1>1, JoinedSteps DEF Join
<1>3. Kept(<<>>) = <<>>
  BY <1>1, AllKept
<1>. QED BY <1>1, <1>2, <1>3

LEMMA JoinOne ==
  ASSUME NEW p \in Strings
  PROVE  /\ <<p>> \in Pieces /\ Len(<<p>>) = 1 /\ <<p>>[1] = p
         /\ Join(<<p>>) = p /\ (p \notin Notes => Join(Kept(<<p>>)) = p)
<1>1. <<p>> = Append(<<>>, p)
  OBVIOUS
<1>2. <<p>> \in Pieces /\ Len(<<p>>) = 1 /\ <<p>>[1] = p
  BY DEF Pieces
<1>3. <<>> \o p = p
  BY EmptyJoins DEF Strings
<1>4. Join(<<p>>) = p
  BY <1>1, <1>3, JoinNothing, JoinedAppend
<1>5. p \notin Notes => Join(Kept(<<p>>)) = p
  BY <1>1, <1>3, JoinNothing, KeptAppend
<1>. QED BY <1>2, <1>4, <1>5

-----------------------------------------------------------------------------
(* The invariant                                                            *)

Phases == {"start", "retry", "waiting", "streaming", "last", "ended", "abandoned", "stored", "not stored"}
Over == {"last", "ended", "abandoned", "stored", "not stored"}

Types == /\ phase \in Phases /\ said \in Seq(Chars) /\ events \in Nat /\ held \in Blanks
         /\ yielded \in Pieces /\ sent \in 0..Len(yielded)

\* The requests made and the seconds waited, each within its allowance.
Budget ==
  /\ tries \in 0..(MaxRetries + 1) /\ slept \in Nat
  /\ slept <= tries * SleepCap /\ slept <= MaxRetries * SleepCap
  /\ phase \in {"start", "retry"} => tries <= MaxRetries

\* Nothing is read, shown or held before a response is open, nor shown before it
\* has text.
Unread == /\ phase \in {"start", "retry"} => events = 0
          /\ phase \in {"start", "retry", "waiting"} => said = <<>> /\ held = <<>> /\ yielded = <<>>

\* What was said is whitespace, what the relay yielded, and the whitespace it holds.
\* What it yielded begins and ends with text.
Relayed(text, pieces, rest) ==
  /\ \A k \in 1..Len(pieces) : pieces[k] \notin Notes
  /\ pieces = <<>> => rest = <<>>
  /\ pieces # <<>> => Join(pieces) # <<>>
  /\ Tight(Join(pieces))
  /\ \E lead \in Blanks : text = (lead \o Join(pieces)) \o rest
Flowing == phase = "streaming" => said # <<>> /\ Relayed(said, yielded, held)

\* However the stream ended, what was yielded of it is what was said, stripped; a
\* stream without text gave place to the answer retrieval had.
Outcome == /\ said # <<>> => Shown = Strip(said)
           /\ phase \in Over /\ said = <<>> => yielded \in {<<Extract>>, <<ExtractAndNote>>}

\* At most one piece is on its way to the client, and none at the end of the body.
Attended == sent >= Len(yielded) - 1 /\ (phase = "ended" => sent = Len(yielded))

Recorded == phase = "stored" => turn = IF Strip(Join(yielded)) = <<>> THEN NoTurn ELSE Join(yielded)

IInv == Types /\ Budget /\ Unread /\ Flowing /\ Outcome /\ Attended /\ Recorded

-----------------------------------------------------------------------------
(* Steps of the invariant                                                   *)

LEMMA Doubled == \A n \in 0..16 : Doublings[n] \in Nat
<1>. DEFINE step == [x \in (1..16) \X Nat |-> 2 * x[2]]
            Rest(f, n) == IF n = 0 THEN Backoff ELSE 2 * f[n - 1]
<1>1. Backoff \in Nat
  BY StreamAssumption
<1>2. step \in [(1..16) \X Nat -> Nat] /\ \A n \in 1..16, w \in Nat : step[<<n, w>>] = 2 * w
  OBVIOUS
<1>. HIDE DEF step
<1>3. PICK f \in [0..16 -> Nat] : Walks(f, 16, Backoff, step)
  BY <1>1, <1>2, StepByStep
<1>4. \A n \in 0..16 : f[n] = Rest(f, n)
  <2>. SUFFICES ASSUME NEW n \in 0..16 PROVE f[n] = Rest(f, n)
    OBVIOUS
  <2>1. CASE n = 0
    BY <1>3, <2>1 DEF Walks
  <2>2. CASE n # 0
    <3>1. n \in 1..16 /\ n - 1 \in 0..16
      BY <2>2
    <3>2. f[n - 1] \in Nat /\ f[n] = step[<<n, f[n - 1]>>]
      BY <1>3, <3>1 DEF Walks
    <3>. QED BY <1>2, <2>2, <3>1, <3>2
  <2>. QED BY <2>1, <2>2
<1>5. f = [n \in 0..16 |-> Rest(f, n)]
  BY <1>4
<1>6. Doublings = [n \in 0..16 |-> Rest(Doublings, n)]
  <2>1. Doublings = CHOOSE g : g = [n \in 0..16 |-> Rest(g, n)]
    BY DEF Doublings
  <2>. HIDE DEF Rest
  <2>. QED BY <1>5, <2>1
<1>. DEFINE Typed == {n \in 0..16 : Doublings[n] \in Nat}
<1>7. 0 \in Typed
  BY <1>1, <1>6
<1>8. ASSUME NEW n \in 1..16, n - 1 \in Typed PROVE n \in Typed
  <2>1. n \in 0..16 /\ n # 0 /\ Doublings[n - 1] \in Nat
    BY <1>8
  <2>2. Doublings[n] = 2 * Doublings[n - 1]
    BY <1>6, <2>1
  <2>3. \A w \in Nat : 2 * w \in Nat
    OBVIOUS
  <2>. QED BY <2>1, <2>2, <2>3
<1>. HIDE DEF Typed
<1>9. \A n \in 0..16 : n \in Typed
  BY <1>7, <1>8, Climbing
<1>. QED BY <1>9 DEF Typed

\* No wait is longer than the cap, whatever the provider asks for.
LEMMA DelaysAreCapped ==
  ASSUME NEW attempt \in Nat, NEW delay \in Delays(attempt)
  PROVE  delay \in Nat /\ delay <= SleepCap
<1>0. SleepCap \in Nat /\ Hints \subseteq Int
  BY StreamAssumption
<1>1. ASSUME NEW h \in Hints PROVE HintDelay(h) \in Nat /\ HintDelay(h) <= SleepCap
  <2>1. h \in Int
    BY <1>0
  <2>. QED BY <1>0, <2>1 DEF HintDelay
<1>2. BackoffDelay(attempt) \in Nat /\ BackoffDelay(attempt) <= SleepCap
  <2>. DEFINE wait == Doublings[IF attempt < 16 THEN attempt ELSE 16]
  <2>1. wait \in Nat
    <3>1. (IF attempt < 16 THEN attempt ELSE 16) \in 0..16
      OBVIOUS
    <3>. QED BY <3>1, Doubled
  <2>2. BackoffDelay(attempt) = IF wait > SleepCap THEN SleepCap ELSE wait
    BY DEF BackoffDelay
  <2>. HIDE DEF wait
  <2>. QED BY <1>0, <2>1, <2>2
<1>. QED BY <1>1, <1>2 DEF Delays

LEMMA CapTimes ==
  ASSUME NEW n \in Nat
  PROVE  /\ n * SleepCap \in Nat /\ (n + 1) * SleepCap = n * SleepCap + SleepCap
         /\ \A m \in Nat : m <= n => m * SleepCap <= n * SleepCap
<1>1. SleepCap \in Nat
  BY StreamAssumption
<1>2. n * SleepCap \in Nat /\ (n + 1) * SleepCap = n * SleepCap + SleepCap
  BY <1>1
<1>3. ASSUME NEW m \in Nat, m <= n PROVE m * SleepCap <= n * SleepCap
  <2>1. PICK k \in Nat : n = m + k
    <3>1. n - m \in Nat /\ n = m + (n - m)
      BY <1>3
    <3>. QED BY <3>1
  <2>2. n * SleepCap = m * SleepCap + k * SleepCap
    BY <1>1, <2>1
  <2>3. m * SleepCap \in Nat /\ k * SleepCap \in Nat
    BY <1>1
  <2>. QED BY <2>2, <2>3
<1>. QED BY <1>2, <1>3

\* The ways parts of a text are grouped below.
LEMMA Closed ==
  ASSUME NEW a \in Strings, NEW b \in Strings
  PROVE  a \o b \in Strings
BY ConcatProperties DEF Strings

LEMMA Grouped ==
  ASSUME NEW a \in Strings, NEW b \in Strings, NEW c \in Strings
  PROVE  (a \o b) \o c = a \o (b \o c)
<1>1. a \in Seq(Marks) /\ b \in Seq(Marks) /\ c \in Seq(Marks)
  BY DEF Strings
<1>. QED BY <1>1, ConcatAssociative

\* Concatenation as the solvers take it best: an operation that associates.
Cat(a, b) == a \o b

LEMMA CatFacts ==
  ASSUME NEW a \in Strings, NEW b \in Strings, NEW c \in Strings
  PROVE  Cat(a, b) \in Strings /\ Cat(Cat(a, b), c) = Cat(a, Cat(b, c))
BY Closed, Grouped DEF Cat

LEMMA LastTwo ==
  ASSUME NEW a \in Strings, NEW b \in Strings, NEW c \in Strings, NEW d \in Strings
  PROVE  Cat(Cat(Cat(a, b), c), d) = Cat(Cat(a, b), Cat(c, d))
<1>1. Cat(a, b) \in Strings
  BY CatFacts
<1>. QED BY <1>1, CatFacts

LEMMA AllButOne ==
  ASSUME NEW a \in Strings, NEW b \in Strings, NEW c \in Strings, NEW d \in Strings
  PROVE  Cat(Cat(Cat(a, b), c), d) = Cat(a, Cat(b, Cat(c, d)))
<1>1. Cat(c, d) \in Strings
  BY CatFacts
<1>2. Cat(Cat(a, b), Cat(c, d)) = Cat(a, Cat(b, Cat(c, d)))
  BY <1>1, CatFacts
<1>. QED BY <1>2, LastTwo

LEMMA AcrossTheCut ==
  ASSUME NEW a \in Strings, NEW b \in Strings, NEW c \in Strings, NEW d \in Strings, NEW e \in Strings
  PROVE  Cat(Cat(Cat(a, b), c), Cat(d, e)) = Cat(Cat(a, Cat(b, Cat(c, d))), e)
<1>1. Cat(a, b) \in Strings /\ Cat(Cat(a, b), c) \in Strings
  BY CatFacts
<1>2. Cat(Cat(Cat(Cat(a, b), c), d), e) = Cat(Cat(Cat(a, b), c), Cat(d, e))
  BY <1>1, CatFacts
<1>. QED BY <1>2, AllButOne

LEMMA BlanksJoin ==
  ASSUME NEW s \in Blanks, NEW t \in Blanks
  PROVE  s \o t \in Blanks
BY ConcatProperties DEF Blanks

LEMMA CharsAreMarks ==
  ASSUME NEW text \in Seq(Chars)
  PROVE  text \in Strings
BY SeqMonotonic DEF Strings, Marks

\* A piece that begins with a character of the model is no note.
LEMMA NoNote ==
  ASSUME NEW p, p[1] \in Chars
  PROVE  p \notin Notes
<1>1. "noteCutShort" \notin Chars /\ "noteServerError" \notin Chars
  <2>1. "noteCutShort" # Space /\ "noteServerError" # Space
    BY Zenon DEF Space
  <2>2. "noteCutShort" \notin Words /\ "noteServerError" \notin Words
    BY WordsAssumption, Zenon
  <2>. QED BY <2>1, <2>2, Zenon DEF Chars
<1>2. CutNote[1] = "noteCutShort" /\ ErrorNote[1] = "noteServerError"
  BY DEF CutNote, ErrorNote
<1>. QED BY <1>1, <1>2, Zenon DEF Notes

LEMMA DeltaFacts ==
  ASSUME NEW delta \in Deltas
  PROVE  delta \in Seq(Chars) /\ delta \in Strings /\ delta # <<>>
BY StreamAssumption, CharsAreMarks DEF Chars

\* The relay keeps what it is to keep: a delta that is whitespace so far.
LEMMA RelayHolds ==
  ASSUME NEW text \in Seq(Chars), NEW pieces \in Pieces, NEW rest \in Blanks, NEW delta \in Deltas,
         Relayed(text, pieces, rest), NEW t, t = IF pieces = <<>> THEN LStrip(delta) ELSE delta, RStrip(t) = <<>>,
         NEW next, next = IF pieces = <<>> THEN rest ELSE rest \o t
  PROVE  next \in Blanks /\ Relayed(text \o delta, pieces, next)
<1>. DEFINE J == Join(pieces)
<1>0. /\ text \in Strings /\ delta \in Strings /\ rest \in Strings /\ J \in Strings /\ <<>> \in Strings
      /\ \A s \in Blanks : s \in Strings
  BY CharsAreMarks, DeltaFacts, JoinTypes, BlankIsMark DEF Strings
<1>1. PICK lead \in Blanks : text = (lead \o J) \o rest
  BY DEF Relayed
<1>2. t \in Strings /\ NonSpace(t) = {} /\ t \in Blanks
  <2>1. t \in Seq(Marks)
    BY <1>0, LeftStrip DEF Strings
  <2>2. NonSpace(t) = {}
    BY <2>1, RightStrip
  <2>3. \A i \in 1..Len(t) : t[i] = Space
    BY <2>1, <2>2, NonSpaceFacts
  <2>4. t \in Blanks
    BY <2>1, <2>3, BlankFacts
  <2>. QED BY <2>1, <2>2, <2>4 DEF Strings
<1>3. CASE pieces = <<>>
  <2>1. J = <<>> /\ rest = <<>> /\ next = <<>>
    BY <1>3, JoinNothing DEF Relayed
  <2>2. t = <<>>
    <3>1. t = LStrip(delta) /\ (t # <<>> => t[1] # Space)
      BY <1>0, <1>3, LeftStrip DEF Strings
    <3>2. ASSUME t # <<>> PROVE FALSE
      <4>1. Len(t) \in Nat /\ Len(t) # 0
        BY <1>2, <3>2, SeqFacts DEF Strings
      <4>2. 1 \in 1..Len(t)
        BY <4>1
      <4>3. t[1] = Space
        BY <1>2, <4>2, NonSpaceFacts DEF Strings
      <4>. QED BY <3>1, <3>2, <4>3
    <3>. QED BY <3>2
  <2>3. PICK more \in Blanks : delta = more \o t
    BY <1>0, <1>3, LeftStrip DEF Strings
  <2>4. delta \in Blanks
    <3>1. more \o <<>> = more
      BY <1>0, EmptyJoins DEF Strings
    <3>. QED BY <2>2, <2>3, <3>1
  <2>5. text = lead
    <3>1. lead \o <<>> = lead
      BY <1>0, EmptyJoins DEF Strings
    <3>. QED BY <1>1, <2>1, <3>1
  <2>. DEFINE front == lead \o delta
  <2>6. front \in Blanks
    BY <2>4, BlanksJoin
  <2>. HIDE DEF J
  <2>7. text \o delta = (front \o J) \o next
    <3>. HIDE DEF front
    <3>1. front \o <<>> = front
      BY <1>0, <2>6, EmptyJoins DEF Strings
    <3>. QED BY <2>1, <2>5, <3>1 DEF front
  <2>8. next \in Blanks
    BY <2>1 DEF Blanks
  <2>. HIDE DEF front
  <2>. QED BY <1>3, <2>1, <2>6, <2>7, <2>8 DEF Relayed, J
<1>4. CASE pieces # <<>>
  <2>1. t = delta /\ next = rest \o delta
    BY <1>4
  <2>2. next \in Blanks
    BY <1>2, <2>1, BlanksJoin
  <2>3. lead \in Strings
    BY <1>0
  <2>. HIDE DEF J
  <2>4. text \o delta = (lead \o J) \o next
    <3>1. lead \in Strings /\ J \in Strings /\ rest \in Strings /\ delta \in Strings
      BY <1>0, <2>3
    <3>2. Cat(Cat(Cat(lead, J), rest), delta) = Cat(Cat(lead, J), Cat(rest, delta))
      BY <3>1, LastTwo
    <3>3. text = Cat(Cat(lead, J), rest) /\ next = Cat(rest, delta)
      BY <1>1, <2>1, Zenon DEF Cat
    <3>4. Cat(text, delta) = Cat(Cat(lead, J), next)
      BY <3>2, <3>3
    <3>. QED BY <3>4, Zenon DEF Cat
  <2>. QED BY <1>4, <2>2, <2>4 DEF Relayed, J
<1>. QED BY <1>3, <1>4

\* A delta with text: the relay yields it with the whitespace it held.
LEMMA RelayYields ==
  ASSUME NEW text \in Seq(Chars), NEW pieces \in Pieces, NEW rest \in Blanks, NEW delta \in Deltas,
         Relayed(text, pieces, rest), NEW t, t = IF pieces = <<>> THEN LStrip(delta) ELSE delta,
         NEW body, body = RStrip(t), body # <<>>
  PROVE  /\ rest \o body \in Strings /\ Tail_(t, body) \in Blanks
         /\ Relayed(text \o delta, Append(pieces, rest \o body), Tail_(t, body))
<1>. DEFINE J == Join(pieces)
            p == rest \o body
            tail == Tail_(t, body)
            more == Append(pieces, p)
<1>0. /\ text \in Strings /\ delta \in Strings /\ rest \in Strings /\ J \in Strings /\ <<>> \in Strings
      /\ \A s \in Blanks : s \in Strings
  BY CharsAreMarks, DeltaFacts, JoinTypes, BlankIsMark DEF Strings
<1>1. PICK lead \in Blanks : text = (lead \o J) \o rest
  BY DEF Relayed
<1>2. t \in Seq(Marks)
  BY <1>0, LeftStrip DEF Strings
<1>3. /\ body \in Strings /\ tail \in Blanks /\ t = body \o tail
      /\ body[Len(body)] # Space /\ body[1] = t[1]
  BY <1>2, RightStrip DEF Strings
<1>4. p \in Strings /\ tail \in Strings
  BY <1>0, <1>3, Closed
<1>5. Len(body) \in Nat \ {0} /\ Len(rest) \in Nat /\ Len(p) = Len(rest) + Len(body)
  <2>1. Len(body) \in Nat /\ Len(body) # 0 /\ Len(rest) \in Nat
    BY <1>0, <1>3, SeqFacts DEF Strings
  <2>2. Len(p) = Len(rest) + Len(body)
    BY <1>0, <1>3, JoinFacts DEF Strings
  <2>. QED BY <2>1, <2>2
<1>6. /\ \A i \in 1..Len(rest) : p[i] = rest[i] /\ rest[i] = Space
      /\ \A i \in 1..Len(body) : p[Len(rest) + i] = body[i]
  <2>1. \A i \in 1..Len(rest) : rest[i] = Space
    <3>1. rest \in Seq({Space})
      BY DEF Blanks
    <3>. QED BY <3>1
  <2>2. rest \in Seq(Marks) /\ body \in Seq(Marks)
    BY <1>0, <1>3 DEF Strings
  <2>3. \A i \in 1..Len(rest) : p[i] = rest[i]
    BY <2>2, JoinFacts
  <2>4. \A i \in 1..Len(body) : p[Len(rest) + i] = body[i]
    BY <2>2, JoinFacts
  <2>. QED BY <2>1, <2>3, <2>4
<1>. HIDE DEF J, p, tail
\* The first character of the piece is the model's.
<1>7. body[1] \in Chars
  <2>0. Len(delta) \in Nat /\ Len(delta) # 0 /\ \A i \in 1..Len(delta) : delta[i] \in Chars
    <3>1. delta \in Seq(Chars) /\ delta # <<>>
      BY DeltaFacts
    <3>. QED BY <3>1, SeqFacts
  <2>1. CASE pieces = <<>>
    <3>1. PICK l2 \in Blanks : delta = l2 \o t
      BY <1>0, <2>1, LeftStrip DEF Strings
    <3>2. Len(l2) \in Nat /\ Len(t) \in Nat /\ l2 \in Seq(Marks)
      BY <1>0, <1>2, SeqFacts DEF Strings
    <3>3. Len(t) # 0
      <4>1. Len(body \o tail) = Len(body) + Len(tail)
        BY <1>3, <1>4, JoinFacts DEF Strings
      <4>2. Len(tail) \in Nat
        BY <1>4, SeqFacts DEF Strings
      <4>. QED BY <1>3, <1>5, <4>1, <4>2
    <3>4. Len(delta) = Len(l2) + Len(t) /\ \A i \in 1..Len(t) : delta[Len(l2) + i] = t[i]
      BY <1>2, <3>1, <3>2, JoinFacts
    <3>5. 1 \in 1..Len(t) /\ Len(l2) + 1 \in 1..(Len(l2) + Len(t))
      BY <3>2, <3>3
    <3>6. delta[Len(l2) + 1] = t[1]
      BY <3>4, <3>5
    <3>. QED BY <1>3, <2>0, <3>4, <3>5, <3>6
  <2>2. CASE pieces # <<>>
    <3>1. 1 \in 1..Len(delta)
      BY <2>0
    <3>. QED BY <1>3, <2>0, <2>2, <3>1
  <2>. QED BY <2>1, <2>2
<1>8. p[1] \in Chars /\ p # <<>>
  <2>1. CASE Len(rest) = 0
    <3>1. 1 \in 1..Len(body) /\ Len(rest) + 1 = 1
      BY <1>5, <2>1
    <3>2. p[Len(rest) + 1] = body[1]
      BY <1>6, <3>1
    <3>. QED BY <1>4, <1>5, <1>7, <2>1, <3>1, <3>2, SeqFacts DEF Strings
  <2>2. CASE Len(rest) # 0
    <3>1. 1 \in 1..Len(rest) /\ Len(rest) + Len(body) # 0
      BY <1>5, <2>2
    <3>2. p[1] = Space
      BY <1>6, <3>1
    <3>. QED BY <1>4, <1>5, <3>1, <3>2, SeqFacts DEF Strings, Chars
  <2>. QED BY <2>1, <2>2
<1>9. p \notin Notes
  BY <1>8, NoNote
<1>10. more \in Pieces /\ Join(more) = J \o p /\ more # <<>> /\ \A k \in 1..Len(more) : more[k] \notin Notes
  <2>1. /\ more \in Pieces /\ Len(more) = Len(pieces) + 1 /\ Len(pieces) \in Nat
        /\ \A k \in 1..Len(pieces) : more[k] = pieces[k]
        /\ more[Len(pieces) + 1] = p
    BY <1>4, AppendFacts, JoinedSteps
  <2>2. Join(more) = J \o p
    BY <1>4, JoinedAppend DEF J
  <2>. HIDE DEF more
  <2>3. ASSUME NEW k \in 1..Len(more) PROVE more[k] \notin Notes
    <3>1. CASE k = Len(pieces) + 1
      BY <1>9, <2>1, <3>1
    <3>2. CASE k # Len(pieces) + 1
      <4>1. k \in 1..Len(pieces)
        BY <2>1, <3>2
      <4>. QED BY <2>1, <4>1 DEF Relayed
    <3>. QED BY <3>1, <3>2
  <2>4. more # <<>>
    <3>1. Len(more) # 0
      BY <2>1
    <3>. QED BY <2>1, <3>1, SeqFacts DEF Pieces
  <2>. QED BY <2>1, <2>2, <2>3, <2>4
<1>. HIDE DEF more
\* The text yielded so far begins and ends with text.
<1>11. J \o p # <<>> /\ Tight(J \o p)
  <2>. DEFINE K == J \o p
  <2>1. /\ K \in Seq(Marks) /\ Len(K) = Len(J) + Len(p) /\ Len(J) \in Nat /\ Len(p) \in Nat
        /\ \A i \in 1..Len(J) : K[i] = J[i]
        /\ \A i \in 1..Len(p) : K[Len(J) + i] = p[i]
    BY <1>0, <1>4, JoinFacts, SeqFacts DEF Strings
  <2>. HIDE DEF K
  <2>2. Len(K) # 0 /\ K # <<>>
    <3>1. Len(K) # 0
      BY <1>5, <2>1
    <3>. QED BY <2>1, <3>1, SeqFacts
  <2>3. K[Len(K)] # Space
    <3>1. Len(body) \in 1..Len(body) /\ Len(rest) + Len(body) \in 1..Len(p)
      BY <1>5
    <3>2. p[Len(rest) + Len(body)] = body[Len(body)]
      BY <1>6, <3>1
    <3>3. K[Len(J) + Len(p)] = p[Len(p)]
      BY <1>5, <2>1, <3>1
    <3>. QED BY <1>3, <1>5, <2>1, <3>2, <3>3
  <2>4. K[1] # Space
    <3>1. CASE pieces = <<>>
      <4>1. J = <<>> /\ rest = <<>> /\ t[1] # Space
        <5>1. J = <<>> /\ rest = <<>>
          BY <3>1, JoinNothing DEF Relayed, J
        <5>2. t # <<>>
          <6>1. Len(body \o tail) = Len(body) + Len(tail)
            BY <1>3, <1>4, JoinFacts DEF Strings
          <6>2. Len(tail) \in Nat
            BY <1>4, SeqFacts DEF Strings
          <6>3. Len(t) # 0
            BY <1>3, <1>5, <6>1, <6>2
          <6>. QED BY <1>2, <6>3, SeqFacts
        <5>3. t[1] # Space
          BY <1>0, <3>1, <5>2, LeftStrip DEF Strings
        <5>. QED BY <5>1, <5>3
      <4>2. Len(J) = 0 /\ Len(rest) = 0
        BY <1>0, <4>1, SeqFacts DEF Strings
      <4>3. 1 \in 1..Len(body) /\ 1 \in 1..Len(p) /\ Len(rest) + 1 = 1 /\ Len(J) + 1 = 1
        BY <1>5, <4>2
      <4>4. p[1] = body[1]
        BY <1>6, <4>2, <4>3
      <4>5. K[1] = p[1]
        BY <2>1, <4>2, <4>3
      <4>. QED BY <1>3, <4>1, <4>4, <4>5
    <3>2. CASE pieces # <<>>
      <4>1. J # <<>> /\ J[1] # Space
        BY <3>2 DEF Relayed, Tight, J
      <4>2. Len(J) # 0
        BY <1>0, <4>1, SeqFacts DEF Strings
      <4>3. 1 \in 1..Len(J)
        BY <2>1, <4>2
      <4>. QED BY <2>1, <4>1, <4>3
    <3>. QED BY <3>1, <3>2
  <2>. QED BY <2>2, <2>3, <2>4 DEF Tight, K
\* What was said is still whitespace, what was yielded, and what is held.
<1>12. \E front \in Blanks : text \o delta = (front \o (J \o p)) \o tail
  <2>0. lead \in Strings
    BY <1>0
  <2>1. CASE pieces = <<>>
    <3>1. J = <<>> /\ rest = <<>>
      BY <2>1, JoinNothing DEF Relayed, J
    <3>2. PICK l2 \in Blanks : delta = l2 \o t
      BY <1>0, <2>1, LeftStrip DEF Strings
    <3>. DEFINE front == lead \o l2
    <3>3. front \in Blanks /\ l2 \in Strings
      BY <1>0, BlanksJoin
    <3>4. text = lead
      <4>1. lead \o <<>> = lead
        BY <2>0, EmptyJoins DEF Strings
      <4>. QED BY <1>1, <3>1, <4>1
    <3>5. p = body /\ J \o p = body
      <4>1. <<>> \o body = body
        BY <1>3, EmptyJoins DEF Strings
      <4>. QED BY <3>1, <4>1 DEF p
    <3>6. Cat(Cat(Cat(lead, l2), body), tail) = Cat(lead, Cat(l2, Cat(body, tail)))
      <4>1. lead \in Strings /\ l2 \in Strings /\ body \in Strings /\ tail \in Strings
        BY <1>3, <1>4, <2>0, <3>3
      <4>. QED BY <4>1, AllButOne
    <3>7. text \o delta = (front \o (J \o p)) \o tail
      <4>1. delta = Cat(l2, Cat(body, tail)) /\ front = Cat(lead, l2)
        BY <1>3, <3>2, Zenon DEF Cat
      <4>. HIDE DEF front
      <4>2. Cat(text, delta) = Cat(Cat(front, body), tail)
        BY <3>4, <3>6, <4>1
      <4>3. text \o delta = (front \o body) \o tail
        BY <4>2, Zenon DEF Cat
      <4>. QED BY <3>5, <4>3, Zenon
    <3>. HIDE DEF front
    <3>. QED BY <3>3, <3>7
  <2>2. CASE pieces # <<>>
    <3>1. delta = body \o tail
      BY <1>3, <2>2
    <3>2. Cat(Cat(Cat(lead, J), rest), Cat(body, tail)) = Cat(Cat(lead, Cat(J, Cat(rest, body))), tail)
      <4>1. /\ lead \in Strings /\ J \in Strings /\ rest \in Strings
            /\ body \in Strings /\ tail \in Strings
        BY <1>0, <1>3, <1>4, <2>0
      <4>. QED BY <4>1, AcrossTheCut
    <3>3. text \o delta = (lead \o (J \o p)) \o tail
      <4>1. text = Cat(Cat(lead, J), rest) /\ delta = Cat(body, tail) /\ p = Cat(rest, body)
        BY <1>1, <3>1, Zenon DEF Cat, p
      <4>2. Cat(text, delta) = Cat(Cat(lead, Cat(J, p)), tail)
        BY <3>2, <4>1
      <4>. QED BY <4>2, Zenon DEF Cat
    <3>. QED BY <3>3
  <2>. QED BY <2>1, <2>2
<1>. QED BY <1>3, <1>4, <1>10, <1>11, <1>12 DEF Relayed, p, tail, more

\* What has been relayed is what has been said, stripped.
LEMMA RelayedIsStripped ==
  ASSUME NEW text, NEW pieces \in Pieces, NEW rest \in Blanks, Relayed(text, pieces, rest)
  PROVE  Join(Kept(pieces)) = Strip(text)
<1>1. Kept(pieces) = pieces
  BY AllKept DEF Relayed
<1>2. PICK lead \in Blanks : text = (lead \o Join(pieces)) \o rest
  BY DEF Relayed
<1>3. Strip((lead \o Join(pieces)) \o rest) = Join(pieces)
  <2>1. Join(pieces) \in Seq(Marks) /\ Tight(Join(pieces))
    BY JoinTypes DEF Strings, Relayed
  <2>. QED BY <2>1, StripIs
<1>. QED BY <1>1, <1>2, <1>3

\* Nothing said, nothing relayed.
LEMMA RelayedNothing == Relayed(<<>>, <<>>, <<>>)
<1>1. Len(<<>>) = 0 /\ Join(<<>>) = <<>>
  BY JoinNothing
<1>2. <<>> \in Blanks
  BY DEF Blanks
<1>3. <<>> = (<<>> \o <<>>) \o <<>>
  BY EmptyJoins
<1>. QED BY <1>1, <1>2, <1>3 DEF Relayed, Tight

\* One delta through the relay.
LEMMA RelayStep ==
  ASSUME said \in Seq(Chars), yielded \in Pieces, held \in Blanks, Relayed(said, yielded, held),
         NEW delta \in Deltas, said' = said \o delta, Relay(delta)
  PROVE  /\ said' \in Seq(Chars) /\ said' # <<>> /\ held' \in Blanks /\ yielded' \in Pieces
         /\ Relayed(said', yielded', held')
         /\ Len(yielded') \in {Len(yielded), Len(yielded) + 1}
<1>. DEFINE t == IF yielded = <<>> THEN LStrip(delta) ELSE delta
            body == RStrip(t)
<1>1. said' \in Seq(Chars) /\ said' # <<>>
  <2>1. delta \in Seq(Chars) /\ delta # <<>>
    BY DeltaFacts
  <2>2. said \o delta \in Seq(Chars) /\ Len(said \o delta) = Len(said) + Len(delta)
    BY <2>1, JoinFacts
  <2>3. Len(said) \in Nat /\ Len(delta) \in Nat /\ Len(delta) # 0
    BY <2>1, SeqFacts
  <2>4. Len(said \o delta) # 0
    BY <2>2, <2>3
  <2>. QED BY <2>2, <2>4, SeqFacts
<1>2. CASE body = <<>>
  <2>. DEFINE next == IF yielded = <<>> THEN held ELSE held \o t
  <2>1. held' = next /\ yielded' = yielded
    BY <1>2 DEF Relay
  <2>. HIDE DEF t
  <2>2. next \in Blanks /\ Relayed(said \o delta, yielded, next)
    BY <1>2, RelayHolds DEF t
  <2>. QED BY <1>1, <2>1, <2>2
<1>3. CASE body # <<>>
  <2>1. yielded' = Append(yielded, held \o body) /\ held' = Tail_(t, body)
    BY <1>3 DEF Relay
  <2>2. /\ held \o body \in Strings /\ Tail_(t, body) \in Blanks
        /\ Relayed(said \o delta, Append(yielded, held \o body), Tail_(t, body))
    BY <1>3, RelayYields
  <2>. HIDE DEF t, body
  <2>3. yielded' \in Pieces /\ Len(yielded') = Len(yielded) + 1
    BY <2>1, <2>2, AppendFacts
  <2>. QED BY <1>1, <2>1, <2>2, <2>3
<1>. QED BY <1>2, <1>3

\* The body's only piece, when the model had nothing to say.
LEMMA WholeStep ==
  ASSUME Types, Unread, Attended, phase \in {"start", "retry", "waiting"},
         NEW piece \in {Extract, ExtractAndNote}, Whole(piece), UNCHANGED <<said, events, held, sent>>
  PROVE  Types' /\ Unread' /\ Flowing' /\ Outcome' /\ Attended' /\ Recorded'
<1>1. /\ phase' = "last" /\ yielded' = <<piece>> /\ said' = said /\ events' = events
      /\ held' = held /\ sent' = sent
  BY DEF Whole
<1>2. said = <<>> /\ held = <<>> /\ yielded = <<>>
  BY DEF Unread
<1>3. sent = 0
  BY <1>2, JoinNothing DEF Types
<1>4. yielded' \in Pieces /\ Len(yielded') = 1
  BY <1>1, NoteFacts, JoinOne
<1>5. Types'
  <2>1. sent' \in 0..Len(yielded')
    BY <1>1, <1>3, <1>4
  <2>2. phase' \in Phases
    BY <1>1 DEF Phases
  <2>. QED BY <1>1, <1>4, <2>1, <2>2 DEF Types
<1>6. Unread' /\ Flowing' /\ Recorded'
  BY <1>1 DEF Unread, Flowing, Recorded
<1>7. Outcome'
  BY <1>1, <1>2 DEF Outcome
<1>8. Attended'
  BY <1>1, <1>3, <1>4 DEF Attended
<1>. QED BY <1>5, <1>6, <1>7, <1>8

LEMMA Starts == StreamInit => IInv
<1>. SUFFICES ASSUME StreamInit PROVE IInv
  OBVIOUS
<1>0. MaxRetries \in Nat /\ SleepCap \in Nat
  BY StreamAssumption
<1>1. Types
  BY JoinNothing DEF StreamInit, Types, Phases, Blanks
<1>2. Budget
  <2>1. 0 * SleepCap = 0 /\ MaxRetries * SleepCap \in Nat
    BY <1>0
  <2>. QED BY <1>0, <2>1 DEF StreamInit, Budget
<1>3. Attended
  BY JoinNothing DEF StreamInit, Attended
<1>. QED BY <1>1, <1>2, <1>3 DEF StreamInit, IInv, Unread, Flowing, Outcome, Over, Recorded

-----------------------------------------------------------------------------
(* Every step keeps the invariant                                           *)

LEMMA BudgetSpent ==
  ASSUME Budget, phase \in {"start", "retry"}, tries' = tries + 1, slept' = slept,
         phase' \notin {"start", "retry"}
  PROVE  Budget'
<1>1. tries \in Nat /\ tries + 1 \in 0..(MaxRetries + 1) /\ SleepCap \in Nat
  BY StreamAssumption DEF Budget
<1>2. tries * SleepCap \in Nat /\ (tries + 1) * SleepCap = tries * SleepCap + SleepCap
  BY <1>1, CapTimes
<1>3. slept <= (tries + 1) * SleepCap
  BY <1>1, <1>2 DEF Budget
<1>. QED BY <1>1, <1>3 DEF Budget

LEMMA BudgetKept ==
  ASSUME Budget, UNCHANGED <<tries, slept>>, phase' \in {"start", "retry"} => phase \in {"start", "retry"}
  PROVE  Budget'
BY DEF Budget

LEMMA RetryKeeps ==
  ASSUME IInv, OpenRetries
  PROVE  IInv'
<1>1. /\ phase \in {"start", "retry"} /\ tries < MaxRetries /\ tries' = tries + 1 /\ phase' = "retry"
      /\ UNCHANGED <<said, events, held, yielded, sent, turn>>
  BY DEF OpenRetries
<1>2. PICK delay \in Delays(tries) : slept' = slept + delay
  BY DEF OpenRetries
<1>3. tries \in Nat /\ slept \in Nat /\ MaxRetries \in Nat /\ SleepCap \in Nat
  BY StreamAssumption DEF IInv, Budget
<1>4. delay \in Nat /\ delay <= SleepCap
  BY <1>3, DelaysAreCapped
<1>5. /\ tries * SleepCap \in Nat /\ (tries + 1) * SleepCap = tries * SleepCap + SleepCap
      /\ (tries + 1) * SleepCap <= MaxRetries * SleepCap
  <2>1. tries + 1 \in Nat /\ tries + 1 <= MaxRetries
    BY <1>1, <1>3
  <2>. QED BY <1>3, <2>1, CapTimes
<1>6. slept + delay \in Nat /\ slept + delay <= (tries + 1) * SleepCap /\ slept + delay <= MaxRetries * SleepCap
  <2>1. slept <= tries * SleepCap
    BY DEF IInv, Budget
  <2>2. MaxRetries * SleepCap \in Nat
    BY <1>3
  <2>3. slept + delay <= tries * SleepCap + SleepCap
    BY <1>3, <1>4, <1>5, <2>1
  <2>. QED BY <1>3, <1>4, <1>5, <2>2, <2>3
<1>7. Budget'
  BY <1>1, <1>2, <1>3, <1>6 DEF Budget
<1>8. Types' /\ Unread' /\ Flowing' /\ Attended' /\ Recorded'
  BY <1>1 DEF IInv, Types, Phases, Unread, Flowing, Attended, Recorded
<1>9. Outcome'
  BY <1>1 DEF IInv, Outcome, Over, Unread
<1>. QED BY <1>7, <1>8, <1>9 DEF IInv

LEMMA DeltaKeeps ==
  ASSUME IInv, NextDelta
  PROVE  IInv'
<1>1. /\ phase \in {"waiting", "streaming"} /\ sent = Len(yielded) /\ events' = events + 1
      /\ phase' = "streaming" /\ UNCHANGED <<tries, slept, sent, turn>>
  BY DEF NextDelta, Reading
<1>2. PICK delta \in Deltas : said' = said \o delta /\ Relay(delta)
  BY DEF NextDelta
<1>3. said \in Seq(Chars) /\ yielded \in Pieces /\ held \in Blanks /\ Len(yielded) \in Nat /\ events \in Nat
  BY JoinedSteps DEF IInv, Types
<1>4. Relayed(said, yielded, held)
  BY <1>1, RelayedNothing DEF IInv, Unread, Flowing
<1>5. /\ said' \in Seq(Chars) /\ said' # <<>> /\ held' \in Blanks /\ yielded' \in Pieces
      /\ Relayed(said', yielded', held')
      /\ Len(yielded') \in {Len(yielded), Len(yielded) + 1}
  BY <1>2, <1>3, <1>4, RelayStep
<1>6. Types'
  <2>1. sent' \in 0..Len(yielded')
    BY <1>1, <1>3, <1>5
  <2>2. phase' \in Phases /\ events' \in Nat
    BY <1>1, <1>3 DEF Phases
  <2>. QED BY <1>5, <2>1, <2>2 DEF Types
<1>7. Outcome'
  <2>1. Join(Kept(yielded')) = Strip(said')
    BY <1>5, RelayedIsStripped
  <2>. QED BY <1>5, <2>1 DEF Outcome, Shown
<1>8. Attended'
  BY <1>1, <1>3, <1>5 DEF Attended
<1>9. Budget'
  BY <1>1, BudgetKept DEF IInv
<1>10. Unread' /\ Flowing' /\ Recorded'
  BY <1>1, <1>5 DEF Unread, Flowing, Recorded
<1>. QED BY <1>6, <1>7, <1>8, <1>9, <1>10 DEF IInv

LEMMA BreakKeeps ==
  ASSUME IInv, StreamBreaks
  PROVE  IInv'
<1>1. /\ phase = "streaming" /\ sent = Len(yielded) /\ phase' = "last"
      /\ UNCHANGED <<tries, slept, said, events, held, sent, turn>>
  BY DEF StreamBreaks
<1>2. PICK note \in Notes : yielded' = Append(yielded, note)
  BY DEF StreamBreaks
<1>3. yielded \in Pieces /\ Len(yielded) \in Nat /\ said # <<>> /\ note \in Strings
  BY <1>1, JoinedSteps, NoteFacts DEF IInv, Types, Flowing
<1>4. yielded' \in Pieces /\ Len(yielded') = Len(yielded) + 1
  BY <1>2, <1>3, AppendFacts
<1>5. Join(Kept(yielded')) = Join(Kept(yielded))
  BY <1>2, <1>3, KeptAppend
<1>6. Types'
  <2>1. sent' \in 0..Len(yielded')
    BY <1>1, <1>3, <1>4
  <2>2. phase' \in Phases
    BY <1>1 DEF Phases
  <2>. QED BY <1>1, <1>4, <2>1, <2>2 DEF IInv, Types
<1>7. Outcome'
  BY <1>1, <1>3, <1>5 DEF IInv, Outcome, Shown
<1>8. Attended'
  BY <1>1, <1>3, <1>4 DEF Attended
<1>9. Budget'
  BY <1>1, BudgetKept DEF IInv
<1>10. Unread' /\ Flowing' /\ Recorded'
  BY <1>1 DEF Unread, Flowing, Recorded
<1>. QED BY <1>6, <1>7, <1>8, <1>9, <1>10 DEF IInv

LEMMA TakeKeeps ==
  ASSUME IInv, ClientTakes
  PROVE  IInv'
<1>1. /\ phase \in {"streaming", "last"} /\ sent < Len(yielded) /\ sent' = sent + 1
      /\ phase' = (IF phase = "last" THEN "ended" ELSE phase)
      /\ UNCHANGED <<tries, slept, said, events, held, yielded, turn>>
  BY DEF ClientTakes
<1>2. yielded \in Pieces /\ Len(yielded) \in Nat /\ sent \in 0..Len(yielded) /\ sent >= Len(yielded) - 1
  BY JoinedSteps DEF IInv, Types, Attended
<1>3. Types'
  <2>1. sent' \in 0..Len(yielded')
    BY <1>1, <1>2
  <2>2. phase' \in Phases
    BY <1>1 DEF Phases
  <2>. QED BY <1>1, <2>1, <2>2 DEF IInv, Types
<1>4. Attended'
  BY <1>1, <1>2 DEF Attended
<1>5. Outcome'
  <2>1. phase' \in Over /\ said = <<>> => phase \in Over
    BY <1>1 DEF IInv, Flowing, Over
  <2>. QED BY <1>1, <2>1 DEF IInv, Outcome, Shown
<1>6. Budget'
  BY <1>1, BudgetKept DEF IInv
<1>7. Unread' /\ Flowing' /\ Recorded'
  BY <1>1 DEF IInv, Unread, Flowing, Recorded
<1>. QED BY <1>3, <1>4, <1>5, <1>6, <1>7 DEF IInv

LEMMA StepKeeps == IInv /\ [StreamNext]_streamVars => IInv'
<1>. SUFFICES ASSUME IInv, [StreamNext]_streamVars PROVE IInv'
  OBVIOUS
<1>1. CASE NothingToSynthesize
  <2>1. /\ phase \in {"start", "retry", "waiting"} /\ Whole(Extract)
        /\ UNCHANGED <<tries, slept, said, events, held, sent, turn>> /\ phase' = "last"
    BY <1>1 DEF NothingToSynthesize, Whole
  <2>. QED BY <2>1, WholeStep, BudgetKept DEF IInv
<1>2. CASE ResolveFails
  <2>1. /\ phase \in {"start", "retry", "waiting"} /\ Whole(ExtractAndNote)
        /\ UNCHANGED <<tries, slept, said, events, held, sent, turn>> /\ phase' = "last"
    BY <1>2 DEF ResolveFails, Whole
  <2>. QED BY <2>1, WholeStep, BudgetKept DEF IInv
<1>3. CASE OpenSucceeds
  <2>1. /\ phase \in {"start", "retry"} /\ phase' = "waiting" /\ tries' = tries + 1 /\ slept' = slept
        /\ UNCHANGED <<said, events, held, yielded, sent, turn>>
    BY <1>3 DEF OpenSucceeds
  <2>2. Budget'
    BY <2>1, BudgetSpent DEF IInv
  <2>3. Types' /\ Unread' /\ Flowing' /\ Attended' /\ Recorded'
    BY <2>1 DEF IInv, Types, Phases, Unread, Flowing, Attended, Recorded
  <2>4. Outcome'
    BY <2>1 DEF IInv, Outcome, Over, Unread
  <2>. QED BY <2>2, <2>3, <2>4 DEF IInv
<1>4. CASE OpenRetries
  BY <1>4, RetryKeeps
<1>5. CASE OpenFails
  <2>1. /\ phase \in {"start", "retry"} /\ Whole(ExtractAndNote) /\ tries' = tries + 1 /\ slept' = slept
        /\ UNCHANGED <<said, events, held, sent, turn>> /\ phase' = "last"
    BY <1>5 DEF OpenFails, Whole
  <2>2. Budget'
    BY <2>1, BudgetSpent DEF IInv
  <2>. QED BY <2>1, <2>2, WholeStep DEF IInv
<1>6. CASE PassOver
  <2>1. /\ phase \in {"waiting", "streaming"} /\ events' = events + 1
        /\ UNCHANGED <<phase, tries, slept, said, held, yielded, sent, turn>>
    BY <1>6 DEF PassOver, Reading
  <2>2. Types'
    BY <2>1 DEF IInv, Types
  <2>3. Budget'
    BY <2>1, BudgetKept DEF IInv
  <2>4. Unread' /\ Flowing' /\ Attended' /\ Recorded'
    BY <2>1 DEF IInv, Unread, Flowing, Attended, Recorded
  <2>5. Outcome'
    BY <2>1 DEF IInv, Outcome, Shown
  <2>. QED BY <2>2, <2>3, <2>4, <2>5 DEF IInv
<1>7. CASE FirstDeltaFails
  <2>1. /\ phase \in {"start", "retry", "waiting"} /\ Whole(ExtractAndNote)
        /\ UNCHANGED <<tries, slept, said, events, held, sent, turn>> /\ phase' = "last"
    BY <1>7 DEF FirstDeltaFails, Whole
  <2>. QED BY <2>1, WholeStep, BudgetKept DEF IInv
<1>8. CASE NextDelta
  BY <1>8, DeltaKeeps
<1>9. CASE StreamEnds
  <2>1. /\ phase = "streaming" /\ sent = Len(yielded) /\ phase' = "ended" /\ said # <<>>
        /\ UNCHANGED <<tries, slept, said, events, held, yielded, sent, turn>>
    BY <1>9 DEF StreamEnds, IInv, Flowing
  <2>2. Types' /\ Unread' /\ Flowing' /\ Recorded'
    BY <2>1 DEF IInv, Types, Phases, Unread, Flowing, Recorded
  <2>3. Budget'
    BY <2>1, BudgetKept DEF IInv
  <2>4. Outcome' /\ Attended'
    BY <2>1 DEF IInv, Outcome, Shown, Attended
  <2>. QED BY <2>2, <2>3, <2>4 DEF IInv
<1>10. CASE StreamBreaks
  BY <1>10, BreakKeeps
<1>11. CASE ClientTakes
  BY <1>11, TakeKeeps
<1>12. CASE ClientLeaves
  <2>1. /\ phase \in {"streaming", "last"} /\ phase' = "abandoned"
        /\ UNCHANGED <<tries, slept, said, events, held, yielded, sent, turn>>
    BY <1>12 DEF ClientLeaves
  <2>2. Types' /\ Unread' /\ Flowing' /\ Recorded'
    BY <2>1 DEF IInv, Types, Phases, Unread, Flowing, Recorded
  <2>3. Budget'
    BY <2>1, BudgetKept DEF IInv
  <2>4. Outcome'
    <3>1. phase \in Over \/ said # <<>>
      BY <2>1 DEF IInv, Flowing, Over
    <3>. QED BY <2>1, <3>1 DEF IInv, Outcome, Shown
  <2>5. Attended'
    BY <2>1 DEF IInv, Attended
  <2>. QED BY <2>2, <2>3, <2>4, <2>5 DEF IInv
<1>13. CASE PersistTurn
  <2>1. /\ phase \in {"ended", "abandoned"} /\ phase' = "stored"
        /\ turn' = (IF Strip(Join(yielded)) = <<>> THEN NoTurn ELSE Join(yielded))
        /\ UNCHANGED <<tries, slept, said, events, held, yielded, sent>>
    BY <1>13 DEF PersistTurn
  <2>2. Types' /\ Unread' /\ Flowing'
    BY <2>1 DEF IInv, Types, Phases, Unread, Flowing
  <2>3. Budget'
    BY <2>1, BudgetKept DEF IInv
  <2>4. Recorded'
    BY <2>1 DEF Recorded
  <2>5. Outcome' /\ Attended'
    BY <2>1 DEF IInv, Outcome, Over, Shown, Attended
  <2>. QED BY <2>2, <2>3, <2>4, <2>5 DEF IInv
<1>14. CASE PersistFails
  <2>1. /\ phase \in {"ended", "abandoned"} /\ phase' = "not stored"
        /\ UNCHANGED <<tries, slept, said, events, held, yielded, sent, turn>>
    BY <1>14 DEF PersistFails
  <2>2. Types' /\ Unread' /\ Flowing' /\ Recorded'
    BY <2>1 DEF IInv, Types, Phases, Unread, Flowing, Recorded
  <2>3. Budget'
    BY <2>1, BudgetKept DEF IInv
  <2>4. Outcome' /\ Attended'
    BY <2>1 DEF IInv, Outcome, Over, Shown, Attended
  <2>. QED BY <2>2, <2>3, <2>4 DEF IInv
<1>15. CASE UNCHANGED streamVars
  BY <1>15 DEF streamVars, IInv, Types, Budget, Unread, Flowing, Outcome, Shown, Attended, Recorded
<1>. QED BY <1>1, <1>2, <1>3, <1>4, <1>5, <1>6, <1>7, <1>8, <1>9, <1>10, <1>11, <1>12, <1>13, <1>14, <1>15
         DEF StreamNext

LEMMA Invariance == StreamSpec => []IInv
BY Starts, StepKeeps, PTL DEF StreamSpec

-----------------------------------------------------------------------------
(* The properties                                                           *)

\* However the provider cuts its text into deltas and however the stream ends,
\* what has been streamed is the stripped form of what has been said: the text
\* the blocking path returns (stream_answer_question, complete_answer).
THEOREM StreamsWhatBlockingReturns == StreamSpec => []StreamIsTheStrippedText
<1>1. IInv => StreamIsTheStrippedText
  <2>. SUFFICES ASSUME IInv PROVE StreamIsTheStrippedText
    OBVIOUS
  <2>1. said # <<>> => Shown = Strip(said)
    BY DEF IInv, Outcome
  <2>2. ASSUME phase \in {"ended", "stored"}, said = <<>> PROVE Shown \in {Extract, ExtractAndNote}
    <3>1. PICK piece \in {Extract, ExtractAndNote} : yielded = <<piece>>
      BY <2>2 DEF IInv, Outcome, Over
    <3>2. Join(Kept(<<piece>>)) = piece
      BY NoteFacts, JoinOne
    <3>. QED BY <3>1, <3>2 DEF Shown
  <2>. QED BY <2>1, <2>2 DEF StreamIsTheStrippedText
<1>. QED BY <1>1, Invariance, PTL

\* The turn stored when the body ends, or when a client that left is collected,
\* is what the client was shown and at most one piece more (persist_chat_turn in
\* the body's finally).
THEOREM TurnsAreWhatWasShown == StreamSpec => []TurnIsWhatWasShown
<1>1. IInv => TurnIsWhatWasShown
  <2>. SUFFICES ASSUME IInv, phase = "stored"
                PROVE  LET shown == Joined(yielded, sent)
                       IN  IF turn = NoTurn THEN Strip(shown) = << >>
                           ELSE IsPrefix(shown, turn) /\ turn = Join(yielded) /\ sent >= Len(yielded) - 1
    BY DEF TurnIsWhatWasShown
  <2>. DEFINE shown == Joined(yielded, sent)
              all == Join(yielded)
  <2>0. PICK n \in Nat : n = Len(yielded)
    BY JoinedSteps DEF IInv, Types
  <2>1. yielded \in Pieces /\ sent \in 0..n /\ sent >= n - 1
    BY <2>0 DEF IInv, Types, Attended
  <2>2. shown \in Strings /\ all \in Strings /\ all = Joined(yielded, n)
    BY <2>0, <2>1, JoinedSteps, JoinTypes
  <2>3. \E more \in Strings : all = shown \o more
    <3>1. CASE sent = n
      <4>1. all = shown
        BY <2>2, <3>1
      <4>2. shown \o <<>> = shown /\ <<>> \in Strings
        BY <2>2, EmptyJoins DEF Strings
      <4>. QED BY <4>1, <4>2
    <3>2. CASE sent # n
      <4>1. n \in 1..n /\ sent = n - 1
        BY <2>1, <3>2
      <4>2. Joined(yielded, n) = Joined(yielded, n - 1) \o yielded[n] /\ yielded[n] \in Strings
        BY <2>0, <2>1, <4>1, JoinedSteps
      <4>. QED BY <2>2, <4>1, <4>2
    <3>. QED BY <3>1, <3>2
  <2>4. turn = IF Strip(all) = <<>> THEN NoTurn ELSE all
    BY DEF IInv, Recorded
  <2>. HIDE DEF shown, all
  <2>5. PICK more \in Strings : all = shown \o more
    BY <2>3
  <2>6. /\ shown \in Seq(Marks) /\ all \in Seq(Marks) /\ more \in Seq(Marks)
        /\ Len(shown) \in Nat /\ Len(more) \in Nat /\ Len(all) = Len(shown) + Len(more)
        /\ \A i \in 1..Len(shown) : all[i] = shown[i]
    BY <2>2, <2>5, JoinFacts, SeqFacts DEF Strings
  <2>7. CASE Strip(all) = <<>>
    <3>1. NonSpace(all) = {}
      BY <2>6, <2>7, StripBlank
    <3>2. \A i \in 1..Len(shown) : i \in 1..Len(all)
      BY <2>6
    <3>3. \A i \in 1..Len(shown) : shown[i] = Space
      BY <2>6, <3>1, <3>2, NonSpaceFacts
    <3>4. NonSpace(shown) = {}
      <4>1. NonSpace(shown) \in SUBSET (1..Len(shown)) /\ \A i \in NonSpace(shown) : shown[i] # Space
        BY <2>6, NonSpaceFacts
      <4>. QED BY <3>3, <4>1
    <3>5. Strip(shown) = <<>>
      BY <2>6, <3>4, StripBlank
    <3>. QED BY <2>4, <2>7, <3>5 DEF shown
  <2>8. CASE Strip(all) # <<>>
    <3>1. turn = all
      BY <2>4, <2>8
    <3>2. IsPrefix(shown, all)
      <4>. DEFINE part == SubSeq(all, 1, Len(shown))
                  same == SubSeq(shown, 1, Len(shown))
      <4>1. /\ 1 \in 1..(Len(all) + 1) /\ Len(shown) \in 0..Len(all)
            /\ 1 \in 1..(Len(shown) + 1) /\ Len(shown) \in 0..Len(shown)
            /\ Len(shown) <= Len(all)
        BY <2>6
      <4>2. /\ part \in Seq(Marks)
            /\ Len(part) = IF 1 <= Len(shown) THEN Len(shown) - 1 + 1 ELSE 0
            /\ \A i \in 1..(Len(shown) - 1 + 1) : part[i] = all[1 + i - 1]
        BY <2>6, <4>1, PartFacts
      <4>3. /\ same \in Seq(Marks)
            /\ Len(same) = IF 1 <= Len(shown) THEN Len(shown) - 1 + 1 ELSE 0
            /\ \A i \in 1..(Len(shown) - 1 + 1) : same[i] = shown[1 + i - 1]
        BY <2>6, <4>1, PartFacts
      <4>. HIDE DEF part, same
      <4>4. /\ Len(shown) - 1 + 1 = Len(shown)
            /\ \A i \in 1..Len(shown) : 1 + i - 1 = i
        BY <2>6
      <4>5. Len(part) = Len(shown) /\ Len(same) = Len(shown)
        BY <2>6, <4>2, <4>3
      <4>6. \A i \in 1..Len(part) : part[i] = same[i]
        BY <2>6, <4>2, <4>3, <4>4, <4>5
      <4>7. part = same
        BY <4>2, <4>3, <4>5, <4>6, SeqEqual
      <4>. QED BY <4>1, <4>7 DEF IsPrefix, part, same
    <3>3. turn # NoTurn
      BY <2>2, <3>1, NoTurnIsNoText
    <3>. QED BY <2>0, <2>1, <3>1, <3>2, <3>3 DEF shown, all
  <2>. QED BY <2>7, <2>8
<1>. QED BY <1>1, Invariance, PTL

\* Requests and waits are bounded whatever the provider dictates, and no request
\* follows one whose response was read (_open_with_retry, _retry_delay).
THEOREM ProviderIsAskedInBounds == StreamSpec => RetriesAreBounded
<1>1. IInv => tries <= MaxRetries + 1 /\ slept >= 0 /\ slept <= MaxRetries * SleepCap
  <2>1. MaxRetries \in Nat /\ SleepCap \in Nat
    BY StreamAssumption
  <2>. QED BY <2>1 DEF IInv, Budget
<1>2. IInv /\ [StreamNext]_streamVars => [tries' # tries => said = << >> /\ events = 0 /\ yielded = << >>]_streamVars
  <2>. SUFFICES ASSUME IInv, StreamNext, tries' # tries PROVE said = << >> /\ events = 0 /\ yielded = << >>
    BY DEF streamVars
  <2>1. phase \in {"start", "retry"}
    BY DEF StreamNext, NothingToSynthesize, ResolveFails, OpenSucceeds, OpenRetries, OpenFails, PassOver,
           FirstDeltaFails, NextDelta, StreamEnds, StreamBreaks, ClientTakes, ClientLeaves, PersistTurn, PersistFails
  <2>. QED BY <2>1 DEF IInv, Unread
<1>. QED BY <1>1, <1>2, Invariance, PTL DEF StreamSpec, RetriesAreBounded
=============================================================================
