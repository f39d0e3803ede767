--------------------------- MODULE ChunkingProofs ---------------------------
(***************************************************************************)
(* Theorem about Chunking: for every text, size, overlap and placement of  *)
(* pages or paragraphs, the passages made cover the text, can be located,  *)
(* and begin one after the other. The regions a loop goes through, pages   *)
(* or units, are laid out from one end of the text to the other (Layout);  *)
(* what is before the place a loop has reached (Frontier) is covered.      *)
(***************************************************************************)
EXTENDS Chunking, FiniteInduction, SequenceTheorems

\* What does not change while a text is split.
StaticOK ==
  /\ text \in Texts /\ config \in Configs /\ paged \in BOOLEAN
  /\ breaks \in SUBSET {i \in 1 .. (Len(text) - 1) : text[i] = Blank}

\* The regions of the loop, where the next one begins, and where the loop is.
Regs == IF Effective = "page" THEN Pages ELSE Units
BeginOf(j) == IF j \in 1 .. Len(Regs) THEN Regs[j][1] ELSE Size
Ahead == IF Effective # "character" THEN BeginOf(at) ELSE Size
Frontier == IF cut = NoCut THEN Ahead ELSE cut.next

\* Regions follow one another from one end of the text to the other and begin with
\* something solid; nothing solid is between them.
Layout(R) ==
  /\ Len(R) \in Nat \ {0} /\ DOMAIN R = 1 .. Len(R)
  /\ R[1][1] = 0 /\ R[Len(R)][2] = Size
  /\ \A k \in 1 .. Len(R) : /\ R[k][1] \in Int /\ R[k][2] \in Int
                            /\ 0 <= R[k][1] /\ R[k][1] < R[k][2] /\ R[k][2] <= Size
                            /\ Char(R[k][1]) # Blank
  /\ \A k \in 1 .. (Len(R) - 1) : R[k][2] <= R[k + 1][1] /\ Solid(R[k][2], R[k + 1][1]) = {}

LEMMA AFunctionIsASequence ==
  ASSUME NEW n \in Nat, NEW S, NEW f \in [1 .. n -> S]
  PROVE  f \in Seq(S) /\ Len(f) = n /\ DOMAIN f = 1 .. n
  OBVIOUS

LEMMA TextFacts ==
  ASSUME text \in Texts
  PROVE  /\ Size \in Nat /\ 1 <= Size
         /\ Char(0) # Blank /\ Char(Size - 1) # Blank
         /\ \A i \in 0 .. (Size - 2) : Char(i) # Blank \/ Char(i + 1) # Blank
<1>1. /\ Len(text) \in Nat \ {0} /\ text[1] # Blank /\ text[Len(text)] # Blank
      /\ \A i \in 1 .. (Len(text) - 1) : text[i] # Blank \/ text[i + 1] # Blank
  BY TextsAssumption
<1>2. Size \in Nat /\ 1 <= Size /\ 0 + 1 = 1 /\ Size - 1 + 1 = Len(text)
  <2>. DEFINE n == Len(text)
  <2>1. n \in Nat \ {0}
    BY <1>1
  <2>. HIDE DEF n
  <2>2. n \in Nat /\ 1 <= n /\ 0 + 1 = 1 /\ n - 1 + 1 = n
    BY <2>1
  <2>. QED BY <2>2 DEF Size, n
<1>3. ASSUME NEW i \in 0 .. (Size - 2) PROVE Char(i) # Blank \/ Char(i + 1) # Blank
  <2>1. i + 1 \in 1 .. (Len(text) - 1)
    BY <1>2 DEF Size
  <2>. QED BY <1>1, <2>1 DEF Char
<1>. QED BY <1>1, <1>2, <1>3 DEF Char

LEMMA ConfigFacts ==
  ASSUME config \in Configs
  PROVE  /\ config.size \in Int /\ config.overlap \in Int
         /\ 3 <= config.size /\ 0 <= config.overlap /\ 2 * config.overlap <= config.size
<1>1. PICK s \in Strategies, n \in RawSizes, o \in RawOverlaps : config = NormalizedConfig(s, n, o)
  BY DEF Configs
<1>. DEFINE fit == Clamp(n, MinSize, MaxSize)
            back == Clamp(o, 0, fit \div 2)
<1>2. n \in Int /\ o \in Int /\ MinSize \in Int /\ MaxSize \in Int /\ 3 <= MinSize /\ MinSize <= MaxSize
  BY ChunkingAssumption
<1>3. fit \in Int /\ 3 <= fit
  BY <1>2 DEF Clamp
<1>4. config.size = fit /\ config.overlap = back
  BY <1>1 DEF NormalizedConfig
<1>. HIDE DEF fit
<1>5. fit \div 2 \in Int /\ 0 <= fit \div 2 /\ 2 * (fit \div 2) <= fit
  BY <1>3
<1>6. back \in Int /\ 0 <= back /\ back <= fit \div 2
  BY <1>2, <1>5 DEF Clamp
<1>. HIDE DEF back
<1>7. 2 * back <= fit
  BY <1>3, <1>5, <1>6
<1>. QED BY <1>3, <1>4, <1>6, <1>7

LEMMA SolidIs ==
  ASSUME NEW a \in Int, NEW b \in Int
  PROVE  \A i : i \in Solid(a, b) <=> i \in Int /\ a <= i /\ i < b /\ Char(i) # Blank
<1>1. \A i : i \in a .. (b - 1) <=> i \in Int /\ a <= i /\ i < b
  OBVIOUS
<1>. QED BY <1>1 DEF Solid

LEMMA StrippedIs ==
  ASSUME NEW a \in Nat, NEW b \in Nat, Solid(a, b) # {}
  PROVE  /\ Stripped(a, b)[1] \in Solid(a, b) /\ Stripped(a, b)[2] - 1 \in Solid(a, b)
         /\ Stripped(a, b) \in Int \X Int
         /\ \A i \in Solid(a, b) : Stripped(a, b)[1] <= i /\ i < Stripped(a, b)[2]
<1>. DEFINE S == Solid(a, b)
            low == Min(S)
            high == Max(S)
<1>1. S \in SUBSET Nat /\ S \in SUBSET (0 .. b)
  <2>1. \A i \in S : i \in Int /\ a <= i /\ i < b
    BY SolidIs
  <2>. HIDE DEF S
  <2>. QED BY <2>1
<1>2. low \in S /\ \A i \in S : low <= i
  BY <1>1, LeastIsMin
<1>3. high \in S /\ \A i \in S : i <= high
  BY <1>1, GreatestNumber
<1>4. Stripped(a, b) = <<low, high + 1>>
  BY DEF Stripped
<1>. HIDE DEF low, high, S
<1>5. low \in Int /\ high \in Int /\ high + 1 - 1 = high /\ high + 1 \in Int
  BY <1>1, <1>2, <1>3
<1>6. \A i \in S : low <= i /\ i < high + 1
  BY <1>1, <1>2, <1>3, <1>5
<1>. QED BY <1>2, <1>3, <1>4, <1>5, <1>6 DEF S

-----------------------------------------------------------------------------
\* Pages and paragraphs.

LEMMA AtABreak ==
  ASSUME StaticOK, NEW i \in breaks
  PROVE  /\ i \in Int /\ 1 <= i /\ i <= Size - 1
         /\ Char(i) # Blank /\ Char(i - 1) = Blank
<1>1. i \in 1 .. (Len(text) - 1) /\ text[i] = Blank
  BY DEF StaticOK
<1>2. Size \in Nat /\ 1 <= Size /\ Len(text) = Size
  BY TextFacts DEF StaticOK, Size
<1>3. i \in Int /\ 1 <= i /\ i <= Size - 1 /\ i - 1 + 1 = i /\ i - 1 \in 0 .. (Size - 2)
  BY <1>1, <1>2
<1>4. Char(i - 1) = Blank
  BY <1>1, <1>3 DEF Char
<1>5. Char(i - 1) # Blank \/ Char(i - 1 + 1) # Blank
  BY <1>3, TextFacts DEF StaticOK
<1>. QED BY <1>3, <1>4, <1>5

LEMMA StartsAre ==
  ASSUME StaticOK
  PROVE  /\ Len(Starts) \in Nat /\ 1 <= Len(Starts) /\ DOMAIN Starts = 1 .. Len(Starts)
         /\ Starts[1] = 0
         /\ \A k \in 1 .. Len(Starts) : /\ Starts[k] \in Int /\ 0 <= Starts[k] /\ Starts[k] < Size
                                        /\ Char(Starts[k]) # Blank
         /\ \A k \in 1 .. (Len(Starts) - 1) : /\ Starts[k] < Starts[k + 1] - 1
                                              /\ Char(Starts[k + 1] - 1) = Blank
<1>. DEFINE S == {0} \cup breaks
            n == Cardinality(S)
            order == Starts
<1>1. Size \in Nat /\ 1 <= Size /\ Char(0) # Blank
  BY TextFacts DEF StaticOK
<1>2. ASSUME NEW x \in S PROVE x \in Int /\ 0 <= x /\ x < Size /\ Char(x) # Blank
  BY <1>1, AtABreak
<1>3. S \in SUBSET (0 .. Size) /\ S \in SUBSET Int
  <2>. HIDE DEF S
  <2>1. \A x \in S : x \in 0 .. Size /\ x \in Int
    BY <1>1, <1>2
  <2>. QED BY <2>1
<1>4. IsFiniteSet(S)
  <2>1. IsFiniteSet(0 .. Size)
    BY <1>1, FS_Interval
  <2>. QED BY <1>3, <2>1, FS_Subset
<1>5. 0 \in S
  OBVIOUS
<1>6. \A x \in S : x # 0 => x \in breaks
  OBVIOUS
<1>7. order = Ascending(S)
  BY DEF Starts
<1>. HIDE DEF S, order
<1>8. /\ n \in Nat /\ order \in [1 .. n -> S]
      /\ \A x \in S : \E k \in 1 .. n : order[k] = x
      /\ \A i, j \in 1 .. n : i < j => order[i] < order[j]
  BY <1>3, <1>4, <1>7, AscendingRises
<1>9. PICK zero \in 1 .. n : order[zero] = 0
  BY <1>5, <1>8
<1>. HIDE DEF n
<1>10. 1 \in 1 .. n /\ 1 <= n
  BY <1>8, <1>9
<1>11. order[1] = 0
  <2>1. order[1] \in S
    BY <1>8, <1>10
  <2>2. ~ (order[1] < 0)
    BY <1>2, <2>1
  <2>3. ~ (1 < zero)
    BY <1>8, <1>9, <1>10, <2>2
  <2>4. zero = 1
    BY <1>8, <1>9, <2>3
  <2>. QED BY <1>9, <2>4
<1>12. order \in Seq(S) /\ Len(order) = n /\ DOMAIN order = 1 .. n
  BY <1>8, AFunctionIsASequence
<1>13. ASSUME NEW k \in 1 .. (n - 1)
       PROVE  order[k] < order[k + 1] - 1 /\ Char(order[k + 1] - 1) = Blank
  <2>1. k \in 1 .. n /\ k + 1 \in 1 .. n /\ 1 < k + 1 /\ k < k + 1
    BY <1>8
  <2>2. order[k] \in S /\ order[k + 1] \in S
    BY <1>8, <2>1
  <2>3. order[k] < order[k + 1] /\ 0 < order[k + 1]
    BY <1>8, <1>10, <1>11, <2>1
  <2>4. order[k + 1] \in breaks
    BY <1>2, <1>6, <2>2, <2>3
  <2>5. Char(order[k + 1] - 1) = Blank
    BY <2>4, AtABreak
  <2>6. Char(order[k]) # Blank
    BY <1>2, <2>2
  <2>7. order[k] # order[k + 1] - 1
    BY <2>5, <2>6
  <2>8. order[k] \in Int /\ order[k + 1] \in Int
    BY <1>2, <2>2
  <2>. QED BY <2>3, <2>5, <2>7, <2>8
<1>14. \A k \in 1 .. n : order[k] \in Int /\ 0 <= order[k] /\ order[k] < Size /\ Char(order[k]) # Blank
  BY <1>2, <1>8
<1>. QED BY <1>8, <1>10, <1>11, <1>12, <1>13, <1>14 DEF order

LEMMA RegionsAreLaidOut ==
  ASSUME StaticOK, NEW gap \in {0, 1}
  PROVE  Layout(Regions(gap))
<1>. DEFINE n == Len(Starts)
            R == Regions(gap)
            start == Starts
<1>1. /\ n \in Nat /\ 1 <= n /\ DOMAIN start = 1 .. n /\ start[1] = 0
      /\ \A k \in 1 .. n : start[k] \in Int /\ 0 <= start[k] /\ start[k] < Size /\ Char(start[k]) # Blank
      /\ \A k \in 1 .. (n - 1) : start[k] < start[k + 1] - 1 /\ Char(start[k + 1] - 1) = Blank
  BY StartsAre
<1>2. R = [k \in 1 .. n |-> <<start[k], IF k = n THEN Size ELSE start[k + 1] - gap>>]
  BY <1>1 DEF Regions
<1>3. Size \in Int
  BY TextFacts DEF StaticOK
<1>. HIDE DEF n, start, R
<1>4. ASSUME NEW k \in 1 .. n
      PROVE  R[k] \in Int \X Int /\ R[k][1] = start[k] /\ R[k][2] = IF k = n THEN Size ELSE start[k + 1] - gap
  <2>1. start[k] \in Int /\ (k # n => k \in 1 .. (n - 1) /\ k + 1 \in 1 .. n)
    BY <1>1
  <2>2. (IF k = n THEN Size ELSE start[k + 1] - gap) \in Int
    BY <1>1, <1>3, <2>1
  <2>. QED BY <1>2, <2>1, <2>2
<1>5. R \in [1 .. n -> Int \X Int]
  BY <1>2, <1>4
<1>6. R \in Seq(Int \X Int) /\ Len(R) = n /\ DOMAIN R = 1 .. n
  BY <1>1, <1>5, AFunctionIsASequence
<1>7. 1 \in 1 .. n /\ n \in 1 .. n
  BY <1>1
<1>8. R[1][1] = 0 /\ R[n][2] = Size
  BY <1>1, <1>4, <1>7
<1>9. ASSUME NEW k \in 1 .. n
      PROVE  /\ R[k][1] \in Int /\ R[k][2] \in Int
             /\ 0 <= R[k][1] /\ R[k][1] < R[k][2] /\ R[k][2] <= Size /\ Char(R[k][1]) # Blank
  <2>1. start[k] \in Int /\ 0 <= start[k] /\ start[k] < Size /\ Char(start[k]) # Blank
    BY <1>1
  <2>2. CASE k = n
    BY <1>3, <1>4, <2>1, <2>2
  <2>3. CASE k # n
    <3>1. k \in 1 .. (n - 1) /\ k + 1 \in 1 .. n
      BY <1>1, <2>3
    <3>2. start[k] < start[k + 1] - 1 /\ start[k + 1] \in Int /\ start[k + 1] < Size
      BY <1>1, <3>1
    <3>3. start[k] < start[k + 1] - gap /\ start[k + 1] - gap <= Size /\ start[k + 1] - gap \in Int
      BY <1>3, <2>1, <3>2
    <3>. QED BY <1>4, <2>1, <2>3, <3>3
  <2>. QED BY <2>2, <2>3
<1>10. ASSUME NEW k \in 1 .. (n - 1)
       PROVE  R[k][2] <= R[k + 1][1] /\ Solid(R[k][2], R[k + 1][1]) = {}
  <2>1. k \in 1 .. n /\ k + 1 \in 1 .. n /\ k # n
    BY <1>1
  <2>2. R[k][2] = start[k + 1] - gap /\ R[k + 1][1] = start[k + 1] /\ start[k + 1] \in Int
    BY <1>1, <1>4, <2>1
  <2>3. Char(start[k + 1] - 1) = Blank
    BY <1>1
  <2>4. start[k + 1] - gap \in Int /\ start[k + 1] - gap <= start[k + 1]
    BY <2>2
  <2>5. \A i \in Int : start[k + 1] - gap <= i /\ i < start[k + 1] => i = start[k + 1] - 1
    BY <2>2
  <2>6. \A i \in Solid(start[k + 1] - gap, start[k + 1]) : FALSE
    BY <2>2, <2>3, <2>4, <2>5, SolidIs
  <2>. QED BY <2>2, <2>4, <2>6
<1>11. Len(R) \in Nat \ {0}
  BY <1>1, <1>6
<1>12. Layout(R)
  BY <1>6, <1>8, <1>9, <1>10, <1>11 DEF Layout
<1>. QED BY <1>12 DEF R

\* Sentences: after a unit comes one space, where the next one begins.
LEMMA SentencesAreLaidOut ==
  ASSUME StaticOK
  PROVE  Layout(SentenceUnits)
<1>. DEFINE ends == {i \in 1 .. Size : Char(i - 1) = "." /\ (i = Size \/ Char(i) = Blank)}
            S == ends \cup {Size}
            stop == Ascending(S)
            n == Cardinality(S)
            R == SentenceUnits
<1>1. /\ Size \in Nat /\ 1 <= Size /\ Char(0) # Blank /\ Char(Size - 1) # Blank
      /\ \A i \in 0 .. (Size - 2) : Char(i) # Blank \/ Char(i + 1) # Blank
  BY TextFacts DEF StaticOK
<1>2. "." # Blank
  BY DEF Blank
<1>3. ASSUME NEW x \in S
      PROVE  x \in Int /\ 1 <= x /\ x <= Size /\ Char(x - 1) # Blank /\ (x # Size => Char(x) = Blank)
  BY <1>1, <1>2, <1>3
<1>4. Size \in S
  OBVIOUS
<1>5. R = [k \in DOMAIN stop |-> <<IF k = 1 THEN 0 ELSE stop[k - 1] + 1, stop[k]>>]
  BY DEF SentenceUnits
<1>. HIDE DEF S, R
<1>6. S \in SUBSET (0 .. Size) /\ S \in SUBSET Int
  <2>1. \A x \in S : x \in 0 .. Size /\ x \in Int
    BY <1>1, <1>3
  <2>. QED BY <2>1
<1>7. IsFiniteSet(S)
  <2>1. IsFiniteSet(0 .. Size)
    BY <1>1, FS_Interval
  <2>. QED BY <1>6, <2>1, FS_Subset
<1>8. /\ n \in Nat /\ stop \in [1 .. n -> S]
      /\ \A x \in S : \E k \in 1 .. n : stop[k] = x
      /\ \A i, j \in 1 .. n : i < j => stop[i] < stop[j]
  BY <1>6, <1>7, AscendingRises
<1>. HIDE DEF stop, n
<1>9. PICK last \in 1 .. n : stop[last] = Size
  BY <1>4, <1>8
<1>10. 1 \in 1 .. n /\ n \in 1 .. n /\ 1 <= n
  BY <1>8, <1>9
<1>11. stop[n] = Size
  <2>1. stop[n] \in S
    BY <1>8, <1>10
  <2>2. ~ (Size < stop[n])
    BY <1>1, <1>3, <2>1
  <2>3. ~ (last < n)
    BY <1>8, <1>9, <1>10, <2>2
  <2>4. last = n
    BY <1>8, <1>9, <2>3
  <2>. QED BY <1>9, <2>4
<1>12. ASSUME NEW k \in 1 .. n
       PROVE  stop[k] \in Int /\ 1 <= stop[k] /\ stop[k] <= Size /\ Char(stop[k] - 1) # Blank
  <2>1. stop[k] \in S
    BY <1>8
  <2>. QED BY <1>3, <2>1
<1>13. ASSUME NEW k \in 1 .. (n - 1)
       PROVE  /\ stop[k] + 1 < stop[k + 1] /\ stop[k] < Size - 1
              /\ Char(stop[k]) = Blank /\ Char(stop[k] + 1) # Blank
  <2>1. k \in 1 .. n /\ k + 1 \in 1 .. n /\ k < k + 1
    BY <1>8
  <2>2. stop[k] \in S /\ stop[k] < stop[k + 1] /\ stop[k + 1] \in S
    BY <1>8, <2>1
  <2>3. stop[k] \in Int /\ 1 <= stop[k] /\ stop[k + 1] \in Int /\ stop[k + 1] <= Size /\ Char(stop[k + 1] - 1) # Blank
    BY <1>12, <2>1
  <2>4. stop[k] # Size
    BY <1>1, <2>2, <2>3
  <2>5. Char(stop[k]) = Blank
    BY <1>3, <2>2, <2>4
  <2>6. stop[k] # Size - 1 /\ stop[k] # stop[k + 1] - 1
    BY <1>1, <2>3, <2>5
  <2>7. stop[k] \in 0 .. (Size - 2)
    BY <1>1, <2>2, <2>3, <2>6
  <2>8. Char(stop[k] + 1) # Blank
    BY <1>1, <2>5, <2>7
  <2>9. stop[k] + 1 < stop[k + 1] /\ stop[k] < Size - 1
    BY <1>1, <2>2, <2>3, <2>6
  <2>. QED BY <2>5, <2>8, <2>9
<1>14. ASSUME NEW k \in 1 .. n
       PROVE  /\ R[k] = <<IF k = 1 THEN 0 ELSE stop[k - 1] + 1, stop[k]>>
              /\ R[k] \in Int \X Int
              /\ 0 <= R[k][1] /\ R[k][1] < R[k][2] /\ R[k][2] <= Size /\ Char(R[k][1]) # Blank
  <2>1. DOMAIN stop = 1 .. n
    BY <1>8
  <2>2. R[k] = <<IF k = 1 THEN 0 ELSE stop[k - 1] + 1, stop[k]>>
    BY <1>5, <2>1
  <2>3. stop[k] \in Int /\ 1 <= stop[k] /\ stop[k] <= Size
    BY <1>12
  <2>4. CASE k = 1
    BY <1>1, <2>2, <2>3, <2>4
  <2>5. CASE k # 1
    <3>1. k - 1 \in 1 .. (n - 1) /\ k - 1 \in 1 .. n /\ k - 1 + 1 = k
      BY <1>8, <2>5
    <3>2. /\ stop[k - 1] + 1 < stop[k] /\ Char(stop[k - 1] + 1) # Blank
          /\ stop[k - 1] \in Int /\ 1 <= stop[k - 1]
      <4>. DEFINE j == k - 1
      <4>1. j \in 1 .. (n - 1) /\ j \in 1 .. n /\ j + 1 = k
        BY <3>1
      <4>. HIDE DEF j
      <4>2. stop[j] + 1 < stop[k] /\ Char(stop[j] + 1) # Blank /\ stop[j] \in Int /\ 1 <= stop[j]
        BY <1>12, <1>13, <4>1
      <4>. QED BY <4>2 DEF j
    <3>3. R[k][1] = stop[k - 1] + 1 /\ R[k][2] = stop[k]
      BY <2>2, <2>5
    <3>4. 0 <= stop[k - 1] + 1 /\ stop[k - 1] + 1 \in Int
      BY <3>2
    <3>5. R[k] \in Int \X Int
      BY <2>2, <2>3, <2>5, <3>4
    <3>. QED BY <2>2, <2>3, <3>2, <3>3, <3>4, <3>5
  <2>. QED BY <2>4, <2>5
<1>15. R \in [1 .. n -> Int \X Int]
  <2>1. DOMAIN stop = 1 .. n
    BY <1>8
  <2>. QED BY <1>5, <1>14, <2>1
<1>16. R \in Seq(Int \X Int) /\ Len(R) = n /\ DOMAIN R = 1 .. n
  BY <1>8, <1>15, AFunctionIsASequence
<1>17. R[1][1] = 0 /\ R[n][2] = Size
  BY <1>10, <1>11, <1>14
<1>18. ASSUME NEW k \in 1 .. (n - 1)
       PROVE  R[k][2] <= R[k + 1][1] /\ Solid(R[k][2], R[k + 1][1]) = {}
  <2>1. k \in 1 .. n /\ k + 1 \in 1 .. n /\ k + 1 # 1 /\ k + 1 - 1 = k
    BY <1>8
  <2>2. R[k][2] = stop[k]
    BY <1>14, <2>1
  <2>3. R[k + 1][1] = stop[k] + 1
    BY <1>14, <2>1
  <2>4. stop[k] \in Int /\ Char(stop[k]) = Blank
    BY <1>12, <1>13, <2>1
  <2>5. stop[k] + 1 \in Int /\ stop[k] <= stop[k] + 1
        /\ \A i \in Int : stop[k] <= i /\ i < stop[k] + 1 => i = stop[k]
    BY <2>4
  <2>6. \A i \in Solid(stop[k], stop[k] + 1) : FALSE
    BY <2>4, <2>5, SolidIs
  <2>. QED BY <2>2, <2>3, <2>5, <2>6
<1>19. \A k \in 1 .. n : /\ R[k][1] \in Int /\ R[k][2] \in Int
                          /\ 0 <= R[k][1] /\ R[k][1] < R[k][2] /\ R[k][2] <= Size /\ Char(R[k][1]) # Blank
  BY <1>14
<1>20. Len(R) \in Nat \ {0}
  BY <1>8, <1>10, <1>16
<1>21. Layout(R)
  BY <1>16, <1>17, <1>18, <1>19, <1>20 DEF Layout
<1>. QED BY <1>21 DEF R

LEMMA RegsAreLaidOut ==
  ASSUME StaticOK
  PROVE  Effective # "character" => Layout(Regs)
<1>1. Layout(Regions(0)) /\ Layout(Regions(1)) /\ Layout(SentenceUnits)
  BY RegionsAreLaidOut, SentencesAreLaidOut
<1>2. Effective = "page" => Regs = Regions(1)
  BY DEF Effective, Regs, Pages
<1>3. Effective = "paragraph" => Regs = Regions(0)
  <2>1. Effective = "paragraph" => ParagraphUnits # << >>
    BY DEF Effective
  <2>. QED BY <2>1 DEF ParagraphUnits, Regs, Units
<1>4. Effective \notin {"page", "paragraph"} => Regs = SentenceUnits
  BY DEF Regs, Units
<1>. QED BY <1>1, <1>2, <1>3, <1>4

\* A region ends before any later one begins.
LEMMA RegionsAreApart ==
  ASSUME NEW R, Layout(R), NEW i \in 1 .. Len(R), NEW j \in 1 .. Len(R), i < j
  PROVE  R[i][2] <= R[j][1] /\ R[i][1] < R[j][1]
<1>. DEFINE n == Len(R)
            T == {k \in 0 .. n : i < k => R[i][2] <= R[k][1]}
<1>1. n \in Nat /\ n # 0 /\ i \in 1 .. n
  BY DEF Layout
<1>2. \A k \in 1 .. n : R[k][1] \in Int /\ R[k][2] \in Int /\ R[k][1] < R[k][2]
  BY DEF Layout
<1>3. \A k \in 1 .. (n - 1) : R[k][2] <= R[k + 1][1]
  BY DEF Layout
<1>. HIDE DEF n
<1>4. 0 \in T
  BY <1>1
<1>5. ASSUME NEW k \in 1 .. n, k - 1 \in T PROVE k \in T
  <2>. SUFFICES ASSUME i < k PROVE R[i][2] <= R[k][1]
    OBVIOUS
  <2>. DEFINE m == k - 1
  <2>1. m \in 1 .. (n - 1) /\ m \in 1 .. n /\ m + 1 = k /\ (m = i \/ i < m)
    BY <1>1
  <2>. HIDE DEF m
  <2>5. R[m][2] <= R[m + 1][1]
    BY <1>3, <2>1
  <2>6. R[k][1] \in Int
    BY <1>2
  <2>7. R[i][2] \in Int
    BY <1>1, <1>2
  <2>2. R[m][2] <= R[k][1] /\ R[k][1] \in Int /\ R[i][2] \in Int
    BY <2>1, <2>5, <2>6, <2>7
  <2>3. CASE m = i
    BY <2>2, <2>3
  <2>4. CASE i < m
    <3>1. R[i][2] <= R[m][1]
      BY <1>5, <2>4 DEF m
    <3>2. R[m][1] < R[m][2] /\ R[m][1] \in Int /\ R[m][2] \in Int
      BY <1>2, <2>1
    <3>. QED BY <2>2, <3>1, <3>2
  <2>. QED BY <2>1, <2>3, <2>4
<1>. HIDE DEF T
<1>6. \A k \in 0 .. n : k \in T
  BY <1>1, <1>4, <1>5, Climbing
<1>7. R[i][2] <= R[j][1]
  <2>1. j \in T
    BY <1>1, <1>6 DEF n
  <2>. QED BY <2>1 DEF T
<1>8. R[i][1] < R[j][1]
  <2>1. R[i][1] \in Int /\ R[i][2] \in Int /\ R[j][1] \in Int /\ R[i][1] < R[i][2]
    BY <1>2 DEF n
  <2>. QED BY <1>7, <2>1
<1>. QED BY <1>7, <1>8

-----------------------------------------------------------------------------
\* The spans made so far. A page's span lies between the ends of one page.
OnOnePage(a, b) ==
  Effective = "page" => \E k \in 1 .. Len(Pages) : Pages[k][1] <= a /\ b <= Pages[k][2]
SpanOK(span) ==
  /\ 0 <= span[1] /\ span[1] < span[2] /\ span[2] <= Size
  /\ Char(span[1]) # Blank /\ Char(span[2] - 1) # Blank
  /\ span[2] - span[1] <= config.size
  /\ OnOnePage(span[1], span[2])
SpansOK(made) ==
  /\ made \in Seq(Int \X Int)
  /\ \A k \in 1 .. Len(made) : SpanOK(made[k])
  /\ \A k \in 2 .. Len(made) : made[k - 1][1] < made[k][1]
Within(made, i) == \E k \in 1 .. Len(made) : made[k][1] <= i /\ i < made[k][2]
CoveredTo(made, end) == \A i \in Solid(0, Size) : i < end => Within(made, i)
BeginsBefore(made, place) == made # << >> => made[Len(made)][1] < place

\* A span more, of a stretch that is where the covered part ends.
LEMMA OneSpanMore ==
  ASSUME StaticOK, SpansOK(spans), NEW a \in Nat, NEW b \in Nat, b <= Size,
         Solid(a, b) # {}, Stripped(a, b)[2] - Stripped(a, b)[1] <= config.size,
         OnOnePage(a, b), CoveredTo(spans, a), BeginsBefore(spans, a)
  PROVE  /\ SpansOK(WithSpan(a, b)) /\ CoveredTo(WithSpan(a, b), b)
         /\ \A i \in Solid(a, b) : BeginsBefore(WithSpan(a, b), i + 1)
<1>. DEFINE span == Stripped(a, b)
            made == WithSpan(a, b)
            n == Len(spans)
<1>1. made = Append(spans, span)
  BY DEF WithSpan
<1>2. /\ span \in Int \X Int /\ span[1] \in Solid(a, b) /\ span[2] - 1 \in Solid(a, b)
      /\ \A i \in Solid(a, b) : span[1] <= i /\ i < span[2]
  BY StrippedIs
<1>. HIDE DEF span, made
<1>3. /\ span[1] \in Int /\ a <= span[1] /\ span[1] < b /\ Char(span[1]) # Blank
      /\ span[2] \in Int /\ span[2] <= b /\ Char(span[2] - 1) # Blank
  <2>1. span[1] \in Int /\ span[2] \in Int
    BY <1>2
  <2>2. /\ a <= span[1] /\ span[1] < b /\ Char(span[1]) # Blank
        /\ span[2] - 1 < b /\ Char(span[2] - 1) # Blank
    BY <1>2, SolidIs
  <2>. QED BY <2>1, <2>2
<1>4. span[1] < span[2]
  BY <1>2
<1>5. SpanOK(span)
  <2>1. OnOnePage(span[1], span[2])
    <3>. SUFFICES ASSUME Effective = "page"
                  PROVE  \E k \in 1 .. Len(Pages) : Pages[k][1] <= span[1] /\ span[2] <= Pages[k][2]
      BY DEF OnOnePage
    <3>1. PICK k \in 1 .. Len(Pages) : Pages[k][1] <= a /\ b <= Pages[k][2]
      BY DEF OnOnePage
    <3>2. Pages[k][1] \in Int /\ Pages[k][2] \in Int
      <4>1. Layout(Pages)
        BY RegsAreLaidOut DEF Regs
      <4>. QED BY <4>1 DEF Layout
    <3>3. Pages[k][1] <= span[1] /\ span[2] <= Pages[k][2]
      BY <1>3, <3>1, <3>2
    <3>. QED BY <3>3
  <2>2. Size \in Int
    BY TextFacts DEF StaticOK
  <2>3. 0 <= span[1] /\ span[2] <= Size
    BY <1>3, <2>2
  <2>4. span[2] - span[1] <= config.size
    BY DEF span
  <2>. QED BY <1>3, <1>4, <2>1, <2>3, <2>4 DEF SpanOK
<1>6. /\ spans \in Seq(Int \X Int) /\ \A k \in 1 .. n : SpanOK(spans[k])
      /\ \A k \in 2 .. n : spans[k - 1][1] < spans[k][1]
  BY DEF SpansOK
<1>7. n \in Nat
  BY <1>6
<1>8. made \in Seq(Int \X Int) /\ Len(made) = n + 1 /\ made[n + 1] = span
      /\ \A k \in 1 .. n : made[k] = spans[k]
  BY <1>1, <1>2, <1>6
<1>9. n # 0 => spans[n][1] < a
  <2>1. n # 0 => spans # << >>
    BY <1>6
  <2>. QED BY <2>1 DEF BeginsBefore
<1>. HIDE DEF n
<1>10. \A k \in 1 .. (n + 1) : SpanOK(made[k])
  <2>1. \A k \in 1 .. (n + 1) : k \in 1 .. n \/ k = n + 1
    BY <1>7
  <2>. QED BY <1>5, <1>6, <1>8, <2>1
<1>11. ASSUME NEW k \in 2 .. (n + 1) PROVE made[k - 1][1] < made[k][1]
  <2>. DEFINE j == k - 1
  <2>1. j \in 1 .. n /\ (k = n + 1 => j = n) /\ (k # n + 1 => k \in 2 .. n /\ k \in 1 .. n)
    BY <1>7
  <2>2. CASE k = n + 1
    <3>1. j = n /\ n # 0
      BY <1>7, <2>1, <2>2
    <3>2. spans[n][1] < a /\ spans[n] \in Int \X Int
      BY <1>6, <1>9, <2>1, <3>1 DEF n
    <3>3. spans[n][1] < span[1]
      BY <1>3, <3>2
    <3>. HIDE DEF j
    <3>4. made[j] = spans[n] /\ made[k] = span
      BY <1>8, <2>1, <2>2, <3>1
    <3>. QED BY <3>3, <3>4 DEF j
  <2>3. CASE k # n + 1
    <3>1. spans[k - 1][1] < spans[k][1]
      BY <1>6, <2>1, <2>3
    <3>2. made[k - 1] = spans[k - 1] /\ made[k] = spans[k]
      BY <1>8, <2>1, <2>3
    <3>. QED BY <3>1, <3>2
  <2>. QED BY <2>2, <2>3
<1>12. SpansOK(made)
  BY <1>8, <1>10, <1>11 DEF SpansOK
<1>13. n \in 0 .. n /\ n + 1 \in 1 .. (n + 1) /\ \A k \in 1 .. n : k \in 1 .. (n + 1)
  BY <1>7
<1>14. ASSUME NEW i \in Solid(0, Size), i < b PROVE Within(made, i)
  <2>1. i \in Int /\ 0 <= i /\ Char(i) # Blank
    BY <1>14, SolidIs, TextFacts DEF StaticOK
  <2>2. CASE i < a
    <3>1. PICK k \in 1 .. n : spans[k][1] <= i /\ i < spans[k][2]
      BY <2>2 DEF CoveredTo, Within, n
    <3>2. made[k] = spans[k] /\ k \in 1 .. (n + 1)
      BY <1>8, <1>13
    <3>. QED BY <1>8, <3>1, <3>2 DEF Within
  <2>3. CASE ~ (i < a)
    <3>1. a <= i
      BY <2>1, <2>3
    <3>2. i \in Solid(a, b)
      BY <1>14, <2>1, <3>1, SolidIs
    <3>3. span[1] <= i /\ i < span[2]
      BY <1>2, <3>2
    <3>. QED BY <1>8, <1>13, <3>3 DEF Within
  <2>. QED BY <2>2, <2>3
<1>15. ASSUME NEW i \in Solid(a, b) PROVE BeginsBefore(made, i + 1)
  <2>1. i \in Int /\ span[1] <= i
    BY <1>2, SolidIs
  <2>2. span[1] < i + 1
    BY <1>3, <2>1
  <2>. QED BY <1>8, <2>2 DEF BeginsBefore
<1>. QED BY <1>12, <1>14, <1>15 DEF CoveredTo, made

\* Where a window ends.
LEMMA WindowEndIs ==
  ASSUME config \in Configs, NEW start \in Nat, NEW to \in Nat, start < to
  PROVE  /\ WindowEnd(start, to) \in Nat
         /\ start < WindowEnd(start, to) /\ WindowEnd(start, to) <= to
         /\ WindowEnd(start, to) - start <= config.size
         /\ WindowEnd(start, to) < to => start + config.overlap + 2 <= WindowEnd(start, to)
<1>. DEFINE size == config.size
            back == config.overlap
            end == Min({start + size, to})
            stops == {i \in start .. (end - 2) : Char(i) = "." /\ Char(i + 1) = Blank}
            half == size \div 2
            last == Max(stops)
<1>1. size \in Int /\ back \in Int /\ 3 <= size /\ 0 <= back /\ 2 * back <= size
  BY ConfigFacts
<1>2. WindowEnd(start, to) = IF end < to /\ stops # {} /\ last > start + half THEN last + 1 ELSE end
  BY DEF WindowEnd
<1>. HIDE DEF size, back
<1>3. half \in Int /\ back <= half /\ half <= size /\ back + 2 <= size
  BY <1>1
<1>. HIDE DEF half
<1>4. start + size \in Int /\ to \in Int
  BY <1>1
<1>5. end = IF start + size <= to THEN start + size ELSE to
  BY <1>4, OfTwo
<1>. HIDE DEF end
<1>6. end \in Nat /\ start < end /\ end <= to /\ end - start <= size
  BY <1>1, <1>5
<1>7. end < to => start + back + 2 <= end
  BY <1>1, <1>3, <1>5
<1>8. ASSUME stops # {}, last > start + half
      PROVE  /\ last \in Int /\ last + 1 \in Nat /\ start < last + 1 /\ last + 1 <= to /\ last + 1 - start <= size
             /\ start + back + 2 <= last + 1
  <2>1. stops \in SUBSET (0 .. to)
    <3>1. \A i \in stops : i \in 0 .. to
      BY <1>6
    <3>. HIDE DEF stops
    <3>. QED BY <3>1
  <2>2. stops \in SUBSET (start .. (end - 2))
    OBVIOUS
  <2>. HIDE DEF stops, last
  <2>3. last \in stops
    BY <1>8, <2>1, GreatestNumber DEF last
  <2>4. last \in start .. (end - 2)
    BY <2>2, <2>3
  <2>5. last \in Int /\ start <= last /\ last <= end - 2
    BY <1>6, <2>4
  <2>. QED BY <1>1, <1>3, <1>6, <1>8, <2>5
<1>. HIDE DEF stops, last
<1>. DEFINE early == end < to /\ stops # {} /\ last > start + half
            Fine(e) == /\ e \in Nat /\ start < e /\ e <= to /\ e - start <= size
                       /\ e < to => start + back + 2 <= e
<1>9. ASSUME early PROVE Fine(last + 1) /\ WindowEnd(start, to) = last + 1
  <2>1. end < to /\ stops # {} /\ last > start + half
    BY <1>9
  <2>2. /\ last \in Int /\ last + 1 \in Nat /\ start < last + 1 /\ last + 1 <= to /\ last + 1 - start <= size
        /\ start + back + 2 <= last + 1
    BY <1>8, <2>1
  <2>3. WindowEnd(start, to) = last + 1
    BY <1>2, <2>1
  <2>. DEFINE stop == last + 1
  <2>4. stop \in Nat /\ start < stop /\ stop <= to /\ stop - start <= size /\ start + back + 2 <= stop
    BY <2>2
  <2>. HIDE DEF stop
  <2>5. Fine(stop)
    BY <2>4
  <2>. QED BY <2>3, <2>5 DEF stop
<1>10. ASSUME ~ early PROVE Fine(end) /\ WindowEnd(start, to) = end
  BY <1>2, <1>6, <1>7, <1>10
<1>. HIDE DEF early, Fine
<1>11. Fine(WindowEnd(start, to))
  BY <1>9, <1>10
<1>. QED BY <1>11 DEF Fine, size, back

\* Two places in a row hold something solid, and so does the last one of a stretch.
LEMMA SomethingSolid ==
  ASSUME StaticOK, NEW a \in Nat, NEW b \in Nat, a + 2 <= b, b <= Size
  PROVE  \E i \in Solid(a, b) : i <= a + 1
<1>1. Size \in Nat
  BY TextFacts DEF StaticOK
<1>2. a \in 0 .. (Size - 2) /\ a < b /\ a + 1 < b /\ a <= a + 1 /\ a + 1 \in Int
  BY <1>1
<1>3. Char(a) # Blank \/ Char(a + 1) # Blank
  BY <1>2, TextFacts DEF StaticOK
<1>4. a \in Solid(a, b) \/ a + 1 \in Solid(a, b)
  BY <1>2, <1>3, SolidIs
<1>5. a <= a + 1 /\ a + 1 <= a + 1
  BY <1>2
<1>. QED BY <1>4, <1>5

-----------------------------------------------------------------------------
\* The invariant: what is before the place the loop has reached is covered, the last
\* passage begins before it, and nothing solid is between the region being cut and the
\* next one.
CutOK ==
  /\ cut \in [from : Nat, to : Nat, next : Nat]
  /\ cut.from <= cut.next /\ cut.next < cut.to /\ cut.to <= Ahead
  /\ Char(cut.to - 1) # Blank /\ Solid(cut.to, Ahead) = {}
  /\ OnOnePage(cut.from, cut.to)
SplitInv ==
  /\ StaticOK
  /\ at \in Nat /\ 1 <= at
  /\ cut # NoCut => CutOK
  /\ SpansOK(spans)
  /\ CoveredTo(spans, Frontier) /\ BeginsBefore(spans, Frontier)

LEMMA StaticStays ==
  ASSUME UNCHANGED <<text, config, breaks, paged>>
  PROVE  /\ Size' = Size /\ Effective' = Effective /\ Pages' = Pages /\ Regs' = Regs
         /\ StaticOK => StaticOK'
<1>1. Size' = Size
  BY DEF Size
<1>2. Starts' = Starts
  BY DEF Starts
<1>3. Pages' = Pages /\ ParagraphUnits' = ParagraphUnits
  BY <1>1, <1>2 DEF Pages, ParagraphUnits, Regions
<1>4. SentenceUnits' = SentenceUnits
  BY <1>1 DEF SentenceUnits, Char
<1>5. Effective' = Effective
  BY <1>3 DEF Effective
<1>6. Regs' = Regs
  BY <1>3, <1>4, <1>5 DEF Regs, Units
<1>7. StaticOK => StaticOK'
  BY DEF StaticOK
<1>. QED BY <1>1, <1>3, <1>5, <1>6, <1>7

LEMMA SpansStay ==
  ASSUME UNCHANGED <<text, config, breaks, paged>>
  PROVE  /\ SpansOK(spans') => SpansOK(spans)'
         /\ \A f : f = Frontier' /\ CoveredTo(spans', f) => CoveredTo(spans, Frontier)'
         /\ \A f : f = Frontier' /\ BeginsBefore(spans', f) => BeginsBefore(spans, Frontier)'
<1>1. Size' = Size /\ Effective' = Effective /\ Pages' = Pages
  BY StaticStays
<1>2. SpansOK(spans') => SpansOK(spans)'
  BY <1>1 DEF SpansOK, SpanOK, OnOnePage, Char
<1>3. ASSUME NEW f, f = Frontier', CoveredTo(spans', f) PROVE CoveredTo(spans, Frontier)'
  BY <1>1, <1>3 DEF CoveredTo, Within, Solid, Char
<1>4. ASSUME NEW f, f = Frontier', BeginsBefore(spans', f) PROVE BeginsBefore(spans, Frontier)'
  BY <1>4 DEF BeginsBefore
<1>. QED BY <1>2, <1>3, <1>4

\* Beginnings of regions.
LEMMA BeginningsRise ==
  ASSUME StaticOK, Effective # "character",
         NEW i \in 1 .. Len(Regs), NEW j \in (i + 1) .. (Len(Regs) + 1)
  PROVE  /\ Len(Regs) \in Nat /\ Regs[i][1] \in Nat /\ Regs[i][2] \in Nat /\ BeginOf(j) \in Nat
         /\ Regs[i][1] < Regs[i][2] /\ Regs[i][2] <= BeginOf(j) /\ BeginOf(j) <= Size
         /\ Char(Regs[i][1]) # Blank
         /\ j = i + 1 => Solid(Regs[i][2], BeginOf(j)) = {}
<1>. DEFINE n == Len(Regs)
            R == Regs
<1>1. Layout(R) /\ Size \in Nat
  BY RegsAreLaidOut, TextFacts DEF StaticOK
<1>. HIDE DEF R
<1>2. /\ n \in Nat \ {0} /\ R[n][2] = Size
      /\ \A k \in 1 .. n : /\ R[k][1] \in Int /\ R[k][2] \in Int /\ 0 <= R[k][1]
                            /\ R[k][1] < R[k][2] /\ R[k][2] <= Size /\ Char(R[k][1]) # Blank
      /\ \A k \in 1 .. (n - 1) : R[k][2] <= R[k + 1][1] /\ Solid(R[k][2], R[k + 1][1]) = {}
  BY <1>1 DEF Layout, R
<1>3. i \in 1 .. n /\ j \in (i + 1) .. (n + 1) /\ n \in Nat
  BY <1>2
<1>4. BeginOf(j) = IF j \in 1 .. n THEN R[j][1] ELSE Size
  BY DEF BeginOf, R
<1>5. R[i][1] \in Nat /\ R[i][2] \in Nat /\ R[i][1] < R[i][2] /\ R[i][2] <= Size /\ Char(R[i][1]) # Blank
  <2>1. R[i][1] \in Int /\ R[i][2] \in Int /\ 0 <= R[i][1] /\ R[i][1] < R[i][2] /\ R[i][2] <= Size /\ Char(R[i][1]) # Blank
    BY <1>2, <1>3
  <2>. QED BY <2>1
<1>6. CASE j \in 1 .. n
  <2>1. i < j
    BY <1>3
  <2>2. R[i][2] <= R[j][1]
    BY <1>1, <1>6, <2>1, RegionsAreApart DEF R
  <2>3. R[j][1] \in Int /\ 0 <= R[j][1] /\ R[j][1] < R[j][2] /\ R[j][2] \in Int /\ R[j][2] <= Size
    BY <1>2, <1>6
  <2>4. R[j][1] \in Nat /\ R[j][1] <= Size
    BY <1>1, <2>3
  <2>5. j = i + 1 => Solid(R[i][2], R[j][1]) = {}
    <3>1. j = i + 1 => i \in 1 .. (n - 1)
      BY <1>3, <1>6
    <3>. QED BY <1>2, <3>1
  <2>. QED BY <1>3, <1>4, <1>5, <1>6, <2>2, <2>4, <2>5 DEF R
<1>7. CASE ~ (j \in 1 .. n)
  <2>1. BeginOf(j) = Size /\ (j = i + 1 => i = n)
    BY <1>3, <1>4, <1>7
  <2>2. j = i + 1 => Solid(R[i][2], Size) = {}
    <3>1. \A x \in Solid(Size, Size) : FALSE
      BY <1>1, SolidIs
    <3>. QED BY <1>2, <2>1, <3>1
  <2>3. Size <= Size
    BY <1>1
  <2>. QED BY <1>1, <1>3, <1>5, <2>1, <2>2, <2>3 DEF R
<1>. QED BY <1>6, <1>7

\* A turn of the page loop or of _pack: the regions from at to last become a passage or
\* go to the character splitter.
LEMMA RegionsKeepTheInvariant ==
  ASSUME SplitInv, cut = NoCut, Effective # "character", at \in 1 .. Len(Regs),
         NEW last \in at .. Len(Regs), Emit(Regs[at][1], Regs[last][2]),
         at' \in (at + 1) .. (last + 1),
         last # at => Regs[last][2] - Regs[at][1] <= config.size,
         Effective = "page" => last = at,
         UNCHANGED <<text, config, breaks, paged>>
  PROVE  SplitInv'
<1>. DEFINE a == Regs[at][1]
            b == Regs[last][2]
            n == Len(Regs)
            piece == Stripped(a, b)
            far == BeginOf(last + 1)
            near == BeginOf(at')
<1>1. StaticOK /\ Size \in Nat
  BY TextFacts DEF SplitInv, StaticOK
<1>2. n \in Nat /\ at \in 1 .. n /\ last \in 1 .. n /\ last + 1 \in (last + 1) .. (n + 1)
      /\ at' \in (at + 1) .. (n + 1) /\ at' \in Nat /\ 1 <= at'
  <2>1. Layout(Regs)
    BY <1>1, RegsAreLaidOut
  <2>2. n \in Nat
    BY <2>1 DEF Layout
  <2>. HIDE DEF n
  <2>3. at \in 1 .. n /\ last \in at .. n
    BY DEF n
  <2>. QED BY <2>2, <2>3
<1>3. /\ a \in Nat /\ near \in Nat /\ a < near /\ near <= Size /\ Char(a) # Blank
      /\ Regs[at][2] <= near /\ Regs[at][2] \in Nat /\ a < Regs[at][2]
  <2>1. /\ a \in Nat /\ near \in Nat /\ Regs[at][2] <= near /\ Regs[at][2] \in Nat
        /\ a < Regs[at][2] /\ near <= Size /\ Char(a) # Blank
    BY <1>1, <1>2, BeginningsRise
  <2>. QED BY <2>1
<1>4. b \in Nat /\ far \in Nat /\ b <= far /\ far <= Size /\ Solid(b, far) = {} /\ Regs[last][1] < b /\ Regs[last][1] \in Nat
  BY <1>1, <1>2, BeginningsRise
<1>5. a < b
  <2>1. CASE last = at
    BY <1>3, <2>1
  <2>2. CASE last # at
    <3>1. last \in (at + 1) .. (n + 1) /\ last \in 1 .. n
      BY <1>2, <2>2
    <3>2. Regs[at][2] <= BeginOf(last)
      BY <1>1, <1>2, <3>1, BeginningsRise
    <3>3. BeginOf(last) = Regs[last][1]
      BY <3>1 DEF BeginOf
    <3>. QED BY <1>3, <1>4, <3>2, <3>3
  <2>. QED BY <2>1, <2>2
<1>6. near <= far
  <2>1. CASE at' = last + 1
    BY <1>3, <2>1
  <2>2. CASE at' # last + 1
    <3>1. at' \in 1 .. n /\ last + 1 \in (at' + 1) .. (n + 1)
      BY <1>2, <2>2
    <3>2. Regs[at'][2] <= far /\ Regs[at'][1] < Regs[at'][2] /\ Regs[at'][1] \in Nat /\ Regs[at'][2] \in Nat
      BY <1>1, <3>1, BeginningsRise
    <3>3. near = Regs[at'][1]
      BY <3>1 DEF BeginOf
    <3>. QED BY <1>4, <3>2, <3>3
  <2>. QED BY <2>1, <2>2
<1>7. Frontier = a
  <2>1. Ahead = BeginOf(at)
    BY DEF Ahead
  <2>. QED BY <2>1 DEF BeginOf, Frontier
<1>8. Ahead' = near
  <2>1. Ahead' = IF at' \in 1 .. Len(Regs) THEN Regs[at'][1] ELSE Size
    BY StaticStays DEF Ahead, BeginOf
  <2>. QED BY <2>1 DEF BeginOf
<1>9. SpansOK(spans) /\ CoveredTo(spans, a) /\ BeginsBefore(spans, a)
  BY <1>7 DEF SplitInv
<1>10. OnOnePage(a, b)
  <2>. SUFFICES ASSUME Effective = "page"
                PROVE  \E k \in 1 .. Len(Pages) : Pages[k][1] <= a /\ b <= Pages[k][2]
    BY DEF OnOnePage
  <2>1. Regs = Pages /\ last = at
    BY DEF Regs
  <2>. HIDE DEF a, b
  <2>2. at \in 1 .. Len(Pages) /\ a <= a /\ b <= b /\ Pages[at][1] = a /\ Pages[at][2] = b
    BY <1>2, <1>3, <1>4, <2>1 DEF a, b
  <2>3. Pages[at][1] <= a /\ b <= Pages[at][2]
    BY <2>2
  <2>. QED BY <2>2, <2>3
<1>11. Emit(a, b)
  OBVIOUS
<1>12. last # at => b - a <= config.size
  OBVIOUS
<1>. HIDE DEF a, b, n, near, far
<1>13. a \in Solid(a, b)
  BY <1>3, <1>4, <1>5, SolidIs
<1>14. /\ piece \in Int \X Int /\ piece[1] \in Solid(a, b) /\ piece[2] - 1 \in Solid(a, b)
       /\ \A i \in Solid(a, b) : piece[1] <= i /\ i < piece[2]
  BY <1>3, <1>4, <1>13, StrippedIs
<1>. HIDE DEF piece
<1>15. piece[1] = a /\ piece[2] \in Nat /\ a < piece[2] /\ piece[2] <= b /\ Char(piece[2] - 1) # Blank
  <2>1. piece[1] \in Int /\ piece[2] \in Int /\ piece[1] <= a /\ a < piece[2]
    BY <1>13, <1>14
  <2>2. a <= piece[1]
    BY <1>3, <1>4, <1>14, SolidIs
  <2>3. piece[2] - 1 < b /\ Char(piece[2] - 1) # Blank
    BY <1>3, <1>4, <1>14, SolidIs
  <2>. QED BY <1>3, <1>4, <2>1, <2>2, <2>3
<1>16. CASE piece[2] - piece[1] > config.size
  <2>1. cut' = [from |-> a, to |-> piece[2], next |-> a] /\ spans' = spans
    BY <1>11, <1>13, <1>15, <1>16 DEF Emit, piece
  <2>2. last = at
    <3>1. piece[2] - piece[1] <= b - a /\ piece[2] - piece[1] \in Int /\ b - a \in Int /\ config.size \in Int
      <4>1. config.size \in Int
        BY <1>1, ConfigFacts DEF StaticOK
      <4>. QED BY <1>3, <1>4, <1>15, <4>1
    <3>2. ~ (b - a <= config.size)
      BY <1>16, <3>1
    <3>. QED BY <1>12, <3>2
  <2>3. at' = last + 1 /\ near = far
    <3>1. at' = last + 1
      BY <1>2, <2>2
    <3>. QED BY <3>1 DEF near, far
  <2>4. Solid(piece[2], near) = {}
    <3>1. ASSUME NEW i \in Solid(piece[2], near) PROVE FALSE
      <4>1. i \in Int /\ piece[2] <= i /\ i < far /\ Char(i) # Blank
        BY <1>3, <1>15, <2>3, SolidIs
      <4>2. CASE i < b
        <5>1. i \in Solid(a, b)
          BY <1>3, <1>4, <1>15, <4>1, <4>2, SolidIs
        <5>. QED BY <1>14, <1>15, <4>1, <5>1
      <4>3. CASE ~ (i < b)
        <5>1. b <= i /\ i < far
          BY <1>4, <4>1, <4>3
        <5>2. i \in Solid(b, far)
          <6>1. b \in Int /\ far \in Int
            BY <1>4
          <6>. QED BY <4>1, <5>1, <6>1, SolidIs
        <5>. QED BY <1>4, <5>2
      <4>. QED BY <4>2, <4>3
    <3>. QED BY <3>1
  <2>5. OnOnePage(a, piece[2])
    <3>. SUFFICES ASSUME Effective = "page"
                  PROVE  \E k \in 1 .. Len(Pages) : Pages[k][1] <= a /\ piece[2] <= Pages[k][2]
      BY DEF OnOnePage
    <3>1. PICK k \in 1 .. Len(Pages) : Pages[k][1] <= a /\ b <= Pages[k][2]
      BY <1>10 DEF OnOnePage
    <3>2. Pages[k][2] \in Int
      <4>1. Layout(Pages)
        BY <1>1, RegsAreLaidOut DEF Regs
      <4>. QED BY <4>1 DEF Layout
    <3>3. piece[2] <= Pages[k][2]
      BY <1>4, <1>15, <3>1, <3>2
    <3>. QED BY <3>1, <3>3
  <2>6. piece[2] <= near
    BY <1>3, <1>4, <1>15, <2>3
  <2>7. cut'.from = a /\ cut'.to = piece[2] /\ cut'.next = a /\ cut' \in [from : Nat, to : Nat, next : Nat]
    BY <1>3, <1>15, <2>1
  <2>8. CutOK'
    <3>1. OnOnePage(a, piece[2]) => OnOnePage(cut.from, cut.to)'
      BY <2>7, StaticStays DEF OnOnePage
    <3>2. Solid(cut.to, Ahead)' = {}
      BY <1>8, <2>4, <2>7 DEF Solid, Char
    <3>3. (Char(cut.to - 1) # Blank)'
      BY <1>15, <2>7 DEF Char
    <3>4. a <= a
      BY <1>3
    <3>. QED BY <1>8, <1>15, <2>5, <2>6, <2>7, <3>1, <3>2, <3>3, <3>4 DEF CutOK
  <2>9. Frontier' = a
    <3>1. cut' # NoCut
      <4>1. NoCut.next = -1
        BY DEF NoCut
      <4>2. a # -1
        BY <1>3
      <4>. QED BY <2>7, <4>1, <4>2
    <3>. QED BY <2>7, <3>1 DEF Frontier
  <2>. QED BY <1>1, <1>2, <1>9, <2>1, <2>8, <2>9, SpansStay, StaticStays DEF SplitInv
<1>17. CASE ~ (piece[2] - piece[1] > config.size)
  <2>1. spans' = WithSpan(a, b) /\ cut' = NoCut
    BY <1>11, <1>17 DEF Emit, piece
  <2>2. piece[2] - piece[1] <= config.size
    <3>1. piece[2] - piece[1] \in Int /\ config.size \in Int
      <4>1. config.size \in Int
        BY <1>1, ConfigFacts DEF StaticOK
      <4>. QED BY <1>3, <1>15, <4>1
    <3>. QED BY <1>17, <3>1
  <2>3. b <= Size
    BY <1>1, <1>4
  <2>4. /\ SpansOK(spans') /\ CoveredTo(spans', b) /\ BeginsBefore(spans', a + 1)
    BY <1>1, <1>3, <1>4, <1>9, <1>10, <1>13, <2>1, <2>2, <2>3, OneSpanMore DEF piece
  <2>5. CoveredTo(spans', near)
    <3>1. ASSUME NEW i \in Solid(0, Size), i < near PROVE Within(spans', i)
      <4>1. i \in Int /\ Char(i) # Blank
        BY <1>1, SolidIs
      <4>2. CASE i < b
        BY <2>4, <4>2 DEF CoveredTo
      <4>3. CASE ~ (i < b)
        <5>1. b <= i /\ i < far
          BY <1>3, <1>4, <1>6, <3>1, <4>1, <4>3
        <5>2. i \in Solid(b, far)
          <6>1. b \in Int /\ far \in Int
            BY <1>4
          <6>. QED BY <4>1, <5>1, <6>1, SolidIs
        <5>. QED BY <1>4, <5>2
      <4>. QED BY <4>2, <4>3
    <3>. QED BY <3>1 DEF CoveredTo
  <2>6. BeginsBefore(spans', near)
    <3>. SUFFICES ASSUME spans' # << >> PROVE spans'[Len(spans')][1] < near
      BY DEF BeginsBefore
    <3>. DEFINE begin == spans'[Len(spans')][1]
    <3>1. begin < a + 1
      BY <2>4 DEF BeginsBefore
    <3>2. begin \in Int
      <4>1. spans' \in Seq(Int \X Int)
        BY <2>4 DEF SpansOK
      <4>2. spans'[Len(spans')] \in Int \X Int
        BY <4>1
      <4>. QED BY <4>2
    <3>. HIDE DEF begin
    <3>3. begin < near
      BY <1>3, <3>1, <3>2
    <3>. QED BY <3>3 DEF begin
  <2>7. Frontier' = near
    BY <1>8, <2>1 DEF Frontier
  <2>. QED BY <1>1, <1>2, <2>1, <2>4, <2>5, <2>6, <2>7, SpansStay, StaticStays DEF SplitInv
<1>. QED BY <1>16, <1>17

\* A turn of the character splitter. Two places a window keeps beyond the overlap are
\* what makes the next passage begin after this one: one of them is solid.
LEMMA WindowsKeepTheInvariant ==
  ASSUME SplitInv, CutWindow
  PROVE  SplitInv'
<1>. DEFINE a == cut.next
            to == cut.to
            whole == cut.next = cut.from /\ cut.to - cut.from <= config.size
            end == IF whole THEN cut.to ELSE WindowEnd(cut.next, cut.to)
            next == Max({cut.from, end - config.overlap})
            begin == spans'[Len(spans')][1]
<1>1. /\ StaticOK /\ Size \in Nat /\ config.size \in Int /\ config.overlap \in Int
      /\ 0 <= config.overlap
  BY TextFacts, ConfigFacts DEF SplitInv, StaticOK
<1>2. /\ cut # NoCut /\ spans' = WithSpan(a, end)
      /\ cut' = IF end >= to THEN NoCut ELSE [cut EXCEPT !.next = next]
      /\ UNCHANGED <<text, config, breaks, paged, at>>
  BY DEF CutWindow
<1>3. CutOK
  BY <1>2 DEF SplitInv
<1>4. /\ a \in Nat /\ to \in Nat /\ cut.from \in Nat /\ cut.from <= a /\ a < to /\ to <= Ahead
      /\ Char(to - 1) # Blank /\ Solid(to, Ahead) = {} /\ OnOnePage(cut.from, to)
      /\ cut \in [from : Nat, to : Nat, next : Nat]
  BY <1>3 DEF CutOK
<1>5. SpansOK(spans) /\ CoveredTo(spans, a) /\ BeginsBefore(spans, a)
  BY <1>2 DEF SplitInv, Frontier
<1>6. Ahead \in Nat /\ Ahead <= Size
  <2>1. CASE Effective = "character" \/ ~ (at \in 1 .. Len(Regs))
    <3>1. Ahead = Size
      BY <2>1 DEF Ahead, BeginOf
    <3>. QED BY <1>1, <3>1
  <2>2. CASE Effective # "character" /\ at \in 1 .. Len(Regs)
    <3>1. Layout(Regs) /\ Ahead = Regs[at][1]
      BY <1>1, <2>2, RegsAreLaidOut DEF Ahead, BeginOf
    <3>2. /\ Regs[at][1] \in Int /\ 0 <= Regs[at][1] /\ Regs[at][1] < Regs[at][2]
          /\ Regs[at][2] \in Int /\ Regs[at][2] <= Size
      BY <2>2, <3>1 DEF Layout
    <3>. QED BY <1>1, <3>1, <3>2
  <2>. QED BY <2>1, <2>2
<1>7. /\ end \in Nat /\ a < end /\ end <= to /\ end - a <= config.size
      /\ end < to => a + config.overlap + 2 <= end
  <2>1. CASE whole
    <3>1. end = to
      BY <2>1
    <3>. QED BY <1>1, <1>4, <2>1, <3>1
  <2>2. CASE ~ whole
    <3>1. end = WindowEnd(a, to)
      BY <2>2
    <3>2. config \in Configs
      BY <1>1 DEF StaticOK
    <3>. HIDE DEF end
    <3>. QED BY <1>4, <3>1, <3>2, WindowEndIs
  <2>. QED BY <2>1, <2>2
<1>8. Ahead' = Ahead
  BY <1>2, StaticStays DEF Ahead, BeginOf
<1>. HIDE DEF a, to, end
<1>9. end <= Size
  BY <1>1, <1>4, <1>6, <1>7
<1>10. \E i \in Solid(a, end) : end < to => i <= a + 1
  <2>1. CASE end < to
    <3>1. a + 2 <= end
      BY <1>1, <1>4, <1>7, <2>1
    <3>. QED BY <1>1, <1>4, <1>7, <1>9, <3>1, SomethingSolid
  <2>2. CASE ~ (end < to)
    <3>1. end = to
      BY <1>4, <1>7, <2>2
    <3>2. to - 1 \in Int /\ a <= to - 1 /\ to - 1 < to
      BY <1>4
    <3>3. to - 1 \in Solid(a, to)
      <4>1. a \in Int /\ to \in Int
        BY <1>4
      <4>. QED BY <1>4, <3>2, <4>1, SolidIs
    <3>. QED BY <2>2, <3>1, <3>3
  <2>. QED BY <2>1, <2>2
<1>11. PICK early \in Solid(a, end) : end < to => early <= a + 1
  BY <1>10
<1>12. early \in Int /\ a <= early /\ early < end
  BY <1>4, <1>7, SolidIs
<1>13. OnOnePage(a, end)
  <2>. SUFFICES ASSUME Effective = "page"
                PROVE  \E k \in 1 .. Len(Pages) : Pages[k][1] <= a /\ end <= Pages[k][2]
    BY DEF OnOnePage
  <2>1. PICK k \in 1 .. Len(Pages) : Pages[k][1] <= cut.from /\ to <= Pages[k][2]
    BY <1>4 DEF OnOnePage
  <2>2. Pages[k][1] \in Int /\ Pages[k][2] \in Int
    <3>1. Layout(Pages)
      BY <1>1, RegsAreLaidOut DEF Regs
    <3>. QED BY <3>1 DEF Layout
  <2>3. Pages[k][1] <= a /\ end <= Pages[k][2]
    BY <1>4, <1>7, <2>1, <2>2
  <2>. QED BY <2>3
<1>14. Stripped(a, end)[2] - Stripped(a, end)[1] <= config.size
  <2>. DEFINE piece == Stripped(a, end)
  <2>1. piece \in Int \X Int /\ piece[1] \in Solid(a, end) /\ piece[2] - 1 \in Solid(a, end)
    BY <1>4, <1>7, <1>11, StrippedIs
  <2>. HIDE DEF piece
  <2>2. piece[1] \in Int /\ piece[2] \in Int
    BY <2>1
  <2>3. a <= piece[1] /\ piece[2] - 1 < end
    BY <1>4, <1>7, <2>1, SolidIs
  <2>4. piece[2] - piece[1] <= end - a
    BY <1>4, <1>7, <2>2, <2>3
  <2>5. piece[2] - piece[1] <= config.size
    BY <1>1, <1>4, <1>7, <2>2, <2>4
  <2>. QED BY <2>5 DEF piece
<1>15. /\ SpansOK(spans') /\ CoveredTo(spans', end) /\ BeginsBefore(spans', early + 1)
  BY <1>1, <1>2, <1>4, <1>5, <1>7, <1>9, <1>11, <1>13, <1>14, OneSpanMore
<1>16. spans' # << >> => begin \in Int /\ begin <= early
  <2>. SUFFICES ASSUME spans' # << >> PROVE begin \in Int /\ begin <= early
    OBVIOUS
  <2>1. spans' \in Seq(Int \X Int)
    BY <1>15 DEF SpansOK
  <2>2. spans'[Len(spans')] \in Int \X Int
    BY <2>1
  <2>3. begin \in Int
    BY <2>2
  <2>4. begin < early + 1
    BY <1>15 DEF BeginsBefore
  <2>. HIDE DEF begin
  <2>. QED BY <1>12, <2>3, <2>4
<1>. HIDE DEF begin
<1>17. CASE end >= to
  <2>1. cut' = NoCut /\ end = to
    BY <1>2, <1>4, <1>7, <1>17
  <2>2. Frontier' = Ahead
    BY <1>8, <2>1 DEF Frontier
  <2>3. CoveredTo(spans', Ahead)
    <3>1. ASSUME NEW i \in Solid(0, Size), i < Ahead PROVE Within(spans', i)
      <4>1. i \in Int /\ Char(i) # Blank
        BY <1>1, SolidIs
      <4>2. CASE i < end
        BY <1>15, <4>2 DEF CoveredTo
      <4>3. CASE ~ (i < end)
        <5>1. to \in Int /\ Ahead \in Int /\ to <= i
          BY <1>4, <1>6, <2>1, <4>1, <4>3
        <5>2. i \in Solid(to, Ahead)
          BY <3>1, <4>1, <5>1, SolidIs
        <5>. QED BY <1>4, <5>2
      <4>. QED BY <4>2, <4>3
    <3>. QED BY <3>1 DEF CoveredTo
  <2>4. BeginsBefore(spans', Ahead)
    <3>. SUFFICES ASSUME spans' # << >> PROVE begin < Ahead
      BY DEF BeginsBefore, begin
    <3>. QED BY <1>4, <1>6, <1>7, <1>12, <1>16
  <2>. QED BY <1>1, <1>2, <1>15, <2>1, <2>2, <2>3, <2>4, SpansStay, StaticStays DEF SplitInv
<1>18. CASE ~ (end >= to)
  <2>1. end < to
    BY <1>4, <1>7, <1>18
  <2>2. cut' = [cut EXCEPT !.next = next]
    BY <1>2, <1>18
  <2>3. next \in Nat /\ cut.from <= next /\ next < to /\ next <= end /\ a + 2 <= next
    <3>1. end - config.overlap \in Int /\ a + 2 <= end - config.overlap /\ end - config.overlap <= end
      BY <1>1, <1>4, <1>7, <2>1
    <3>. DEFINE from == cut.from
                back == end - config.overlap
    <3>2. from \in Int /\ from <= a /\ back \in Int /\ a + 2 <= back /\ back <= end /\ from \in Nat
      BY <1>4, <3>1
    <3>3. next = Max({from, back})
      OBVIOUS
    <3>. HIDE DEF from, back, next
    <3>4. next = IF from >= back THEN from ELSE back
      BY <3>2, <3>3, OfTwo
    <3>5. next = back
      BY <1>4, <3>2, <3>4
    <3>6. next \in Nat /\ from <= next /\ next < to /\ next <= end /\ a + 2 <= next
      BY <1>4, <1>7, <2>1, <3>2, <3>5
    <3>. QED BY <3>6 DEF from
  <2>. HIDE DEF next
  <2>4. /\ cut' \in [from : Nat, to : Nat, next : Nat]
        /\ cut'.next = next /\ cut'.from = cut.from /\ cut'.to = to
    BY <1>4, <2>2, <2>3 DEF to
  <2>5. CutOK'
    <3>1. OnOnePage(cut.from, to) => OnOnePage(cut.from, cut.to)'
      BY <1>2, <2>4, StaticStays DEF OnOnePage
    <3>2. Solid(cut.to, Ahead)' = {}
      BY <1>2, <1>4, <1>8, <2>4 DEF Solid, Char
    <3>3. (Char(cut.to - 1) # Blank)'
      BY <1>2, <1>4, <2>4 DEF Char
    <3>. QED BY <1>4, <1>8, <2>3, <2>4, <3>1, <3>2, <3>3 DEF CutOK
  <2>6. Frontier' = next
    <3>1. cut' # NoCut
      <4>1. NoCut.next = -1
        BY DEF NoCut
      <4>2. next # -1
        BY <2>3
      <4>. QED BY <2>4, <4>1, <4>2
    <3>. QED BY <2>4, <3>1 DEF Frontier
  <2>7. CoveredTo(spans', next)
    <3>1. ASSUME NEW i \in Solid(0, Size), i < next PROVE Within(spans', i)
      <4>1. i \in Int
        BY <1>1, SolidIs
      <4>2. i < end
        BY <1>7, <2>3, <3>1, <4>1
      <4>. QED BY <1>15, <4>2 DEF CoveredTo
    <3>. QED BY <3>1 DEF CoveredTo
  <2>8. BeginsBefore(spans', next)
    <3>. SUFFICES ASSUME spans' # << >> PROVE begin < next
      BY DEF BeginsBefore, begin
    <3>1. early <= a + 1
      BY <1>11, <2>1
    <3>. QED BY <1>4, <1>12, <1>16, <2>3, <3>1
  <2>. QED BY <1>1, <1>2, <1>15, <2>5, <2>6, <2>7, <2>8, SpansStay, StaticStays DEF SplitInv
<1>. QED BY <1>17, <1>18

\* The units of one chunk, and where the next one begins.
LEMMA UnitsOfAChunk ==
  ASSUME StaticOK, Effective \in {"sentence", "paragraph"}, at \in DOMAIN Units
  PROVE  /\ Regs = Units /\ Len(Units) \in Nat /\ at \in 1 .. Len(Units)
         /\ LastFitting(at) \in at .. Len(Units)
         /\ LastFitting(at) # at => Units[LastFitting(at)][2] - Units[at][1] <= config.size
         /\ LastFitting(at) # Len(Units) =>
              NextUnit(at, LastFitting(at)) \in (at + 1) .. (LastFitting(at) + 1)
<1>. DEFINE n == Len(Units)
            U == Units
            over == {j \in (at + 1) .. n : U[j][2] - U[at][1] > config.size}
            last == LastFitting(at)
            enough == {j \in (at + 1) .. last : U[last][2] - U[j][1] >= config.overlap}
<1>1. Regs = U
  BY DEF Regs
<1>2. Layout(U)
  BY <1>1, RegsAreLaidOut
<1>3. n \in Nat /\ at \in 1 .. n /\ \A k \in 1 .. n : U[k][1] \in Int /\ U[k][2] \in Int
  BY <1>2 DEF Layout
<1>4. last = IF over = {} THEN n ELSE Min(over) - 1
  BY DEF LastFitting
<1>5. NextUnit(at, last) = IF config.overlap = 0 \/ last = at THEN last + 1
                           ELSE IF enough = {} THEN at + 1 ELSE Max(enough)
  BY DEF NextUnit
<1>6. config.size \in Int
  BY ConfigFacts DEF StaticOK
<1>. HIDE DEF U, n, last
<1>7. over \in SUBSET Nat /\ over \in SUBSET ((at + 1) .. n)
  <2>1. \A j \in over : j \in Nat /\ j \in (at + 1) .. n
    BY <1>3
  <2>. HIDE DEF over
  <2>. QED BY <2>1
<1>8. over # {} => Min(over) \in over /\ \A j \in over : Min(over) <= j
  <2>. HIDE DEF over
  <2>. QED BY <1>7, LeastIsMin
<1>9. last \in at .. n
  <2>. HIDE DEF over
  <2>1. CASE over = {}
    BY <1>3, <1>4, <2>1
  <2>2. CASE over # {}
    <3>1. Min(over) \in (at + 1) .. n
      BY <1>7, <1>8, <2>2
    <3>2. last = Min(over) - 1
      BY <1>4, <2>2
    <3>. DEFINE m == Min(over)
    <3>. HIDE DEF m
    <3>3. m \in (at + 1) .. n /\ last = m - 1
      BY <3>1, <3>2 DEF m
    <3>. QED BY <1>3, <3>3
  <2>. QED BY <2>1, <2>2
<1>10. last \notin over
  <2>1. CASE over = {}
    BY <2>1
  <2>2. CASE over # {}
    <3>. DEFINE m == Min(over)
    <3>. HIDE DEF over
    <3>1. m \in (at + 1) .. n /\ last = m - 1 /\ \A j \in over : m <= j
      BY <1>4, <1>7, <1>8, <2>2
    <3>. HIDE DEF m
    <3>2. ~ (m <= last)
      BY <1>3, <3>1
    <3>. QED BY <3>1, <3>2
  <2>. QED BY <2>1, <2>2
<1>11. ASSUME last # at PROVE U[last][2] - U[at][1] <= config.size
  <2>1. last \in (at + 1) .. n /\ last \in 1 .. n
    BY <1>3, <1>9, <1>11
  <2>2. ~ (U[last][2] - U[at][1] > config.size)
    BY <1>10, <2>1
  <2>3. U[last][2] \in Int /\ U[at][1] \in Int
    BY <1>3, <2>1
  <2>. QED BY <1>6, <2>2, <2>3
<1>12. NextUnit(at, last) \in (at + 1) .. (last + 1)
  <2>1. CASE config.overlap = 0 \/ last = at
    BY <1>3, <1>5, <1>9, <2>1
  <2>2. CASE ~ (config.overlap = 0 \/ last = at) /\ enough = {}
    BY <1>3, <1>5, <1>9, <2>2
  <2>3. CASE ~ (config.overlap = 0 \/ last = at) /\ enough # {}
    <3>1. NextUnit(at, last) = Max(enough)
      BY <1>5, <2>3
    <3>2. enough \in SUBSET (0 .. n) /\ enough \in SUBSET ((at + 1) .. last)
      <4>1. \A j \in enough : j \in 0 .. n /\ j \in (at + 1) .. last
        BY <1>3, <1>9
      <4>. HIDE DEF enough
      <4>. QED BY <4>1
    <3>. HIDE DEF enough
    <3>3. Max(enough) \in enough
      BY <1>3, <2>3, <3>2, GreatestNumber
    <3>4. Max(enough) \in (at + 1) .. last
      BY <3>2, <3>3
    <3>. DEFINE top == Max(enough)
    <3>. HIDE DEF top
    <3>5. top \in (at + 1) .. last
      BY <3>4 DEF top
    <3>6. top \in (at + 1) .. (last + 1)
      BY <1>3, <1>9, <3>5
    <3>. QED BY <3>1, <3>6 DEF top
  <2>. QED BY <2>1, <2>2, <2>3
<1>. QED BY <1>1, <1>3, <1>9, <1>11, <1>12 DEF U, n, last

LEMMA SplitInvInitially ==
  ASSUME ChunkInit
  PROVE  SplitInv
<1>1. StaticOK
  BY DEF ChunkInit, StaticOK
<1>2. Size \in Nat /\ 1 <= Size /\ Char(Size - 1) # Blank
  BY <1>1, TextFacts DEF StaticOK
<1>3. spans = << >> /\ at = 1
  BY DEF ChunkInit
<1>4. SpansOK(spans)
  BY <1>3 DEF SpansOK
<1>5. \A f : BeginsBefore(spans, f)
  BY <1>3 DEF BeginsBefore
<1>6. CoveredTo(spans, 0)
  <2>1. \A i \in Solid(0, Size) : ~ (i < 0)
    BY <1>2, SolidIs
  <2>. QED BY <2>1 DEF CoveredTo
<1>7. CASE Effective = "character"
  <2>1. cut = [from |-> 0, to |-> Size, next |-> 0]
    BY <1>7 DEF ChunkInit
  <2>2. cut # NoCut /\ Frontier = 0
    BY <2>1 DEF NoCut, Frontier
  <2>3. Ahead = Size
    BY <1>7 DEF Ahead
  <2>4. Solid(Size, Size) = {}
    <3>1. \A i \in Solid(Size, Size) : FALSE
      BY <1>2, SolidIs
    <3>. QED BY <3>1
  <2>5. OnOnePage(0, Size)
    BY <1>7 DEF OnOnePage
  <2>6. CutOK
    BY <1>2, <2>1, <2>3, <2>4, <2>5 DEF CutOK
  <2>. QED BY <1>1, <1>3, <1>4, <1>5, <1>6, <2>2, <2>6 DEF SplitInv
<1>8. CASE Effective # "character"
  <2>1. cut = NoCut
    BY <1>8 DEF ChunkInit
  <2>2. Layout(Regs)
    BY <1>1, <1>8, RegsAreLaidOut
  <2>3. 1 \in 1 .. Len(Regs) /\ Regs[1][1] = 0
    BY <2>2 DEF Layout
  <2>4. Frontier = 0
    BY <1>3, <1>8, <2>1, <2>3 DEF Frontier, Ahead, BeginOf
  <2>. QED BY <1>1, <1>3, <1>4, <1>5, <1>6, <2>1, <2>4 DEF SplitInv
<1>. QED BY <1>7, <1>8

LEMMA SplitInvStays ==
  ASSUME SplitInv, [ChunkNext]_chunkVars
  PROVE  SplitInv'
<1>1. StaticOK
  BY DEF SplitInv
<1>2. CASE CutWindow
  BY <1>2, WindowsKeepTheInvariant
<1>3. CASE SplitPage
  <2>1. /\ Effective = "page" /\ cut = NoCut /\ at \in DOMAIN Pages
        /\ Emit(Pages[at][1], Pages[at][2]) /\ at' = at + 1
        /\ UNCHANGED <<text, config, breaks, paged>>
    BY <1>3 DEF SplitPage
  <2>2. Regs = Pages
    BY <2>1 DEF Regs
  <2>3. Layout(Regs)
    BY <1>1, <2>1, RegsAreLaidOut
  <2>4. DOMAIN Regs = 1 .. Len(Regs) /\ Len(Regs) \in Nat
    BY <2>3 DEF Layout
  <2>. DEFINE n == Len(Regs)
  <2>5. at \in 1 .. n
    BY <2>1, <2>2, <2>4
  <2>6. at \in at .. n /\ at + 1 \in (at + 1) .. (at + 1)
    <3>. HIDE DEF n
    <3>1. n \in Nat
      BY <2>4 DEF n
    <3>. QED BY <2>5, <3>1
  <2>7. at' \in (at + 1) .. (at + 1)
    BY <2>1, <2>6
  <2>8. Emit(Regs[at][1], Regs[at][2])
    BY <2>1, <2>2
  <2>. QED BY <2>1, <2>5, <2>6, <2>7, <2>8, RegionsKeepTheInvariant
<1>4. CASE PackUnits
  <2>. DEFINE last == LastFitting(at)
  <2>1. /\ Effective \in {"sentence", "paragraph"} /\ cut = NoCut /\ at \in DOMAIN Units
        /\ Emit(Units[at][1], Units[last][2])
        /\ at' = IF last = Len(Units) THEN last + 1 ELSE NextUnit(at, last)
        /\ UNCHANGED <<text, config, breaks, paged>>
    BY <1>4 DEF PackUnits
  <2>2. /\ Regs = Units /\ Len(Units) \in Nat /\ at \in 1 .. Len(Units) /\ last \in at .. Len(Units)
        /\ last # at => Units[last][2] - Units[at][1] <= config.size
        /\ last # Len(Units) => NextUnit(at, last) \in (at + 1) .. (last + 1)
    BY <1>1, <2>1, UnitsOfAChunk
  <2>. HIDE DEF last
  <2>3. at' \in (at + 1) .. (last + 1)
    <3>1. last + 1 \in (at + 1) .. (last + 1)
      <4>. DEFINE n == Len(Units)
      <4>. HIDE DEF n
      <4>1. n \in Nat /\ at \in 1 .. n /\ last \in at .. n
        BY <2>2 DEF n
      <4>. QED BY <4>1
    <3>. QED BY <2>1, <2>2, <3>1
  <2>4. Effective # "page" /\ Effective # "character"
    BY <2>1
  <2>. QED BY <2>1, <2>2, <2>3, <2>4, RegionsKeepTheInvariant
<1>5. CASE UNCHANGED chunkVars
  <2>1. UNCHANGED <<text, config, breaks, paged>> /\ at' = at /\ spans' = spans /\ cut' = cut
    BY <1>5 DEF chunkVars
  <2>2. Ahead' = Ahead
    BY <2>1, StaticStays DEF Ahead, BeginOf
  <2>3. Frontier' = Frontier
    BY <2>1, <2>2 DEF Frontier
  <2>4. CutOK => CutOK'
    BY <2>1, <2>2, StaticStays DEF CutOK, OnOnePage, Solid, Char
  <2>. QED BY <2>1, <2>3, <2>4, SpansStay, StaticStays DEF SplitInv
<1>. QED BY <1>2, <1>3, <1>4, <1>5 DEF ChunkNext

LEMMA SplitInvIsEnough ==
  ASSUME SplitInv
  PROVE  ChunksCoverTheText
<1>. DEFINE n == Len(spans)
<1>1. StaticOK /\ Size \in Nat /\ SpansOK(spans) /\ CoveredTo(spans, Frontier)
  BY TextFacts DEF SplitInv, StaticOK
<1>2. /\ spans \in Seq(Int \X Int) /\ \A k \in 1 .. n : SpanOK(spans[k])
      /\ \A k \in 2 .. n : spans[k - 1][1] < spans[k][1]
  BY <1>1 DEF SpansOK
<1>3. DOMAIN spans = 1 .. n /\ n \in Nat
  BY <1>2
<1>. HIDE DEF n
<1>4. ASSUME Chunked
      PROVE  Solid(0, Size) \subseteq UNION {span[1] .. (span[2] - 1) : span \in ToSet(spans)}
  <2>1. cut = NoCut
    BY <1>4 DEF Chunked
  <2>2. Frontier = Size
    <3>1. CASE Effective = "character"
      BY <2>1, <3>1 DEF Frontier, Ahead
    <3>2. CASE Effective # "character"
      <4>1. Layout(Regs) /\ at > Len(Regs)
        BY <1>1, <1>4, <3>2, RegsAreLaidOut DEF Chunked, Regs
      <4>2. Len(Regs) \in Nat /\ at \in Nat
        BY <4>1 DEF Layout, SplitInv
      <4>3. ~ (at \in 1 .. Len(Regs))
        <5>. DEFINE m == Len(Regs)
        <5>. HIDE DEF m
        <5>1. m \in Nat /\ at \in Nat /\ at > m
          BY <4>1, <4>2 DEF m
        <5>2. ~ (at \in 1 .. m)
          BY <5>1
        <5>. QED BY <5>2 DEF m
      <4>. QED BY <2>1, <3>2, <4>3 DEF Frontier, Ahead, BeginOf
    <3>. QED BY <3>1, <3>2
  <2>3. ASSUME NEW i \in Solid(0, Size)
        PROVE  i \in UNION {span[1] .. (span[2] - 1) : span \in ToSet(spans)}
    <3>1. i \in Int /\ i < Size
      BY <1>1, SolidIs
    <3>2. Within(spans, i)
      BY <1>1, <2>2, <3>1 DEF CoveredTo
    <3>3. PICK k \in 1 .. n : spans[k][1] <= i /\ i < spans[k][2]
      BY <3>2 DEF Within, n
    <3>4. k \in DOMAIN spans /\ spans[k] \in Int \X Int /\ spans[k] \in ToSet(spans)
      <4>1. k \in DOMAIN spans
        BY <1>3
      <4>2. spans[k] \in Int \X Int
        BY <1>2, <4>1
      <4>3. spans[k] \in ToSet(spans)
        BY <4>1 DEF ToSet
      <4>. QED BY <4>1, <4>2, <4>3
    <3>5. spans[k][1] \in Int /\ spans[k][2] \in Int
      BY <3>4
    <3>6. i \in spans[k][1] .. (spans[k][2] - 1)
      BY <3>1, <3>3, <3>5
    <3>. QED BY <3>4, <3>6
  <2>. QED BY <2>3
<1>5. ASSUME NEW k \in DOMAIN spans
      PROVE  LET span == spans[k]
             IN  /\ 0 <= span[1] /\ span[1] < span[2] /\ span[2] <= Size
                 /\ Char(span[1]) # Blank /\ Char(span[2] - 1) # Blank
                 /\ span[2] - span[1] <= config.size
                 /\ k > 1 => spans[k - 1][1] < span[1]
                 /\ Effective = "page" => Cardinality(PagesOf(span)) = 1
  <2>. DEFINE span == spans[k]
  <2>1. k \in 1 .. n /\ SpanOK(span) /\ span \in Int \X Int
    BY <1>2, <1>3
  <2>2. k > 1 => spans[k - 1][1] < span[1]
    <3>1. k > 1 => k \in 2 .. n
      BY <1>3, <2>1
    <3>. QED BY <1>2, <3>1
  <2>. HIDE DEF span
  <2>3. /\ 0 <= span[1] /\ span[1] < span[2] /\ span[2] <= Size
        /\ Char(span[1]) # Blank /\ Char(span[2] - 1) # Blank
        /\ span[2] - span[1] <= config.size
        /\ OnOnePage(span[1], span[2]) /\ span[1] \in Int /\ span[2] \in Int
    BY <2>1 DEF SpanOK
  <2>4. ASSUME Effective = "page" PROVE Cardinality(PagesOf(span)) = 1
    <3>1. Layout(Pages)
      BY <1>1, <2>4, RegsAreLaidOut DEF Regs
    <3>2. PICK p \in 1 .. Len(Pages) : Pages[p][1] <= span[1] /\ span[2] <= Pages[p][2]
      BY <2>3, <2>4 DEF OnOnePage
    <3>3. /\ DOMAIN Pages = 1 .. Len(Pages) /\ Len(Pages) \in Nat
          /\ \A q \in 1 .. Len(Pages) : Pages[q][1] \in Int /\ Pages[q][2] \in Int
      BY <3>1 DEF Layout
    <3>4. p \in PagesOf(span)
      <4>1. Pages[p][1] < span[2] /\ Pages[p][2] > span[1]
        BY <2>3, <3>2, <3>3
      <4>. QED BY <3>3, <4>1 DEF PagesOf
    <3>5. ASSUME NEW q \in PagesOf(span) PROVE q = p
      <4>1. q \in 1 .. Len(Pages) /\ Pages[q][1] < span[2] /\ Pages[q][2] > span[1]
        BY <3>3 DEF PagesOf
      <4>2. Pages[q][1] \in Int /\ Pages[q][2] \in Int /\ Pages[p][1] \in Int /\ Pages[p][2] \in Int
        BY <3>3, <4>1
      <4>3. ~ (q < p)
        <5>. SUFFICES ASSUME q < p PROVE FALSE
          OBVIOUS
        <5>1. Pages[q][2] <= Pages[p][1]
          BY <3>1, <4>1, RegionsAreApart
        <5>. QED BY <2>3, <3>2, <4>1, <4>2, <5>1
      <4>4. ~ (p < q)
        <5>. SUFFICES ASSUME p < q PROVE FALSE
          OBVIOUS
        <5>1. Pages[p][2] <= Pages[q][1]
          BY <3>1, <4>1, RegionsAreApart
        <5>. QED BY <2>3, <3>2, <4>1, <4>2, <5>1
      <4>. DEFINE m == Len(Pages)
      <4>5. q \in 1 .. m /\ p \in 1 .. m
        BY <4>1
      <4>. HIDE DEF m
      <4>. QED BY <4>3, <4>4, <4>5
    <3>6. PagesOf(span) = {p}
      BY <3>4, <3>5
    <3>. QED BY <3>6, FS_Singleton
  <2>. QED BY <2>2, <2>3, <2>4 DEF span
<1>. QED BY <1>4, <1>5 DEF ChunksCoverTheText

\* Splitting loses nothing and can be located, for every normalized text, every size and
\* overlap the code lets through and every placement of pages or paragraphs.
THEOREM TextIsCovered == ChunkSpec => []ChunksCoverTheText
<1>1. ChunkInit => SplitInv
  BY SplitInvInitially
<1>2. SplitInv /\ [ChunkNext]_chunkVars => SplitInv'
  BY SplitInvStays
<1>3. SplitInv => ChunksCoverTheText
  BY SplitInvIsEnough
<1>. QED BY <1>1, <1>2, <1>3, PTL DEF ChunkSpec
=============================================================================
