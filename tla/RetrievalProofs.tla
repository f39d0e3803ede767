-------------------------- MODULE RetrievalProofs --------------------------
(***************************************************************************)
(* Theorems about the two ways to find passages: RetrievalModes first, the *)
(* high-precision pipeline after it. A ranking of S is a sequence of       *)
(* entries of S that holds nothing twice (Rankings); what orders, cuts,    *)
(* fuses, merges or thins rankings of S makes a ranking of S.              *)
(***************************************************************************)
EXTENDS RetrievalModes, PrecisionPipeline, FiniteInduction

-----------------------------------------------------------------------------
\* Scores.
TypeOfBase == base \in [Passages -> PassageKinds]
WordsOf(p) == ToSet(base[p].words)

LEMMA PassagesAreFinite == IsFiniteSet(Passages) /\ Cardinality(Passages) = PassageCount
<1>1. PassageCount \in Nat
  BY RetrievalAssumption
<1>. QED BY <1>1, FS_Interval DEF Passages

LEMMA TextOfAPassage ==
  ASSUME TypeOfBase, NEW p \in Passages
  PROVE  /\ base[p].words \in Seq(WordsOf(p)) /\ Len(base[p].words) \in Nat
         /\ IsFiniteSet(WordsOf(p))
<1>1. base[p] \in PassageKinds
  BY DEF TypeOfBase
<1>2. base[p].words \in Seq(WordsOf(p))
  BY <1>1, RetrievalAssumption DEF WordsOf
<1>. QED BY <1>2, FiniteLists DEF WordsOf

LEMMA TimesIsANumber ==
  ASSUME NEW W, NEW words \in Seq(W), NEW w
  PROVE  Times(w, words) \in Nat
<1>1. IsFiniteSet(DOMAIN words)
  BY FiniteLists
<1>2. IsFiniteSet({i \in DOMAIN words : words[i] = w})
  BY <1>1, FS_Subset
<1>. QED BY <1>2, FS_CardinalityType DEF Times

LEMMA ScoreIs ==
  ASSUME TypeOfBase, NEW W, NEW question, NEW words \in Seq(W), NEW p \in Passages, NEW boost \in Nat
  PROVE  /\ Score(question, words, p, boost) \in Nat
         /\ Score(question, words, p, boost) > 0 => ToSet(words) \cap WordsOf(p) # {}
<1>. DEFINE text == base[p].words
            shared == ToSet(words) \cap ToSet(text)
            exact == \E k \in 0 .. (Len(text) - Len(question)) :
                       SubSeq(text, k + 1, k + Len(question)) = question
            common == SumOf([w \in shared |-> Times(w, text) * Times(w, words)])
            covers == (3000 * Cardinality(shared)) \div Cardinality(ToSet(words))
            bonus == IF exact THEN 2000 ELSE 0
            titled == IF shared \cap base[p].title # {} THEN 500 ELSE 0
            norm == LengthNorm(Len(text))
<1>1. shared = ToSet(words) \cap WordsOf(p)
  BY DEF WordsOf
<1>2. Score(question, words, p, boost) =
        IF shared = {} THEN 0 ELSE ((common * norm + covers + bonus + titled) * boost) \div 10
  BY DEF Score
<1>3. CASE shared = {}
  BY <1>2, <1>3
<1>4. CASE shared # {}
  <2>1. text \in Seq(WordsOf(p)) /\ Len(text) \in Nat
    BY TextOfAPassage
  <2>2. IsFiniteSet(ToSet(words)) /\ IsFiniteSet(shared) /\ shared \subseteq ToSet(words)
    BY FiniteLists, FS_Subset
  <2>3. Cardinality(shared) \in Nat /\ Cardinality(ToSet(words)) \in Nat \ {0}
    BY <1>4, <2>2, FS_CardinalityType, FS_EmptySet
  <2>4. common \in Nat
    <3>. DEFINE f == [w \in shared |-> Times(w, text) * Times(w, words)]
    <3>1. DOMAIN f = shared
      OBVIOUS
    <3>2. ASSUME NEW w \in shared PROVE f[w] \in Nat
      <4>1. Times(w, text) \in Nat /\ Times(w, words) \in Nat
        BY <2>1, TimesIsANumber
      <4>. HIDE DEF text, shared
      <4>2. f[w] = Times(w, text) * Times(w, words)
        OBVIOUS
      <4>. QED BY <4>1, <4>2
    <3>. HIDE DEF f, shared
    <3>3. SumOf(f) \in Nat
      BY <2>2, <3>1, <3>2, SumNat
    <3>. QED BY <3>3 DEF f
  <2>5. norm \in Nat
    BY <2>1 DEF LengthNorm
  <2>6. covers \in Nat
    <3>. DEFINE c == Cardinality(shared)
                d == Cardinality(ToSet(words))
    <3>1. c \in Nat /\ d \in Nat \ {0}
      BY <2>3
    <3>. HIDE DEF c, d
    <3>2. (3000 * c) \div d \in Nat
      BY <3>1
    <3>. QED BY <3>2 DEF c, d
  <2>7. bonus \in Nat /\ titled \in Nat
    <3>. HIDE DEF exact, shared
    <3>. QED OBVIOUS
  <2>. HIDE DEF common, norm, covers, bonus, titled
  <2>8. common * norm \in Nat
    BY <2>4, <2>5
  <2>9. (common * norm + covers + bonus + titled) * boost \in Nat
    BY <2>6, <2>7, <2>8
  <2>10. ((common * norm + covers + bonus + titled) * boost) \div 10 \in Nat
    BY <2>9
  <2>. HIDE DEF shared
  <2>11. Score(question, words, p, boost) = ((common * norm + covers + bonus + titled) * boost) \div 10
    BY <1>2, <1>4
  <2>. QED BY <1>1, <1>4, <2>10, <2>11
<1>. QED BY <1>3, <1>4

-----------------------------------------------------------------------------
\* What words find.
LEMMA HitsAre ==
  ASSUME NEW score, \A p \in Passages : score[p] \in Int, NEW n \in Nat
  PROVE  /\ Hits(score, n) \in Rankings({p \in Passages : score[p] > 0})
         /\ Len(Hits(score, n)) <= n
         /\ \A i \in 1 .. Len(Hits(score, n)) : Hits(score, n)[i].score = score[Hits(score, n)[i].p]
         /\ \A i, j \in 1 .. Len(Hits(score, n)) :
              i < j => Hits(score, n)[i].score >= Hits(score, n)[j].score
         /\ \A m \in Nat : 1 <= m /\ 1 <= n /\ Hits(score, n) # << >> =>
              Hits(score, m) # << >> /\ Hits(score, m)[1] = Hits(score, n)[1]
<1>. DEFINE found == {p \in Passages : score[p] > 0}
            r == Ranked(found, score, InChunkOrder)
            h == Hits(score, n)
<1>1. IsFiniteSet(found) /\ found \subseteq Passages
  BY PassagesAreFinite, FS_Subset
<1>2. \A x \in found : score[x] \in Int /\ x \in Int /\ InChunkOrder[x] = x
  BY RetrievalAssumption DEF InChunkOrder, Passages
<1>. HIDE DEF found
<1>3. RankedBy(r, found, score, InChunkOrder)
  BY <1>1, <1>2, RankedIs
<1>. HIDE DEF r
<1>4. /\ r \in Rankings(found) /\ \A i \in 1 .. Len(r) : r[i].score = score[r[i].p]
      /\ \A i, j \in 1 .. Len(r) : i < j =>
           score[r[i].p] > score[r[j].p] \/ score[r[i].p] = score[r[j].p]
  BY <1>3 DEF RankedBy
<1>5. \A m : Hits(score, m) = Take(r, m)
  BY DEF Hits, r, found
<1>6. /\ Len(r) \in Nat
      /\ \A i \in 1 .. Len(r) : r[i].p \in found /\ r[i].score \in Int
  BY <1>4, RankingFacts
<1>7. \A m \in Nat : /\ Take(r, m) \in Rankings(found)
                     /\ Len(Take(r, m)) = (IF m <= Len(r) THEN m ELSE Len(r))
                     /\ \A i \in 1 .. Len(Take(r, m)) : i \in 1 .. Len(r) /\ Take(r, m)[i] = r[i]
  BY <1>4, TakeKeepsRankings
<1>8. /\ h = Take(r, n) /\ h \in Rankings(found)
      /\ Len(h) = (IF n <= Len(r) THEN n ELSE Len(r))
      /\ \A i \in 1 .. Len(h) : i \in 1 .. Len(r) /\ h[i] = r[i]
  BY <1>5, <1>7
<1>. HIDE DEF h
<1>9. Len(h) <= n /\ Len(h) \in Nat
  BY <1>6, <1>8
<1>10. \A i \in 1 .. Len(h) : h[i].score = score[h[i].p]
  BY <1>4, <1>8
<1>11. ASSUME NEW i \in 1 .. Len(h), NEW j \in 1 .. Len(h), i < j
       PROVE  h[i].score >= h[j].score
  <2>1. i \in 1 .. Len(r) /\ j \in 1 .. Len(r) /\ h[i] = r[i] /\ h[j] = r[j]
    BY <1>8
  <2>2. r[i].score \in Int /\ r[j].score \in Int
        /\ r[i].score = score[r[i].p] /\ r[j].score = score[r[j].p]
    BY <1>4, <1>6, <2>1
  <2>3. r[i].score > r[j].score \/ r[i].score = r[j].score
    BY <1>4, <1>11, <2>1, <2>2
  <2>. QED BY <2>1, <2>2, <2>3
<1>12. ASSUME NEW m \in Nat, 1 <= m, 1 <= n, h # << >>
       PROVE  Hits(score, m) # << >> /\ Hits(score, m)[1] = h[1]
  <2>. DEFINE g == Hits(score, m)
              k == Len(r)
  <2>1. /\ g = Take(r, m) /\ g \in Rankings(found) /\ Len(g) = (IF m <= k THEN m ELSE k)
        /\ \A i \in 1 .. Len(g) : g[i] = r[i]
    BY <1>5, <1>7
  <2>2. k \in Nat /\ Len(h) = (IF n <= k THEN n ELSE k)
    BY <1>6, <1>8
  <2>3. Len(h) # 0 /\ Len(h) \in Nat
    BY <1>8, <1>9, <1>12, RankingFacts, EmptySeq
  <2>. HIDE DEF g, k
  <2>4. Len(h) >= 1 /\ Len(g) >= 1 /\ Len(g) \in Nat
    BY <1>12, <2>1, <2>2, <2>3
  <2>5. h[1] = r[1] /\ g[1] = r[1]
    BY <1>8, <1>9, <2>1, <2>4
  <2>6. g # << >>
    BY <2>4
  <2>. QED BY <2>5, <2>6 DEF g
<1>. QED BY <1>8, <1>9, <1>10, <1>11, <1>12 DEF h, found

\* The passages that share a word with a set of words.
Sharing(W) == {p \in Passages : WordsOf(p) \cap W # {}}

LEMMA SharingGrows ==
  ASSUME NEW W, NEW V \in SUBSET W
  PROVE  Sharing(V) \subseteq Sharing(W) /\ Sharing(W) \subseteq Passages
  BY DEF Sharing

LEMMA ScoredHits ==
  ASSUME TypeOfBase, NEW W, NEW words \in Seq(W), NEW question, NEW boost,
         \A p \in Passages : boost[p] \in Nat, NEW n \in Nat, NEW score,
         score = [p \in Passages |-> Score(question, words, p, boost[p])]
  PROVE  Hits(score, n) \in Rankings(Sharing(W)) /\ \A p \in Passages : score[p] \in Nat
<1>1. ASSUME NEW p \in Passages PROVE score[p] \in Nat /\ (score[p] > 0 => p \in Sharing(W))
  <2>1. ToSet(words) \subseteq W
    BY FiniteLists
  <2>2. /\ Score(question, words, p, boost[p]) \in Nat
        /\ Score(question, words, p, boost[p]) > 0 => ToSet(words) \cap WordsOf(p) # {}
    BY ScoreIs
  <2>. QED BY <2>1, <2>2 DEF Sharing
<1>2. Hits(score, n) \in Rankings({p \in Passages : score[p] > 0})
  <2>1. \A p \in Passages : score[p] \in Int
    BY <1>1
  <2>. QED BY <2>1, HitsAre
<1>3. {p \in Passages : score[p] > 0} \subseteq Sharing(W)
  BY <1>1
<1>. QED BY <1>1, <1>2, <1>3, RankingsGrow

LEMMA HybridIs ==
  ASSUME TypeOfBase, NEW W, NEW words \in Seq(W), NEW n \in Nat
  PROVE  Hybrid(words, n) \in Rankings(Sharing(W)) /\ Len(Hybrid(words, n)) <= n
<1>. DEFINE boost == [p \in Passages |-> 10]
            score == [p \in Passages |-> Score(words, words, p, 10)]
<1>1. score = [p \in Passages |-> Score(words, words, p, boost[p])]
      /\ \A p \in Passages : boost[p] \in Nat
  OBVIOUS
<1>2. Hybrid(words, n) = Hits(score, n)
  BY DEF Hybrid
<1>. HIDE DEF score, boost
<1>3. Hits(score, n) \in Rankings(Sharing(W)) /\ \A p \in Passages : score[p] \in Nat
  BY <1>1, ScoredHits
<1>4. \A p \in Passages : score[p] \in Int
  BY <1>3
<1>5. Len(Hits(score, n)) <= n
  BY <1>4, HitsAre
<1>. QED BY <1>2, <1>3, <1>5

\* The first results do not depend on how many are asked for.
LEMMA HybridBegins ==
  ASSUME TypeOfBase, NEW W, NEW words \in Seq(W), NEW n \in Nat, NEW m \in Nat, 1 <= n, 1 <= m,
         Hybrid(words, n) # << >>
  PROVE  Hybrid(words, m) # << >> /\ Hybrid(words, m)[1] = Hybrid(words, n)[1]
<1>. DEFINE boost == [p \in Passages |-> 10]
            score == [p \in Passages |-> Score(words, words, p, 10)]
<1>1. score = [p \in Passages |-> Score(words, words, p, boost[p])]
      /\ \A p \in Passages : boost[p] \in Nat
  OBVIOUS
<1>2. \A k : Hybrid(words, k) = Hits(score, k)
  BY DEF Hybrid
<1>. HIDE DEF score, boost
<1>3. \A p \in Passages : score[p] \in Nat
  BY <1>1, ScoredHits
<1>4. \A p \in Passages : score[p] \in Int
  BY <1>3
<1>5. Hits(score, n) # << >> => Hits(score, m) # << >> /\ Hits(score, m)[1] = Hits(score, n)[1]
  BY <1>4, HitsAre
<1>. QED BY <1>2, <1>5

LEMMA UniqueIs ==
  ASSUME NEW W, NEW words \in Seq(W)
  PROVE  Unique(words) \in Seq(W)
<1>. DEFINE S == {i \in DOMAIN words : \A j \in 1 .. (i - 1) : words[j] # words[i]}
            d == Distinct(words)
            n == Cardinality(S)
<1>1. Len(words) \in Nat /\ DOMAIN words = 1 .. Len(words) /\ IsFiniteSet(DOMAIN words)
      /\ \A i \in 1 .. Len(words) : words[i] \in W
  BY FiniteLists
<1>2. IsFiniteSet(S) /\ S \in SUBSET Int /\ S \subseteq DOMAIN words
  BY <1>1, FS_Subset
<1>3. d = Ascending(S)
  BY DEF Distinct
<1>. HIDE DEF S, d
<1>4. n \in Nat /\ d \in [1 .. n -> S]
  BY <1>2, <1>3, AscendingRises
<1>. HIDE DEF n
<1>5. Unique(words) = [k \in DOMAIN d |-> words[d[k]]]
  BY DEF Unique, d
<1>6. \A k \in 1 .. n : words[d[k]] \in W
  BY <1>1, <1>2, <1>4
<1>7. Unique(words) \in [1 .. n -> W]
  BY <1>4, <1>5, <1>6
<1>. QED BY <1>4, <1>7

LEMMA VariantsAre ==
  ASSUME NEW W, NEW words \in Seq(W)
  PROVE  Variants(words) \in Seq(Seq(W))
<1>. DEFINE unique == Unique(words)
            first == IF unique = << >> THEN << >> ELSE <<unique>>
            more == IF Len(unique) > 2 THEN <<Reverse(unique), Take(unique, 3)>> ELSE << >>
            all == <<words>> \o first \o more
<1>1. unique \in Seq(W) /\ Len(unique) \in Nat
  BY UniqueIs
<1>2. Variants(words) = Unique(all)
  BY DEF Variants
<1>. HIDE DEF unique
<1>3. Reverse(unique) \in Seq(W)
  BY <1>1 DEF Reverse
<1>4. Take(unique, 3) \in Seq(W)
  BY <1>1, TakeIs
<1>5. first \in Seq(Seq(W)) /\ more \in Seq(Seq(W)) /\ <<words>> \in Seq(Seq(W))
  BY <1>1, <1>3, <1>4
<1>. HIDE DEF first, more
<1>6. all \in Seq(Seq(W))
  BY <1>5
<1>. HIDE DEF all
<1>. QED BY <1>2, <1>6, UniqueIs

-----------------------------------------------------------------------------
\* Fusion.
ValueOf(lists) == [p \in Met(lists) |-> SumOf([x \in Places(lists, p) |-> 1000000 \div (60 + x[2])])]

LEMMA RankingsFit ==
  ASSUME NEW r \in Rankings(Passages)
  PROVE  \A i \in 1 .. Len(r) : i \in Passages
<1>. DEFINE n == Len(r)
            f == [i \in 1 .. n |-> r[i].p]
<1>1. n \in Nat /\ \A i \in 1 .. n : r[i].p \in Passages
  BY RankingFacts
<1>2. \A i, j \in 1 .. n : r[i].p = r[j].p => i = j
  BY RankingFacts
<1>. HIDE DEF n
<1>3. f \in [1 .. n -> Passages] /\ \A i, j \in 1 .. n : f[i] = f[j] => i = j
  BY <1>1, <1>2
<1>. HIDE DEF f
<1>4. n <= PassageCount
  BY <1>1, <1>3, NoMoreThanPlaces, PassagesAreFinite
<1>5. PassageCount \in Nat
  BY RetrievalAssumption
<1>6. \A i \in 1 .. n : i \in 1 .. PassageCount
  BY <1>1, <1>4, <1>5
<1>. QED BY <1>6 DEF n, Passages

\* A number of two digits has them only.
LEMMA TwoDigits ==
  ASSUME NEW n \in Nat, NEW a \in Nat, NEW b \in Nat, NEW c \in 1 .. n, NEW d \in 1 .. n
  PROVE  /\ a * (n + 1) + c \in Nat
         /\ a * (n + 1) + c = b * (n + 1) + d => a = b /\ c = d
         /\ a < b => a * (n + 1) + c < b * (n + 1) + d
<1>1. ASSUME NEW x \in Nat, NEW y \in Nat, NEW z \in 1 .. n, NEW t \in 1 .. n, x < y
      PROVE  x * (n + 1) + z < y * (n + 1) + t
  <2>1. x + 1 <= y /\ (x + 1) * (n + 1) <= y * (n + 1)
    BY <1>1
  <2>2. (x + 1) * (n + 1) = x * (n + 1) + n + 1
    OBVIOUS
  <2>3. x * (n + 1) \in Nat /\ y * (n + 1) \in Nat
    OBVIOUS
  <2>. QED BY <2>1, <2>2, <2>3
<1>2. a * (n + 1) \in Nat
  OBVIOUS
<1>3. a * (n + 1) + c = b * (n + 1) + d => ~ (a < b) /\ ~ (b < a)
  BY <1>1, <1>2
<1>4. a * (n + 1) + c = b * (n + 1) + d => a = b /\ c = d
  BY <1>2, <1>3
<1>. QED BY <1>1, <1>2, <1>4

LEMMA PlacesAre ==
  ASSUME NEW S \in SUBSET Passages, NEW lists \in Seq(Rankings(S)), NEW p
  PROVE  /\ IsFiniteSet(Places(lists, p))
         /\ \A x \in Places(lists, p) :
              /\ x[1] \in 1 .. Len(lists) /\ x[1] \in Nat /\ x[2] \in Passages
              /\ x[2] \in 1 .. Len(lists[x[1]]) /\ lists[x[1]][x[2]].p = p /\ x = <<x[1], x[2]>>
         /\ \A k \in 1 .. Len(lists) : \A i \in 1 .. Len(lists[k]) :
              lists[k][i].p = p => <<k, i>> \in Places(lists, p)
<1>1. /\ Len(lists) \in Nat /\ DOMAIN lists = 1 .. Len(lists) /\ IsFiniteSet(DOMAIN lists)
      /\ \A k \in 1 .. Len(lists) : lists[k] \in Rankings(S)
  BY FiniteLists
<1>2. \A k \in 1 .. Len(lists) : /\ DOMAIN lists[k] = 1 .. Len(lists[k])
                                 /\ \A i \in 1 .. Len(lists[k]) : i \in Passages
  BY <1>1, RankingFacts, RankingsGrow, RankingsFit
<1>3. IsFiniteSet((DOMAIN lists) \X Passages)
  BY <1>1, PassagesAreFinite, FS_Product
<1>4. Places(lists, p) \subseteq (DOMAIN lists) \X Passages
  BY DEF Places
<1>5. IsFiniteSet(Places(lists, p))
  BY <1>3, <1>4, FS_Subset
<1>6. ASSUME NEW x \in Places(lists, p)
      PROVE  /\ x[1] \in 1 .. Len(lists) /\ x[1] \in Nat /\ x[2] \in Passages
             /\ x[2] \in 1 .. Len(lists[x[1]]) /\ lists[x[1]][x[2]].p = p /\ x = <<x[1], x[2]>>
  <2>1. x \in (DOMAIN lists) \X Passages /\ x[2] \in DOMAIN lists[x[1]] /\ lists[x[1]][x[2]].p = p
    BY DEF Places
  <2>2. x[1] \in DOMAIN lists /\ x[2] \in Passages /\ x = <<x[1], x[2]>>
    BY <2>1
  <2>. QED BY <1>1, <1>2, <2>1, <2>2
<1>7. ASSUME NEW k \in 1 .. Len(lists), NEW i \in 1 .. Len(lists[k]), lists[k][i].p = p
      PROVE  <<k, i>> \in Places(lists, p)
  <2>1. <<k, i>> \in (DOMAIN lists) \X Passages /\ i \in DOMAIN lists[k]
    BY <1>1, <1>2
  <2>. QED BY <1>7, <2>1 DEF Places
<1>. QED BY <1>5, <1>6, <1>7

Code(x) == x[1] * (PassageCount + 1) + x[2]

LEMMA MetIs ==
  ASSUME NEW S \in SUBSET Passages, NEW lists \in Seq(Rankings(S))
  PROVE  /\ Met(lists) \subseteq S /\ IsFiniteSet(Met(lists))
         /\ \A p \in Met(lists) : Places(lists, p) # {}
         /\ \A k \in 1 .. Len(lists) : \A i \in 1 .. Len(lists[k]) : lists[k][i].p \in Met(lists)
<1>1. /\ Len(lists) \in Nat /\ DOMAIN lists = 1 .. Len(lists)
      /\ \A k \in 1 .. Len(lists) : lists[k] \in Rankings(S)
  BY FiniteLists
<1>2. \A k \in 1 .. Len(lists) :
        /\ \A p \in Members(lists[k]) : p \in S /\ \E i \in 1 .. Len(lists[k]) : lists[k][i].p = p
        /\ \A i \in 1 .. Len(lists[k]) : lists[k][i].p \in Members(lists[k])
  BY <1>1, RankingFacts
<1>3. ASSUME NEW p \in Met(lists) PROVE p \in S /\ Places(lists, p) # {}
  <2>1. PICK k \in 1 .. Len(lists) : p \in Members(lists[k])
    BY <1>1 DEF Met
  <2>2. p \in S /\ \E i \in 1 .. Len(lists[k]) : lists[k][i].p = p
    BY <1>2, <2>1
  <2>. QED BY <2>2, PlacesAre
<1>4. \A k \in 1 .. Len(lists) : \A i \in 1 .. Len(lists[k]) : lists[k][i].p \in Met(lists)
  BY <1>1, <1>2 DEF Met
<1>5. IsFiniteSet(Met(lists))
  BY <1>3, PassagesAreFinite, FS_Subset
<1>. QED BY <1>3, <1>4, <1>5

LEMMA FirstMetIs ==
  ASSUME NEW S \in SUBSET Passages, NEW lists \in Seq(Rankings(S))
  PROVE  /\ \A p \in Met(lists) :
              /\ FirstMet(lists)[p] \in Int
              /\ \E x \in Places(lists, p) : FirstMet(lists)[p] = Code(x)
              /\ \A x \in Places(lists, p) : FirstMet(lists)[p] <= Code(x) /\ Code(x) \in Nat
         /\ \A p, q \in Met(lists) : FirstMet(lists)[p] = FirstMet(lists)[q] => p = q
<1>1. ASSUME NEW p \in Met(lists)
      PROVE  /\ FirstMet(lists)[p] \in Int
             /\ \E x \in Places(lists, p) : FirstMet(lists)[p] = Code(x)
             /\ \A x \in Places(lists, p) : FirstMet(lists)[p] <= Code(x) /\ Code(x) \in Nat
  <2>. DEFINE C == {Code(x) : x \in Places(lists, p)}
  <2>1. FirstMet(lists)[p] = Min(C)
    BY DEF FirstMet, Code
  <2>2. ASSUME NEW x \in Places(lists, p) PROVE Code(x) \in Nat
    <3>1. x[1] \in Nat /\ x[2] \in 1 .. PassageCount
      BY PlacesAre DEF Passages
    <3>2. PassageCount \in Nat
      BY RetrievalAssumption
    <3>. QED BY <3>1, <3>2, TwoDigits DEF Code
  <2>3. C # {} /\ C \in SUBSET Nat
    BY <2>2, MetIs
  <2>4. Min(C) \in C /\ \A k \in C : Min(C) <= k
    BY <2>3, LeastIsMin
  <2>5. Min(C) \in Int
    BY <2>3, <2>4
  <2>. QED BY <2>1, <2>2, <2>4, <2>5
<1>2. ASSUME NEW p \in Met(lists), NEW q \in Met(lists), FirstMet(lists)[p] = FirstMet(lists)[q]
      PROVE  p = q
  <2>1. PICK x \in Places(lists, p) : FirstMet(lists)[p] = Code(x)
    BY <1>1
  <2>2. PICK y \in Places(lists, q) : FirstMet(lists)[q] = Code(y)
    BY <1>1
  <2>3. /\ x[1] \in Nat /\ x[2] \in 1 .. PassageCount /\ lists[x[1]][x[2]].p = p
        /\ y[1] \in Nat /\ y[2] \in 1 .. PassageCount /\ lists[y[1]][y[2]].p = q
    BY PlacesAre DEF Passages
  <2>4. PassageCount \in Nat
    BY RetrievalAssumption
  <2>5. x[1] * (PassageCount + 1) + x[2] = y[1] * (PassageCount + 1) + y[2]
    BY <1>2, <2>1, <2>2 DEF Code
  <2>. DEFINE a == x[1]
              b == y[1]
              c == x[2]
              d == y[2]
              m == PassageCount
  <2>6. /\ m \in Nat /\ a \in Nat /\ b \in Nat /\ c \in 1 .. m /\ d \in 1 .. m
        /\ a * (m + 1) + c = b * (m + 1) + d
    BY <2>3, <2>4, <2>5
  <2>. HIDE DEF a, b, c, d, m
  <2>7. a = b /\ c = d
    BY <2>6, TwoDigits
  <2>8. x[1] = y[1] /\ x[2] = y[2]
    BY <2>7 DEF a, b, c, d
  <2>. QED BY <2>3, <2>8
<1>. QED BY <1>1, <1>2

LEMMA ValuesAre ==
  ASSUME NEW S \in SUBSET Passages, NEW lists \in Seq(Rankings(S)), NEW p \in Met(lists)
  PROVE  /\ ValueOf(lists)[p] \in Nat
         /\ \A x \in Places(lists, p) : ValueOf(lists)[p] >= 1000000 \div (60 + x[2])
         /\ \A x : Places(lists, p) = {x} => ValueOf(lists)[p] = 1000000 \div (60 + x[2])
<1>. DEFINE f == [x \in Places(lists, p) |-> 1000000 \div (60 + x[2])]
<1>1. ValueOf(lists)[p] = SumOf(f)
  BY DEF ValueOf
<1>2. DOMAIN f = Places(lists, p) /\ IsFiniteSet(DOMAIN f)
  BY PlacesAre
<1>3. ASSUME NEW x \in Places(lists, p) PROVE f[x] \in Nat
  <2>1. x[2] \in Nat
    BY PlacesAre DEF Passages
  <2>2. 1000000 \div (60 + x[2]) \in Nat
    BY <2>1
  <2>. QED BY <2>2
<1>4. \A x \in Places(lists, p) : f[x] = 1000000 \div (60 + x[2])
  OBVIOUS
<1>. HIDE DEF f
<1>5. SumOf(f) \in Nat
  BY <1>2, <1>3, SumNat
<1>6. \A x \in Places(lists, p) : SumOf(f) >= f[x]
  BY <1>2, <1>3, SumAtLeast
<1>7. ASSUME NEW x, Places(lists, p) = {x} PROVE SumOf(f) = 1000000 \div (60 + x[2])
  <2>1. DOMAIN f = {x} /\ f[x] \in Int
    BY <1>2, <1>3, <1>7
  <2>. QED BY <1>4, <1>7, <2>1, SumOfOne
<1>. QED BY <1>1, <1>4, <1>5, <1>6, <1>7

LEMMA FusedRanksAre ==
  ASSUME NEW S \in SUBSET Passages, NEW lists \in Seq(Rankings(S)), NEW n \in Nat
  PROVE  /\ RankedBy(Ranked(Met(lists), ValueOf(lists), FirstMet(lists)),
                     Met(lists), ValueOf(lists), FirstMet(lists))
         /\ FusedRanks(lists, n) = Take(Ranked(Met(lists), ValueOf(lists), FirstMet(lists)), n)
         /\ FusedRanks(lists, n) \in Rankings(S) /\ Len(FusedRanks(lists, n)) <= n
<1>. DEFINE r == Ranked(Met(lists), ValueOf(lists), FirstMet(lists))
<1>1. IsFiniteSet(Met(lists)) /\ Met(lists) \in SUBSET S
  BY MetIs
<1>2. \A p \in Met(lists) : ValueOf(lists)[p] \in Int
  <2>1. \A p \in Met(lists) : ValueOf(lists)[p] \in Nat
    BY ValuesAre
  <2>. QED BY <2>1
<1>3. /\ \A p \in Met(lists) : FirstMet(lists)[p] \in Int
      /\ \A p, q \in Met(lists) : FirstMet(lists)[p] = FirstMet(lists)[q] => p = q
  BY FirstMetIs
<1>4. RankedBy(r, Met(lists), ValueOf(lists), FirstMet(lists))
  BY <1>1, <1>2, <1>3, RankedIs
<1>5. FusedRanks(lists, n) = Take(r, n)
  BY DEF FusedRanks, ValueOf
<1>. HIDE DEF r
<1>6. r \in Rankings(Met(lists)) /\ Len(r) \in Nat
  BY <1>4, RankingFacts DEF RankedBy
<1>7. Take(r, n) \in Rankings(Met(lists)) /\ Len(Take(r, n)) <= n
  BY <1>6, TakeKeepsRankings
<1>8. Take(r, n) \in Rankings(S)
  BY <1>1, <1>7, RankingsGrow
<1>. QED BY <1>4, <1>5, <1>7, <1>8 DEF r

\* Of two lists fused, the first passage of the first one is kept when there is room for
\* all of that list: a passage only the other one names counts for no more, and is met
\* later.
LEMMA FirstOfTheFirstStays ==
  ASSUME NEW r \in Rankings(Passages), NEW s \in Rankings(Passages), NEW n \in Nat,
         r # << >>, Len(r) <= n
  PROVE  r[1].p \in Members(FusedRanks(<<r, s>>, n))
<1>. DEFINE lists == <<r, s>>
            b == r[1].p
            all == Ranked(Met(lists), ValueOf(lists), FirstMet(lists))
            first == FirstMet(lists)
            value == ValueOf(lists)
<1>1. /\ lists \in Seq(Rankings(Passages)) /\ Len(lists) = 2 /\ lists[1] = r /\ lists[2] = s
  OBVIOUS
<1>. HIDE DEF lists
<1>2. /\ Len(r) \in Nat /\ Len(r) >= 1 /\ \A i \in 1 .. Len(r) : r[i].p \in Members(r)
      /\ \A x \in Members(r) : \E i \in 1 .. Len(r) : r[i].p = x
  <2>1. /\ Len(r) \in Nat /\ \A i \in 1 .. Len(r) : r[i].p \in Members(r)
        /\ \A x \in Members(r) : \E i \in 1 .. Len(r) : r[i].p = x
        /\ r \in Seq(Entries(Passages))
    BY RankingFacts
  <2>2. Len(r) # 0
    BY <2>1, EmptySeq
  <2>. QED BY <2>1, <2>2
<1>3. /\ RankedBy(all, Met(lists), value, first)
      /\ FusedRanks(lists, n) = Take(all, n)
  BY <1>1, FusedRanksAre
<1>. HIDE DEF all, first, value
<1>4. /\ all \in Rankings(Met(lists)) /\ Len(all) \in Nat
      /\ \A x \in Met(lists) : \E i \in 1 .. Len(all) : all[i].p = x
      /\ \A i, j \in 1 .. Len(all) : i < j =>
           \/ value[all[i].p] > value[all[j].p]
           \/ value[all[i].p] = value[all[j].p] /\ first[all[i].p] < first[all[j].p]
      /\ \A i \in 1 .. Len(all) : all[i].p \in Met(lists)
      /\ \A i, j \in 1 .. Len(all) : all[i].p = all[j].p => i = j
  BY <1>3, RankingFacts DEF RankedBy
<1>5. b \in Met(lists) /\ <<1, 1>> \in Places(lists, b)
  <2>1. 1 \in 1 .. Len(lists) /\ 1 \in 1 .. Len(lists[1]) /\ lists[1][1].p = b
    BY <1>1, <1>2
  <2>. QED BY <1>1, <2>1, MetIs, PlacesAre
<1>6. value[b] \in Nat /\ value[b] >= 1000000 \div 61
  <2>1. value[b] \in Nat /\ value[b] >= 1000000 \div (60 + <<1, 1>>[2])
    BY <1>1, <1>5, ValuesAre DEF value
  <2>2. 60 + <<1, 1>>[2] = 61
    OBVIOUS
  <2>. QED BY <2>1, <2>2
<1>7. PassageCount \in Nat
  BY RetrievalAssumption
<1>8. first[b] \in Int /\ first[b] <= PassageCount + 2
  <2>1. first[b] \in Int /\ first[b] <= Code(<<1, 1>>)
    BY <1>1, <1>5, FirstMetIs DEF first
  <2>2. Code(<<1, 1>>) = PassageCount + 2
    BY <1>7 DEF Code
  <2>. QED BY <2>1, <2>2
\* What is ranked before it is in the first list too.
<1>9. ASSUME NEW p \in Met(lists), p \notin Members(r)
      PROVE  ~ (value[p] > value[b]) /\ ~ (value[p] = value[b] /\ first[p] < first[b])
  <2>1. PICK x \in Places(lists, p) : first[p] = Code(x)
    BY <1>1, FirstMetIs DEF first
  <2>2. ASSUME NEW y \in Places(lists, p) PROVE y = <<2, y[2]>> /\ y[2] \in Passages /\ s[y[2]].p = p
        /\ y[2] \in 1 .. Len(s)
    <3>1. /\ y[1] \in 1 .. 2 /\ y[2] \in Passages /\ y = <<y[1], y[2]>>
          /\ y[2] \in 1 .. Len(lists[y[1]]) /\ lists[y[1]][y[2]].p = p
      BY <1>1, PlacesAre
    <3>2. y[1] # 1
      <4>. SUFFICES ASSUME y[1] = 1 PROVE FALSE
        OBVIOUS
      <4>1. y[2] \in 1 .. Len(r) /\ r[y[2]].p = p
        BY <1>1, <3>1
      <4>. QED BY <1>2, <1>9, <4>1
    <3>3. y[1] = 2
      BY <3>1, <3>2
    <3>. QED BY <1>1, <3>1, <3>3
  <2>3. Places(lists, p) = {x}
    <3>1. ASSUME NEW y \in Places(lists, p) PROVE y = x
      <4>1. /\ y = <<2, y[2]>> /\ s[y[2]].p = p /\ y[2] \in 1 .. Len(s)
            /\ x = <<2, x[2]>> /\ s[x[2]].p = p /\ x[2] \in 1 .. Len(s)
        BY <2>2
      <4>2. y[2] = x[2]
        BY <4>1, RankingFacts
      <4>. QED BY <4>1, <4>2
    <3>. QED BY <3>1
  <2>. DEFINE k == x[2]
  <2>4. x = <<2, k>> /\ k \in Nat /\ k >= 1
    BY <2>2 DEF Passages
  <2>. HIDE DEF k
  <2>5. value[p] = 1000000 \div (60 + k)
    BY <1>1, <2>3, ValuesAre DEF value, k
  <2>6. value[p] <= value[b] /\ value[p] \in Nat
    <3>1. 1000000 \div (60 + k) <= 1000000 \div 61 /\ 1000000 \div (60 + k) \in Nat
      BY <2>4
    <3>2. 1000000 \div 61 \in Nat
      OBVIOUS
    <3>. QED BY <1>6, <2>5, <3>1, <3>2
  <2>7. first[p] = 2 * (PassageCount + 1) + k
    BY <2>1, <2>4 DEF Code
  <2>8. ~ (first[p] < first[b])
    BY <1>7, <1>8, <2>4, <2>7
  <2>. QED BY <1>6, <2>6, <2>8
<1>10. PICK at \in 1 .. Len(all) : all[at].p = b
  BY <1>4, <1>5
<1>11. ASSUME NEW i \in 1 .. at PROVE i \in 1 .. Len(all) /\ all[i].p \in Members(r)
  <2>1. i \in 1 .. Len(all) /\ (i = at \/ i < at)
    BY <1>4, <1>10
  <2>2. CASE i = at
    BY <1>2, <1>10, <2>1, <2>2
  <2>3. CASE i < at
    BY <1>4, <1>9, <1>10, <2>1, <2>3
  <2>. QED BY <2>1, <2>2, <2>3
<1>12. at <= Len(r)
  <2>. DEFINE m == Len(r)
              f == [i \in 1 .. at |-> CHOOSE k \in 1 .. m : r[k].p = all[i].p]
  <2>1. m \in Nat /\ \A i \in 1 .. at : \E k \in 1 .. m : r[k].p = all[i].p
    BY <1>2, <1>11
  <2>. HIDE DEF m
  <2>2. \A i \in 1 .. at : f[i] \in 1 .. m /\ r[f[i]].p = all[i].p
    BY <2>1
  <2>3. f \in [1 .. at -> 1 .. m]
    BY <2>1
  <2>. HIDE DEF f
  <2>4. \A i, j \in 1 .. at : f[i] = f[j] => i = j
    BY <1>4, <1>11, <2>2
  <2>5. IsFiniteSet(1 .. m) /\ Cardinality(1 .. m) = m
    BY <2>1, FS_Interval
  <2>6. at \in Nat
    BY <1>4, <1>10
  <2>. QED BY <2>3, <2>4, <2>5, <2>6, NoMoreThanPlaces DEF m
<1>. DEFINE cut == Take(all, n)
<1>13. /\ Len(cut) = (IF n <= Len(all) THEN n ELSE Len(all)) /\ cut \in Rankings(Met(lists))
       /\ \A i \in 1 .. Len(cut) : cut[i] = all[i]
  BY <1>4, TakeKeepsRankings
<1>. HIDE DEF cut
<1>14. at \in 1 .. Len(cut)
  BY <1>2, <1>4, <1>10, <1>12, <1>13
<1>15. b \in Members(cut)
  BY <1>10, <1>13, <1>14, RankingFacts
<1>. QED BY <1>3, <1>15 DEF cut, lists

LEMMA FusionIs ==
  ASSUME TypeOfBase, NEW W, NEW words \in Seq(W)
  PROVE  Fusion(words) \in Rankings(Sharing(W)) /\ Len(Fusion(words)) <= CitedK
<1>. DEFINE variants == Variants(words)
            lists == [v \in DOMAIN variants |-> Hybrid(variants[v], DepthK)]
<1>1. /\ Len(variants) \in Nat /\ DOMAIN variants = 1 .. Len(variants)
      /\ \A v \in 1 .. Len(variants) : variants[v] \in Seq(W)
  BY VariantsAre, FiniteLists
<1>2. Fusion(words) = FusedRanks(lists, CitedK)
  BY DEF Fusion
<1>. HIDE DEF variants
<1>3. CitedK \in Nat /\ DepthK \in Nat
  BY RetrievalAssumption
<1>4. \A v \in 1 .. Len(variants) : Hybrid(variants[v], DepthK) \in Rankings(Sharing(W))
  BY <1>1, <1>3, HybridIs
<1>5. lists \in Seq(Rankings(Sharing(W)))
  BY <1>1, <1>4
<1>. HIDE DEF lists
<1>6. Sharing(W) \in SUBSET Passages
  BY DEF Sharing
<1>. QED BY <1>2, <1>3, <1>5, <1>6, FusedRanksAre

LEMMA CorrectiveIs ==
  ASSUME TypeOfBase, NEW W, NEW words \in Seq(W)
  PROVE  /\ ToolResults("corrective", words) \in Rankings(Sharing(W))
         /\ Len(ToolResults("corrective", words)) <= CitedK
<1>1. CitedK \in Nat
  BY RetrievalAssumption
<1>2. ToolResults("corrective", words) = Hybrid(words, CitedK) \/ ToolResults("corrective", words) = Fusion(words)
  BY DEF ToolResults
<1>. QED BY <1>1, <1>2, HybridIs, FusionIs

LEMMA MultimodalIs ==
  ASSUME TypeOfBase, NEW W, NEW words \in Seq(W)
  PROVE  Multimodal(words) \in Rankings(Sharing(W)) /\ Len(Multimodal(words)) <= CitedK
<1>. DEFINE boost == [p \in Passages |-> ModalityBoost(words, p)]
            score == [p \in Passages |-> Score(words, Unique(words), p, ModalityBoost(words, p))]
<1>1. CitedK \in Nat /\ Unique(words) \in Seq(W)
  BY RetrievalAssumption, UniqueIs
<1>2. score = [p \in Passages |-> Score(words, Unique(words), p, boost[p])]
  OBVIOUS
<1>3. \A p \in Passages : boost[p] \in Nat
  <2>1. \A p : ModalityBoost(words, p) \in Nat
    BY DEF ModalityBoost
  <2>. QED BY <2>1
<1>4. Multimodal(words) = Hits(score, CitedK)
  BY DEF Multimodal
<1>. HIDE DEF score, boost
<1>5. Hits(score, CitedK) \in Rankings(Sharing(W)) /\ \A p \in Passages : score[p] \in Nat
  BY <1>1, <1>2, <1>3, ScoredHits
<1>6. \A p \in Passages : score[p] \in Int
  BY <1>5
<1>7. Len(Hits(score, CitedK)) <= CitedK
  BY <1>1, <1>6, HitsAre
<1>. QED BY <1>4, <1>5, <1>7

-----------------------------------------------------------------------------
\* The entity graph.
LEMMA AffinityIs ==
  ASSUME TypeOfBase, NEW W, NEW words \in Seq(W), NEW p \in Passages
  PROVE  /\ Affinity(words, p) \in Nat
         /\ Affinity(words, p) > 0 => p \in Sharing(W)
<1>. DEFINE D == {w \in named \cap ToSet(words) : p \in Mentions(w)}
            f == [w \in D |-> 10 + Min({Cardinality(Mentions(w)), 5})]
<1>1. Affinity(words, p) = SumOf(f) /\ DOMAIN f = D
  BY DEF Affinity
<1>2. IsFiniteSet(D) /\ ToSet(words) \subseteq W
  BY FiniteLists, FS_Subset
<1>3. ASSUME NEW w \in D PROVE f[w] \in Nat
  <2>. DEFINE c == Cardinality(Mentions(w))
  <2>1. Mentions(w) \subseteq Passages
    BY DEF Mentions
  <2>2. c \in Nat
    BY <2>1, PassagesAreFinite, FS_Subset, FS_CardinalityType
  <2>3. f[w] = 10 + Min({c, 5})
    OBVIOUS
  <2>. HIDE DEF c, f
  <2>4. Min({c, 5}) = (IF c <= 5 THEN c ELSE 5)
    BY <2>2, OfTwo
  <2>. QED BY <2>2, <2>3, <2>4
<1>4. ASSUME NEW w \in D PROVE p \in Sharing(W)
  <2>1. w \in WordsOf(p) /\ w \in W
    BY <1>2 DEF Mentions, WordsOf
  <2>. QED BY <2>1 DEF Sharing
<1>. HIDE DEF D, f
<1>5. SumOf(f) \in Nat
  BY <1>1, <1>2, <1>3, SumNat
<1>6. D = {} => SumOf(f) = 0
  BY <1>1, SumEmpty
<1>. QED BY <1>1, <1>4, <1>5, <1>6

LEMMA BoostIs ==
  ASSUME NEW top \in Nat, NEW affinity \in Nat
  PROVE  /\ Boost(top, affinity) \in Nat
         /\ top > 0 => Boost(top, affinity) <= (35 * top) \div 100
<1>. DEFINE share == IF top > 0 THEN (top * 35) \div 100 ELSE 350
            d == affinity + 30
<1>1. Boost(top, affinity) = IF affinity = 0 THEN 0 ELSE (share * affinity) \div d
  BY DEF Boost
<1>2. share \in Nat /\ (top > 0 => share = (35 * top) \div 100)
  OBVIOUS
<1>3. d \in Nat \ {0} /\ affinity <= d
  OBVIOUS
<1>. HIDE DEF share, d
<1>4. share * affinity \in Nat /\ share * affinity <= share * d /\ share * d = d * share
  BY <1>2, <1>3
<1>. DEFINE m == share * affinity
<1>5. m \in Nat /\ m <= d * share
  BY <1>4
<1>6. Boost(top, affinity) = IF affinity = 0 THEN 0 ELSE m \div d
  BY <1>1
<1>. HIDE DEF m
<1>7. m \div d \in Nat /\ m \div d <= share
  BY <1>2, <1>3, <1>5
<1>. QED BY <1>2, <1>6, <1>7

LEMMA ScoreInIs ==
  ASSUME NEW S, NEW hits \in Rankings(S), NEW p
  PROVE  /\ RanksOf(hits, p) = {} => ScoreIn(hits, p) = 0
         /\ \A i \in RanksOf(hits, p) :
              /\ Min(RanksOf(hits, p)) = i /\ i \in 1 .. Len(hits) /\ hits[i].p = p
              /\ ScoreIn(hits, p) = hits[i].score
<1>. DEFINE of == RanksOf(hits, p)
            f == [i \in of |-> hits[i].score]
<1>1. /\ DOMAIN hits = 1 .. Len(hits) /\ Len(hits) \in Nat
      /\ \A i, j \in 1 .. Len(hits) : hits[i].p = hits[j].p => i = j
      /\ \A i \in 1 .. Len(hits) : hits[i].score \in Int
  BY RankingFacts
<1>2. ScoreIn(hits, p) = SumOf(f) /\ DOMAIN f = of /\ \A i \in of : f[i] = hits[i].score
  BY DEF ScoreIn
<1>3. ASSUME NEW i \in of
      PROVE  Min(of) = i /\ i \in 1 .. Len(hits) /\ hits[i].p = p /\ ScoreIn(hits, p) = hits[i].score
  <2>1. of = {i} /\ i \in 1 .. Len(hits) /\ hits[i].p = p /\ hits[i].score \in Int
    BY <1>1 DEF RanksOf
  <2>. HIDE DEF of, f
  <2>2. f[i] \in Int /\ DOMAIN f = {i}
    BY <1>2, <2>1
  <2>3. SumOf(f) = f[i]
    BY <2>2, SumOfOne
  <2>4. i \in Nat /\ {i} \in SUBSET Nat /\ {i} # {}
    BY <1>1, <2>1
  <2>5. Min({i}) \in {i}
    BY <2>4, LeastIsMin
  <2>. QED BY <1>2, <2>1, <2>3, <2>5
<1>4. of = {} => ScoreIn(hits, p) = 0
  BY <1>2, SumEmpty
<1>. QED BY <1>3, <1>4

LEMMA HybridScores ==
  ASSUME TypeOfBase, NEW W, NEW words \in Seq(W), NEW n \in Nat
  PROVE  /\ TopOf(Hybrid(words, n)) \in Nat
         /\ Hybrid(words, n) # << >> => TopOf(Hybrid(words, n)) > 0
         /\ \A i \in 1 .. Len(Hybrid(words, n)) : Hybrid(words, n)[i].score \in Nat
<1>. DEFINE boost == [p \in Passages |-> 10]
            score == [p \in Passages |-> Score(words, words, p, 10)]
            h == Hybrid(words, n)
            found == {p \in Passages : score[p] > 0}
<1>1. score = [p \in Passages |-> Score(words, words, p, boost[p])]
      /\ \A p \in Passages : boost[p] \in Nat
  OBVIOUS
<1>2. h = Hits(score, n)
  BY DEF Hybrid
<1>. HIDE DEF score, boost
<1>3. \A p \in Passages : score[p] \in Nat
  BY <1>1, ScoredHits
<1>4. \A p \in Passages : score[p] \in Int
  BY <1>3
<1>5. Hits(score, n) \in Rankings(found)
      /\ \A i \in 1 .. Len(Hits(score, n)) : Hits(score, n)[i].score = score[Hits(score, n)[i].p]
  BY <1>4, HitsAre
<1>. HIDE DEF h
<1>6. h \in Rankings(found) /\ \A i \in 1 .. Len(h) : h[i].score = score[h[i].p]
  BY <1>2, <1>5
<1>7. Len(h) \in Nat /\ h \in Seq(Entries(found)) /\ \A i \in 1 .. Len(h) : h[i].p \in found
  BY <1>6, RankingFacts
<1>8. \A i \in 1 .. Len(h) : h[i].score \in Nat /\ h[i].score > 0
  BY <1>3, <1>6, <1>7
<1>9. h # << >> => 1 \in 1 .. Len(h)
  <2>1. h # << >> => Len(h) # 0
    BY <1>7, EmptySeq
  <2>. QED BY <1>7, <2>1
<1>. QED BY <1>8, <1>9 DEF TopOf, h

\* The graph adds at most a share of the best score by words.
LEMMA GraphIs ==
  ASSUME TypeOfBase, NEW W, NEW words \in Seq(W)
  PROVE  /\ Graph(words) \in Rankings(Sharing(W)) /\ Len(Graph(words)) <= CitedK
         /\ \A i, j \in 1 .. Len(Graph(words)) : i < j =>
              ScoreIn(Hybrid(words, DepthK), Graph(words)[i].p) + (35 * TopOf(Hybrid(words, DepthK))) \div 100
                >= ScoreIn(Hybrid(words, DepthK), Graph(words)[j].p)
<1>. DEFINE hits == Hybrid(words, DepthK)
            top == TopOf(hits)
            of(p) == RanksOf(hits, p)
            boost(p) == Boost(top, Affinity(words, p))
            worth == [p \in Passages |-> boost(p) + ScoreIn(hits, p)]
            before == [p \in Passages |-> IF of(p) = {} THEN Len(hits) + p ELSE Min(of(p))]
            found == {p \in Passages : of(p) # {} \/ Affinity(words, p) > 0}
            r == Ranked(found, worth, before)
            g == Graph(words)
            cap == (35 * top) \div 100
            m == Len(hits)
<1>1. g = Take(r, CitedK)
  BY DEF Graph
<1>2. CitedK \in Nat /\ DepthK \in Nat
  BY RetrievalAssumption
<1>3. hits \in Rankings(Sharing(W)) /\ top \in Nat /\ (hits # << >> => top > 0)
      /\ \A i \in 1 .. Len(hits) : hits[i].score \in Nat
  BY <1>2, HybridIs, HybridScores
<1>. HIDE DEF hits
<1>4. /\ DOMAIN hits = 1 .. m /\ m \in Nat /\ \A i \in 1 .. m : hits[i].p \in Sharing(W)
      /\ (m # 0 => hits # << >>)
  BY <1>3, RankingFacts
<1>5. \A p : /\ of(p) = {} => ScoreIn(hits, p) = 0
             /\ \A i \in of(p) : Min(of(p)) = i /\ i \in 1 .. m /\ hits[i].p = p
                                 /\ ScoreIn(hits, p) = hits[i].score
  BY <1>3, ScoreInIs
<1>6. ASSUME NEW p \in Passages
      PROVE  /\ worth[p] = boost(p) + ScoreIn(hits, p) /\ ScoreIn(hits, p) \in Nat
             /\ before[p] \in Nat
             /\ of(p) = {} => before[p] = m + p
             /\ of(p) # {} => before[p] \in 1 .. m /\ hits[before[p]].p = p
  <2>1. p \in Nat /\ p >= 1
    BY RetrievalAssumption DEF Passages
  <2>2. CASE of(p) = {}
    <3>1. before[p] = m + p
      BY <2>2
    <3>2. ScoreIn(hits, p) = 0
      BY <1>5, <2>2
    <3>. QED BY <1>4, <2>1, <2>2, <3>1, <3>2
  <2>3. CASE of(p) # {}
    <3>1. PICK i : i \in of(p)
      BY <2>3
    <3>2. Min(of(p)) = i /\ i \in 1 .. m /\ hits[i].p = p /\ ScoreIn(hits, p) = hits[i].score
      BY <1>5, <3>1
    <3>3. before[p] = i
      BY <2>3, <3>2
    <3>4. hits[i].score \in Nat /\ i \in Nat
      BY <1>3, <1>4, <3>2
    <3>. QED BY <2>3, <3>2, <3>3, <3>4
  <2>. QED BY <2>2, <2>3
<1>7. ASSUME NEW p \in Passages
      PROVE  /\ boost(p) \in Nat /\ (top > 0 => boost(p) <= cap)
             /\ (Affinity(words, p) > 0 => p \in Sharing(W))
  <2>1. Affinity(words, p) \in Nat /\ (Affinity(words, p) > 0 => p \in Sharing(W))
    BY AffinityIs
  <2>. HIDE DEF top
  <2>. QED BY <1>3, <2>1, BoostIs
<1>8. found \subseteq Sharing(W)
  BY <1>4, <1>5, <1>7
<1>9. found \subseteq Passages /\ IsFiniteSet(found)
  BY PassagesAreFinite, FS_Subset
<1>10. cap \in Nat
  <2>. HIDE DEF top
  <2>. QED BY <1>3
<1>. HIDE DEF top, worth, before, boost, cap
<1>11. \A p \in found : worth[p] \in Int
  <2>1. \A p \in found : boost(p) \in Nat /\ ScoreIn(hits, p) \in Nat
                         /\ worth[p] = boost(p) + ScoreIn(hits, p)
    BY <1>6, <1>7, <1>9
  <2>. QED BY <2>1
<1>12. ASSUME NEW p \in found, NEW q \in found, before[p] = before[q] PROVE p = q
  <2>1. p \in Passages /\ q \in Passages /\ p \in Nat /\ q \in Nat /\ p >= 1 /\ q >= 1
    BY <1>9, RetrievalAssumption DEF Passages
  <2>. DEFINE unfound(x) == of(x) = {}
  <2>2. /\ unfound(p) => before[p] = m + p
        /\ unfound(q) => before[q] = m + q
        /\ ~ unfound(p) => before[p] \in 1 .. m /\ hits[before[p]].p = p
        /\ ~ unfound(q) => before[q] \in 1 .. m /\ hits[before[q]].p = q
        /\ m \in Nat
    BY <1>4, <1>6, <2>1
  <2>. HIDE DEF unfound, of, m
  <2>3. CASE unfound(p) /\ unfound(q)
    BY <1>12, <2>1, <2>2, <2>3
  <2>4. CASE ~ unfound(p) /\ ~ unfound(q)
    BY <1>12, <2>2, <2>4
  <2>5. CASE unfound(p) /\ ~ unfound(q)
    BY <1>12, <2>1, <2>2, <2>5
  <2>6. CASE ~ unfound(p) /\ unfound(q)
    BY <1>12, <2>1, <2>2, <2>6
  <2>. QED BY <2>3, <2>4, <2>5, <2>6
<1>13. \A p \in found : before[p] \in Int
  BY <1>6, <1>9
<1>. HIDE DEF of, m, found
<1>14. RankedBy(r, found, worth, before)
  BY <1>9, <1>11, <1>12, <1>13, RankedIs
<1>. HIDE DEF r
<1>15. /\ r \in Rankings(found)
       /\ \A i, j \in 1 .. Len(r) : i < j => worth[r[i].p] > worth[r[j].p] \/ worth[r[i].p] = worth[r[j].p]
       /\ \A i \in 1 .. Len(r) : r[i].p \in found
       /\ Len(r) \in Nat
  BY <1>14, RankingFacts DEF RankedBy
<1>. HIDE DEF g
<1>16. /\ g \in Rankings(found) /\ Len(g) = (IF CitedK <= Len(r) THEN CitedK ELSE Len(r))
       /\ \A i \in 1 .. Len(g) : i \in 1 .. Len(r) /\ g[i] = r[i]
  BY <1>1, <1>2, <1>15, TakeKeepsRankings
<1>17. g \in Rankings(Sharing(W)) /\ Len(g) <= CitedK
  <2>1. Len(g) <= CitedK
    BY <1>2, <1>15, <1>16
  <2>. QED BY <1>8, <1>16, <2>1, RankingsGrow
<1>18. ASSUME NEW i \in 1 .. Len(g), NEW j \in 1 .. Len(g), i < j
       PROVE  ScoreIn(hits, g[i].p) + cap >= ScoreIn(hits, g[j].p)
  <2>. DEFINE p == g[i].p
              q == g[j].p
              a == ScoreIn(hits, p)
              b == ScoreIn(hits, q)
  <2>1. p \in Passages /\ q \in Passages /\ (worth[p] > worth[q] \/ worth[p] = worth[q])
    BY <1>9, <1>15, <1>16, <1>18
  <2>. HIDE DEF p, q
  <2>2. /\ worth[p] = boost(p) + a /\ a \in Nat
        /\ worth[q] = boost(q) + b /\ b \in Nat
        /\ boost(p) \in Nat /\ boost(q) \in Nat
        /\ top > 0 => boost(p) <= cap
    BY <1>6, <1>7, <2>1
  <2>3. top = 0 => b = 0
    <3>. SUFFICES ASSUME top = 0, b # 0 PROVE FALSE
      OBVIOUS
    <3>1. hits = << >>
      BY <1>3
    <3>2. m = 0
      BY <1>4, <3>1
    <3>3. of(q) = {}
      BY <1>4, <3>2 DEF of, RanksOf
    <3>. QED BY <1>5, <3>3
  <2>. HIDE DEF a, b
  <2>4. a + cap >= b
    <3>1. CASE top = 0
      BY <1>10, <2>2, <2>3, <3>1
    <3>2. CASE top > 0
      BY <1>10, <2>1, <2>2, <3>2
    <3>. QED BY <1>3, <3>1, <3>2
  <2>. QED BY <2>4 DEF a, b, p, q
<1>. QED BY <1>17, <1>18 DEF g, hits, top, cap

-----------------------------------------------------------------------------
\* The agentic mode's merge.
\* A pick under way: what is chosen and what is pending, no passage in both.
UnderWay(S) ==
  {w \in [chosen : Rankings(S), pending : Rankings(S)] :
     \A i \in 1 .. Len(w.chosen), j \in 1 .. Len(w.pending) : w.chosen[i].p # w.pending[j].p}

LEMMA PickedIs ==
  ASSUME NEW S, NEW was \in UnderWay(S)
  PROVE  Picked(was) \in UnderWay(S)
<1>. DEFINE chosen == was.chosen
            pending == was.pending
            left == DOMAIN pending
            worth == [i \in left |-> pending[i].score - 150 * Alike(chosen, pending[i].p)]
            key == [i \in left |-> i]
            order == Ranked(left, worth, key)
            sorted == [k \in DOMAIN order |-> pending[order[k].p]]
            n == Len(order)
<1>1. /\ chosen \in Rankings(S) /\ pending \in Rankings(S)
      /\ \A i \in 1 .. Len(chosen), j \in 1 .. Len(pending) : chosen[i].p # pending[j].p
  BY DEF UnderWay
<1>2. Picked(was) = IF sorted = << >> THEN was ELSE [chosen |-> Append(chosen, sorted[1]), pending |-> Tail(sorted)]
  BY DEF Picked
<1>. HIDE DEF chosen, pending
<1>3. /\ left = 1 .. Len(pending) /\ Len(pending) \in Nat /\ IsFiniteSet(left)
      /\ \A i \in 1 .. Len(pending) : pending[i] \in Entries(S) /\ pending[i].score \in Int
      /\ \A i, j \in 1 .. Len(pending) : pending[i].p = pending[j].p => i = j
  <2>1. /\ left = 1 .. Len(pending) /\ Len(pending) \in Nat
        /\ \A i \in 1 .. Len(pending) : pending[i] \in Entries(S) /\ pending[i].score \in Int
        /\ \A i, j \in 1 .. Len(pending) : pending[i].p = pending[j].p => i = j
    BY <1>1, RankingFacts
  <2>2. IsFiniteSet(1 .. Len(pending))
    <3>. DEFINE m == Len(pending)
    <3>1. m \in Int /\ 1 \in Int
      BY <2>1
    <3>. HIDE DEF m
    <3>2. IsFiniteSet(1 .. m)
      BY <3>1, FS_Interval
    <3>. QED BY <3>2 DEF m
  <2>. QED BY <2>1, <2>2
<1>4. /\ chosen \in Seq(Entries(S)) /\ Len(chosen) \in Nat /\ DOMAIN chosen = 1 .. Len(chosen)
      /\ \A i, j \in 1 .. Len(chosen) : chosen[i].p = chosen[j].p => i = j
  BY <1>1, RankingFacts
<1>5. ASSUME NEW p PROVE Alike(chosen, p) \in Nat
  <2>1. IsFiniteSet(DOMAIN chosen)
    BY <1>4, FS_Interval
  <2>2. IsFiniteSet({i \in DOMAIN chosen : base[chosen[i].p].source = base[p].source})
    BY <2>1, FS_Subset
  <2>. QED BY <2>2, FS_CardinalityType DEF Alike
<1>6. \A i \in left : worth[i] \in Int
  <2>1. \A i \in left : /\ worth[i] = pending[i].score - 150 * Alike(chosen, pending[i].p)
                        /\ pending[i].score \in Int /\ Alike(chosen, pending[i].p) \in Nat
    BY <1>3, <1>5
  <2>. HIDE DEF worth
  <2>. QED BY <2>1
<1>7. /\ \A i \in left : key[i] \in Int
      /\ \A i, j \in left : key[i] = key[j] => i = j
  BY <1>3
<1>. HIDE DEF worth, key
<1>8. order \in Rankings(left)
  BY <1>3, <1>6, <1>7, RankedIs DEF RankedBy
<1>. HIDE DEF order
<1>9. /\ n \in Nat /\ DOMAIN order = 1 .. n
      /\ \A k \in 1 .. n : order[k].p \in 1 .. Len(pending)
      /\ \A k, l \in 1 .. n : order[k].p = order[l].p => k = l
  BY <1>3, <1>8, RankingFacts
<1>. HIDE DEF n
<1>10. sorted = [k \in 1 .. n |-> pending[order[k].p]]
  BY <1>9
<1>. HIDE DEF sorted
<1>11. sorted \in [1 .. n -> Entries(S)]
  BY <1>3, <1>9, <1>10
<1>12. sorted \in Seq(Entries(S)) /\ Len(sorted) = n /\ DOMAIN sorted = 1 .. n
  BY <1>9, <1>11
<1>13. \A k, l \in 1 .. n : sorted[k].p = sorted[l].p => k = l
  BY <1>3, <1>9, <1>10
<1>14. \A k \in 1 .. n : \A i \in 1 .. Len(chosen) : chosen[i].p # sorted[k].p
  BY <1>1, <1>9, <1>10
<1>15. CASE sorted = << >>
  BY <1>2, <1>15
<1>16. CASE sorted # << >>
  <2>. DEFINE c == Append(chosen, sorted[1])
              t == Tail(sorted)
              m == Len(chosen)
  <2>1. n >= 1 /\ sorted[1] \in Entries(S)
    <3>1. n # 0
      BY <1>12, <1>16, EmptySeq
    <3>. QED BY <1>9, <1>11, <3>1
  <2>2. /\ c \in Seq(Entries(S)) /\ Len(c) = m + 1 /\ m \in Nat
        /\ \A i \in 1 .. m : c[i] = chosen[i]
        /\ c[m + 1] = sorted[1]
    BY <1>4, <2>1, AppendProperties
  <2>3. /\ t \in Seq(Entries(S)) /\ Len(t) = n - 1
        /\ \A k \in 1 .. (n - 1) : t[k] = sorted[k + 1]
    BY <1>9, <1>12, <1>16, <2>1
  <2>. HIDE DEF c, t
  <2>4. ASSUME NEW i \in 1 .. (m + 1), NEW j \in 1 .. (m + 1), c[i].p = c[j].p PROVE i = j
    <3>1. /\ i \in 1 .. m \/ i = m + 1
          /\ j \in 1 .. m \/ j = m + 1
      BY <2>2
    <3>2. CASE i \in 1 .. m /\ j \in 1 .. m
      BY <1>4, <2>2, <2>4, <3>2
    <3>3. CASE i = m + 1 /\ j = m + 1
      BY <3>3
    <3>4. 1 \in 1 .. n
      BY <1>9, <2>1
    <3>5. CASE i \in 1 .. m /\ j = m + 1
      BY <1>14, <2>2, <2>4, <3>4, <3>5
    <3>6. CASE i = m + 1 /\ j \in 1 .. m
      BY <1>14, <2>2, <2>4, <3>4, <3>6
    <3>. QED BY <3>1, <3>2, <3>3, <3>5, <3>6
  <2>5. ASSUME NEW k \in 1 .. (n - 1), NEW l \in 1 .. (n - 1), t[k].p = t[l].p PROVE k = l
    <3>1. k + 1 \in 1 .. n /\ l + 1 \in 1 .. n /\ k \in Int /\ l \in Int
      BY <1>9
    <3>2. k + 1 = l + 1
      BY <1>13, <2>3, <2>5, <3>1
    <3>. QED BY <3>1, <3>2
  <2>6. ASSUME NEW i \in 1 .. (m + 1), NEW k \in 1 .. (n - 1) PROVE c[i].p # t[k].p
    <3>1. k + 1 \in 1 .. n /\ 1 \in 1 .. n /\ k + 1 # 1 /\ t[k] = sorted[k + 1]
      BY <1>9, <2>1, <2>3
    <3>2. i \in 1 .. m \/ i = m + 1
      BY <2>2
    <3>3. CASE i \in 1 .. m
      BY <1>14, <2>2, <3>1, <3>3
    <3>4. CASE i = m + 1
      BY <1>13, <2>2, <3>1, <3>4
    <3>. QED BY <3>2, <3>3, <3>4
  <2>7. c \in Rankings(S) /\ t \in Rankings(S)
    BY <2>2, <2>3, <2>4, <2>5 DEF Rankings
  <2>8. Picked(was) = [chosen |-> c, pending |-> t]
    BY <1>2, <1>16 DEF c, t
  <2>9. \A i \in 1 .. Len(c), k \in 1 .. Len(t) : c[i].p # t[k].p
    BY <2>2, <2>3, <2>6
  <2>. QED BY <2>7, <2>8, <2>9 DEF UnderWay
<1>. QED BY <1>15, <1>16

LEMMA DiverseIs ==
  ASSUME NEW S, NEW list \in Rankings(S), NEW n \in Nat
  PROVE  Diverse(list, n) \in Rankings(S)
<1>. DEFINE P == UnderWay(S)
            start == [chosen |-> << >>, pending |-> list]
            onward == [x \in (1 .. n) \X P |-> Picked(x[2])]
            Rest(f, k) == IF k = 0 THEN start ELSE Picked(f[k - 1])
            pick == CHOOSE f : f = [k \in 0 .. n |-> Rest(f, k)]
<1>1. start \in P
  <2>1. << >> \in Rankings(S) /\ Len(<< >>) = 0
    BY DEF Rankings
  <2>. QED BY <2>1 DEF UnderWay
<1>2. \A w \in P : Picked(w) \in P
  BY PickedIs
<1>. HIDE DEF P, start
<1>3. onward \in [(1 .. n) \X P -> P] /\ \A k \in 1 .. n, w \in P : onward[<<k, w>>] = Picked(w)
  BY <1>2
<1>. HIDE DEF onward
<1>4. PICK f \in [0 .. n -> P] : Walks(f, n, start, onward)
  BY <1>1, <1>3, StepByStep
<1>5. f[0] = start /\ \A k \in 1 .. n : f[k] = onward[<<k, f[k - 1]>>]
  BY <1>4 DEF Walks
<1>6. ASSUME NEW k \in 0 .. n PROVE f[k] = Rest(f, k)
  <2>1. CASE k = 0
    BY <1>5, <2>1
  <2>2. CASE k # 0
    <3>1. k \in 1 .. n /\ k - 1 \in 0 .. n
      BY <2>2
    <3>2. f[k - 1] \in P
      BY <3>1
    <3>. QED BY <1>3, <1>5, <2>2, <3>1, <3>2
  <2>. QED BY <2>1, <2>2
<1>7. f = [k \in 0 .. n |-> Rest(f, k)]
  BY <1>6
<1>8. pick = [k \in 0 .. n |-> Rest(pick, k)]
  <2>. HIDE DEF Rest
  <2>. QED BY <1>7
<1>9. Diverse(list, n) = pick[n].chosen
  BY DEF Diverse, start
<1>. HIDE DEF pick
<1>10. pick[0] = start /\ \A k \in 1 .. n : pick[k] = Picked(pick[k - 1])
  <2>1. 0 \in 0 .. n /\ \A k \in 1 .. n : k \in 0 .. n /\ k # 0
    OBVIOUS
  <2>. QED BY <1>8, <2>1
<1>. DEFINE Good == {k \in 0 .. n : pick[k] \in P}
<1>11. 0 \in Good
  BY <1>1, <1>10
<1>12. \A k \in 1 .. n : k - 1 \in Good => k \in Good
  BY <1>2, <1>10
<1>. HIDE DEF Good
<1>13. n \in Good
  BY <1>11, <1>12, Climbing
<1>. QED BY <1>9, <1>13 DEF Good, P, UnderWay

ToolRuns(S) == Seq([results : Rankings(S), weight : Int])

LEMMA MergedIs ==
  ASSUME NEW S \in SUBSET Passages, NEW toolRuns \in ToolRuns(S)
  PROVE  Merged(toolRuns) \in Rankings(S)
<1>. DEFINE lists == [k \in DOMAIN toolRuns |-> toolRuns[k].results]
            scores(k) == {1} \cup {lists[k][i].score : i \in DOMAIN lists[k]}
            best == [k \in DOMAIN lists |-> Max({1} \cup {lists[k][i].score : i \in DOMAIN lists[k]})]
            part(x) == (lists[x[1]][x[2]].score * toolRuns[x[1]].weight * 10) \div best[x[1]] + 1000 \div (x[2] + 4)
            f(p) == [x \in Places(lists, p) |-> part(x)]
            value == [p \in Met(lists) |-> SumOf([x \in Places(lists, p) |->
                  (lists[x[1]][x[2]].score * toolRuns[x[1]].weight * 10) \div best[x[1]] + 1000 \div (x[2] + 4)])]
            r == Ranked(Met(lists), value, FirstMet(lists))
            n == Len(toolRuns)
<1>1. /\ n \in Nat /\ DOMAIN toolRuns = 1 .. n
      /\ \A k \in 1 .. n : toolRuns[k].results \in Rankings(S) /\ toolRuns[k].weight \in Int
  <2>1. \A k \in 1 .. n : toolRuns[k] \in [results : Rankings(S), weight : Int]
    BY FiniteLists DEF ToolRuns
  <2>. QED BY <2>1, FiniteLists DEF ToolRuns
<1>2. Merged(toolRuns) = Diverse(r, MergedK)
  BY DEF Merged
<1>. HIDE DEF n
<1>3. lists \in Seq(Rankings(S)) /\ Len(lists) = n /\ DOMAIN lists = 1 .. n
  BY <1>1
<1>. HIDE DEF lists
<1>4. \A k \in 1 .. n : /\ lists[k] \in Rankings(S) /\ DOMAIN lists[k] = 1 .. Len(lists[k]) /\ Len(lists[k]) \in Nat
                        /\ \A i \in 1 .. Len(lists[k]) : lists[k][i].score \in Int
  <2>1. \A k \in 1 .. n : lists[k] \in Rankings(S)
    BY <1>3, FiniteLists
  <2>. QED BY <2>1, RankingFacts
<1>5. ASSUME NEW k \in 1 .. n PROVE best[k] \in Nat \ {0}
  <2>. DEFINE T == scores(k)
              s == [i \in 1 .. Len(lists[k]) |-> lists[k][i].score]
  <2>1. best[k] = Max(T)
    BY <1>3
  <2>2. IsFiniteSet(1 .. Len(lists[k]))
    BY <1>4, FS_Interval
  <2>. DEFINE V == {lists[k][i].score : i \in DOMAIN lists[k]}
  <2>3. V = {s[i] : i \in 1 .. Len(lists[k])}
    BY <1>4
  <2>4. IsFiniteSet(V)
    <3>. HIDE DEF s, V
    <3>. QED BY <2>2, <2>3, ValuesAreFinite
  <2>5. IsFiniteSet({1}) /\ IsFiniteSet(T)
    <3>1. T = {1} \cup V
      OBVIOUS
    <3>. HIDE DEF V, T
    <3>. QED BY <2>4, <3>1, FS_Singleton, FS_Union
  <2>6. T \in SUBSET Int /\ T # {} /\ 1 \in T
    BY <1>4
  <2>. HIDE DEF T
  <2>7. Max(T) \in T /\ 1 <= Max(T)
    BY <2>5, <2>6, GreatestOfFinite
  <2>8. Max(T) \in Int
    BY <2>6, <2>7
  <2>9. Max(T) \in Nat \ {0}
    BY <2>7, <2>8
  <2>. QED BY <2>1, <2>9
<1>. HIDE DEF best
<1>6. ASSUME NEW p \in Met(lists) PROVE value[p] \in Int
  <2>1. value[p] = SumOf(f(p))
    OBVIOUS
  <2>2. IsFiniteSet(Places(lists, p)) /\ DOMAIN f(p) = Places(lists, p)
    BY <1>3, PlacesAre
  <2>3. ASSUME NEW x \in Places(lists, p) PROVE f(p)[x] \in Int
    <3>. DEFINE a == lists[x[1]][x[2]].score
                w == toolRuns[x[1]].weight
                b == best[x[1]]
                c == x[2]
    <3>1. x[1] \in 1 .. n /\ x[2] \in 1 .. Len(lists[x[1]]) /\ x[2] \in Passages
      BY <1>3, PlacesAre
    <3>2. a \in Int /\ w \in Int /\ b \in Nat \ {0} /\ c \in Nat
      BY <1>1, <1>4, <1>5, <3>1 DEF Passages
    <3>3. f(p)[x] = (a * w * 10) \div b + 1000 \div (c + 4)
      OBVIOUS
    <3>. HIDE DEF a, w, b, c, f
    <3>4. a * w \in Int
      BY <3>2
    <3>5. (a * w * 10) \div b \in Int
      BY <3>2, <3>4
    <3>6. 1000 \div (c + 4) \in Int
      BY <3>2
    <3>. QED BY <3>3, <3>5, <3>6
  <2>. HIDE DEF f, value
  <2>4. SumOf(f(p)) \in Int
    BY <2>2, <2>3, SumType
  <2>. QED BY <2>1, <2>4
<1>. HIDE DEF value
<1>7. IsFiniteSet(Met(lists)) /\ Met(lists) \in SUBSET S
  BY <1>3, MetIs
<1>8. /\ \A p \in Met(lists) : FirstMet(lists)[p] \in Int
      /\ \A p, q \in Met(lists) : FirstMet(lists)[p] = FirstMet(lists)[q] => p = q
  BY <1>3, FirstMetIs
<1>9. r \in Rankings(Met(lists))
  BY <1>6, <1>7, <1>8, RankedIs DEF RankedBy
<1>. HIDE DEF r
<1>10. r \in Rankings(S)
  BY <1>7, <1>9, RankingsGrow
<1>11. MergedK \in Nat
  BY RetrievalAssumption
<1>. QED BY <1>2, <1>10, <1>11, DiverseIs

Names == {"contextual_hybrid", "rag_fusion", "corrective", "graph_rag", "multi_modal"}

LEMMA ToolResultsAre ==
  ASSUME TypeOfBase, NEW W, NEW words \in Seq(W), NEW tool \in Names
  PROVE  ToolResults(tool, words) \in Rankings(Sharing(W))
<1>1. DepthK \in Nat
  BY RetrievalAssumption
<1>2. CASE tool = "contextual_hybrid"
  <2>1. ToolResults(tool, words) = Hybrid(words, DepthK)
    BY <1>2 DEF ToolResults
  <2>. QED BY <1>1, <2>1, HybridIs
<1>3. CASE tool = "rag_fusion"
  <2>1. ToolResults(tool, words) = Fusion(words)
    BY <1>3 DEF ToolResults
  <2>. QED BY <2>1, FusionIs
<1>4. CASE tool = "corrective"
  BY <1>4, CorrectiveIs
<1>5. CASE tool = "graph_rag"
  <2>1. ToolResults(tool, words) = Graph(words)
    BY <1>5 DEF ToolResults
  <2>. QED BY <2>1, GraphIs
<1>6. CASE tool = "multi_modal"
  <2>1. ToolResults(tool, words) = Multimodal(words)
    BY <1>6 DEF ToolResults
  <2>. QED BY <2>1, MultimodalIs
<1>. QED BY <1>2, <1>3, <1>4, <1>5, <1>6 DEF Names

LEMMA PlanIs ==
  ASSUME NEW words
  PROVE  /\ Len(Plan(words)) \in Nat /\ DOMAIN Plan(words) = 1 .. Len(Plan(words))
         /\ \A k \in 1 .. Len(Plan(words)) : Plan(words)[k].tool \in Names /\ Plan(words)[k].weight \in Int
<1>. DEFINE fourth == IF ToSet(words) \cap RelationWords # {} THEN 135 ELSE 85
            fifth == IF Wanted(words) # {} THEN 135 ELSE 75
            weight == <<100, 125, 115, fourth, fifth>>
            key == [i \in DOMAIN Tools |-> i]
            order == Ranked(DOMAIN Tools, weight, key)
            plan == [k \in DOMAIN order |-> [tool |-> Tools[order[k].p], weight |-> order[k].score]]
<1>1. Plan(words) = plan
  BY DEF Plan
<1>2. DOMAIN Tools = 1 .. 5 /\ \A i \in 1 .. 5 : Tools[i] \in Names
  BY DEF Tools, Names
<1>3. fourth \in Int /\ fifth \in Int
  OBVIOUS
<1>. HIDE DEF fourth, fifth
<1>4. \A i \in 1 .. 5 : weight[i] \in Int
  BY <1>3
<1>5. \A i \in 1 .. 5 : key[i] = i /\ i \in Int
  BY <1>2
<1>6. IsFiniteSet(1 .. 5)
  <2>1. 1 \in Int /\ 5 \in Int
    OBVIOUS
  <2>. QED BY <2>1, FS_Interval
<1>. HIDE DEF weight, key
<1>7. order \in Rankings(1 .. 5)
  BY <1>2, <1>4, <1>5, <1>6, RankedIs DEF RankedBy
<1>. HIDE DEF order
<1>8. DOMAIN order = 1 .. Len(order) /\ Len(order) \in Nat
      /\ \A k \in 1 .. Len(order) : order[k].p \in 1 .. 5 /\ order[k].score \in Int
  BY <1>7, RankingFacts
<1>9. \A k \in 1 .. Len(order) : plan[k].tool \in Names /\ plan[k].weight \in Int
  BY <1>2, <1>8
<1>10. Len(plan) = Len(order) /\ DOMAIN plan = 1 .. Len(order)
  BY <1>8
<1>. QED BY <1>1, <1>8, <1>9, <1>10

-----------------------------------------------------------------------------
\* What the words alone find best, and what a step leaves as it is.
LexicalBest ==
  CASE mode = "rag_fusion" -> Fusion(asked)
    [] mode = "corrective" -> ToolResults("corrective", asked)
    [] mode = "multi_modal" -> Multimodal(asked)
    [] OTHER -> Hybrid(asked, DepthK)
Related == Sharing(ToSet(asked))

LEMMA SameQuestion ==
  ASSUME mode' = mode, asked' = asked, base' = base, named' = named, similar' = similar
  PROVE  /\ LexicalBest' = LexicalBest /\ Related' = Related
         /\ Graph(asked)' = Graph(asked)
         /\ \A p : WordsOf(p)' = WordsOf(p)
<1>1. \A q, w, p, b : Score(q, w, p, b)' = Score(q, w, p, b)
  BY DEF Score
<1>2. \A words, n : Hybrid(words, n)' = Hybrid(words, n)
  <2>. SUFFICES ASSUME NEW words, NEW n PROVE Hybrid(words, n)' = Hybrid(words, n)
    OBVIOUS
  <2>1. [p \in Passages |-> Score(words, words, p, 10)'] = [p \in Passages |-> Score(words, words, p, 10)]
    BY <1>1
  <2>. QED BY <2>1 DEF Hybrid
<1>3. \A words : Fusion(words)' = Fusion(words)
  BY <1>2 DEF Fusion
<1>4. \A words : Multimodal(words)' = Multimodal(words)
  <2>. SUFFICES ASSUME NEW words PROVE Multimodal(words)' = Multimodal(words)
    OBVIOUS
  <2>1. \A p : ModalityBoost(words, p)' = ModalityBoost(words, p)
    BY DEF ModalityBoost
  <2>2. [p \in Passages |-> Score(words, Unique(words), p, ModalityBoost(words, p))'] =
        [p \in Passages |-> Score(words, Unique(words), p, ModalityBoost(words, p))]
    BY <1>1, <2>1
  <2>. QED BY <2>2 DEF Multimodal
<1>5. \A w, r : Covered(w, r)' = Covered(w, r)
  BY DEF Covered
<1>6. \A w, r : Sufficient(w, r)' = Sufficient(w, r)
  BY <1>5 DEF Sufficient
<1>7. \A words : ToolResults("corrective", words)' = ToolResults("corrective", words)
  BY <1>2, <1>3, <1>6 DEF ToolResults
<1>8. \A p : WordsOf(p)' = WordsOf(p)
  BY DEF WordsOf
<1>9. Related' = Related
  BY <1>8 DEF Related, Sharing
<1>10. LexicalBest' = LexicalBest
  BY <1>2, <1>3, <1>4, <1>7 DEF LexicalBest
<1>11. \A words, p : Affinity(words, p)' = Affinity(words, p)
  BY DEF Affinity, Mentions
<1>12. \A words : Graph(words)' = Graph(words)
  <2>. SUFFICES ASSUME NEW words PROVE Graph(words)' = Graph(words)
    OBVIOUS
  <2>. QED BY <1>2, <1>11 DEF Graph
<1>13. Graph(asked)' = Graph(asked)
  BY <1>12
<1>. QED BY <1>8, <1>9, <1>10, <1>13

SemanticFound == {p \in Passages : similar[p] > 0}
ModeTypes ==
  /\ mode \in Modes /\ asked \in Questions /\ TypeOfBase /\ similar \in [Passages -> Similarities]
  /\ step \in {"retrieve", "repair", "blend", "judge", "done"}

\* What a mode hands to the blend: passages that share a word, and, but for the modes
\* that keep more or order by more than words, the best by words first.
Retrieved ==
  /\ ranking \in Rankings(Related)
  /\ mode \notin {"agentic_rag", "graph_rag"} =>
       /\ Len(ranking) <= CitedK
       /\ LexicalBest # << >> => ranking # << >> /\ ranking[1].p = LexicalBest[1].p
  /\ mode = "graph_rag" => ranking = Graph(asked)
Blended ==
  /\ mode \notin {"agentic_rag", "graph_rag"} /\ LexicalBest # << >> => LexicalBest[1].p \in Cited
  /\ \A p \in Cited : p \in Related \/ p \in SemanticFound

ModeInv ==
  /\ ModeTypes
  /\ step = "repair" => mode = "agentic_rag" /\ runs \in ToolRuns(Related)
  /\ step = "blend" => Retrieved
  /\ step \in {"judge", "done"} => Blended

LEMMA AskedIs ==
  ASSUME ModeTypes
  PROVE  TypeOfBase /\ asked \in Seq(ToSet(asked)) /\ Related \in SUBSET Passages
  BY RetrievalAssumption DEF ModeTypes, Related, Sharing

LEMMA SemanticIs ==
  ASSUME ModeTypes
  PROVE  SemanticRanking \in Rankings(SemanticFound)
<1>1. \A p \in Passages : similar[p] \in Int
  <2>1. Similarities \subseteq Nat
    BY RetrievalAssumption
  <2>2. \A p \in Passages : similar[p] \in Similarities
    BY DEF ModeTypes
  <2>3. \A p \in Passages : similar[p] \in Nat
    BY <2>1, <2>2
  <2>. QED BY <2>3
<1>2. DepthK \in Nat
  BY RetrievalAssumption
<1>. QED BY <1>1, <1>2, HitsAre DEF SemanticRanking, SemanticFound

LEMMA TypesStay ==
  ASSUME ModeTypes, mode' = mode, asked' = asked, base' = base, named' = named, similar' = similar,
         step' \in {"retrieve", "repair", "blend", "judge", "done"}
  PROVE  ModeTypes' /\ SemanticFound' = SemanticFound
  BY DEF ModeTypes, TypeOfBase, SemanticFound

\* A retrieved list is one whatever is primed.
LEMMA RetrievedNext ==
  ASSUME mode' = mode, asked' = asked, base' = base, named' = named, similar' = similar,
         ranking' \in Rankings(Related),
         mode \notin {"agentic_rag", "graph_rag"} =>
           /\ Len(ranking') <= CitedK
           /\ LexicalBest # << >> => ranking' # << >> /\ ranking'[1].p = LexicalBest[1].p,
         mode = "graph_rag" => ranking' = Graph(asked)
  PROVE  Retrieved'
  BY SameQuestion DEF Retrieved

LEMMA RetrieveKeeps ==
  ASSUME ModeInv, Retrieve
  PROVE  ModeInv'
<1>1. /\ mode' = mode /\ asked' = asked /\ base' = base /\ named' = named /\ similar' = similar
      /\ step' = "blend" /\ ModeTypes
  BY DEF Retrieve, ModeInv
<1>2. TypeOfBase /\ asked \in Seq(ToSet(asked)) /\ CitedK \in Nat /\ DepthK \in Nat /\ 1 <= CitedK /\ 1 <= DepthK
  BY <1>1, AskedIs, RetrievalAssumption
<1>3. /\ mode \in {"contextual_hybrid", "rag_fusion", "graph_rag", "multi_modal"}
      /\ ranking' = CASE mode = "contextual_hybrid" -> Hybrid(asked, CitedK)
                      [] mode = "rag_fusion" -> Fusion(asked)
                      [] mode = "graph_rag" -> Graph(asked)
                      [] mode = "multi_modal" -> Multimodal(asked)
  BY <1>1 DEF Retrieve, ModeTypes, Modes
<1>4. Retrieved'
  <2>1. CASE mode = "contextual_hybrid"
    <3>1. ranking' = Hybrid(asked, CitedK) /\ LexicalBest = Hybrid(asked, DepthK)
      BY <1>3, <2>1 DEF LexicalBest
    <3>2. ranking' \in Rankings(Related) /\ Len(ranking') <= CitedK
      BY <1>2, <3>1, HybridIs DEF Related
    <3>3. LexicalBest # << >> => ranking' # << >> /\ ranking'[1] = LexicalBest[1]
      BY <1>2, <3>1, HybridBegins
    <3>. QED BY <1>1, <2>1, <3>2, <3>3, RetrievedNext
  <2>2. CASE mode = "rag_fusion"
    <3>1. ranking' = Fusion(asked) /\ LexicalBest = Fusion(asked)
      BY <1>3, <2>2 DEF LexicalBest
    <3>2. ranking' \in Rankings(Related) /\ Len(ranking') <= CitedK
      BY <1>2, <3>1, FusionIs DEF Related
    <3>. QED BY <1>1, <2>2, <3>1, <3>2, RetrievedNext
  <2>3. CASE mode = "graph_rag"
    <3>1. ranking' = Graph(asked)
      BY <1>3, <2>3
    <3>2. ranking' \in Rankings(Related)
      BY <1>2, <3>1, GraphIs DEF Related
    <3>. QED BY <1>1, <2>3, <3>1, <3>2, RetrievedNext
  <2>4. CASE mode = "multi_modal"
    <3>1. ranking' = Multimodal(asked) /\ LexicalBest = Multimodal(asked)
      BY <1>3, <2>4 DEF LexicalBest
    <3>2. ranking' \in Rankings(Related) /\ Len(ranking') <= CitedK
      BY <1>2, <3>1, MultimodalIs DEF Related
    <3>. QED BY <1>1, <2>4, <3>1, <3>2, RetrievedNext
  <2>. QED BY <1>3, <2>1, <2>2, <2>3, <2>4
<1>. QED BY <1>1, <1>4, TypesStay DEF ModeInv

LEMMA RetrieveCorrectiveKeeps ==
  ASSUME ModeInv, RetrieveCorrective
  PROVE  ModeInv'
<1>1. /\ mode' = mode /\ asked' = asked /\ base' = base /\ named' = named /\ similar' = similar
      /\ step' = "blend" /\ ModeTypes /\ mode = "corrective"
      /\ ranking' = ToolResults("corrective", asked)
  BY DEF RetrieveCorrective, ModeInv
<1>2. TypeOfBase /\ asked \in Seq(ToSet(asked))
  BY <1>1, AskedIs
<1>3. LexicalBest = ToolResults("corrective", asked)
  BY <1>1 DEF LexicalBest
<1>4. ranking' \in Rankings(Related) /\ Len(ranking') <= CitedK
  BY <1>1, <1>2, CorrectiveIs DEF Related
<1>5. Retrieved'
  BY <1>1, <1>3, <1>4, RetrievedNext
<1>. QED BY <1>1, <1>5, TypesStay DEF ModeInv

LEMMA RunToolsKeeps ==
  ASSUME ModeInv, RunTools
  PROVE  ModeInv'
<1>. DEFINE m == Len(Plan(asked))
            plan == Plan(asked)
<1>1. /\ mode' = mode /\ asked' = asked /\ base' = base /\ named' = named /\ similar' = similar
      /\ step' \in {"blend", "repair"} /\ ModeTypes /\ mode = "agentic_rag"
      /\ ranking' = Merged(runs')
      /\ runs' = [k \in DOMAIN plan |-> [results |-> ToolResults(plan[k].tool, asked), weight |-> plan[k].weight]]
  BY DEF RunTools, ModeInv
<1>2. TypeOfBase /\ asked \in Seq(ToSet(asked)) /\ Related \in SUBSET Passages
  BY <1>1, AskedIs
<1>3. m \in Nat /\ DOMAIN plan = 1 .. m /\ \A k \in 1 .. m : plan[k].tool \in Names /\ plan[k].weight \in Int
  BY PlanIs
<1>. HIDE DEF m, plan
<1>4. \A k \in 1 .. m : ToolResults(plan[k].tool, asked) \in Rankings(Related)
  BY <1>2, <1>3, ToolResultsAre DEF Related
<1>5. runs' \in ToolRuns(Related)
  BY <1>1, <1>3, <1>4 DEF ToolRuns
<1>6. ranking' \in Rankings(Related)
  BY <1>1, <1>2, <1>5, MergedIs
<1>7. Retrieved'
  BY <1>1, <1>6, RetrievedNext
<1>8. ToolRuns(Related)' = ToolRuns(Related)
  BY <1>1, SameQuestion DEF ToolRuns
<1>9. (runs \in ToolRuns(Related))'
  BY <1>5, <1>8
<1>10. ModeTypes'
  BY <1>1, TypesStay
<1>. QED BY <1>1, <1>7, <1>9, <1>10 DEF ModeInv

LEMMA RepairToolsKeeps ==
  ASSUME ModeInv, RepairTools
  PROVE  ModeInv'
<1>. DEFINE variants == Variants(asked)
            n == Len(variants)
            more == [v \in 1 .. (Len(variants) - 1) |-> [results |-> Hybrid(variants[v + 1], CitedK), weight |-> 80]]
<1>1. /\ mode' = mode /\ asked' = asked /\ base' = base /\ named' = named /\ similar' = similar
      /\ step' = "blend" /\ ModeTypes /\ mode = "agentic_rag" /\ runs \in ToolRuns(Related)
      /\ ranking' = Merged(runs') /\ runs' = runs \o more
  BY DEF RepairTools, ModeInv
<1>2. TypeOfBase /\ asked \in Seq(ToSet(asked)) /\ Related \in SUBSET Passages /\ CitedK \in Nat
  BY <1>1, AskedIs, RetrievalAssumption
<1>3. n \in Nat /\ \A v \in 1 .. n : variants[v] \in Seq(ToSet(asked))
  BY <1>2, VariantsAre, FiniteLists
<1>4. \A v \in 1 .. (n - 1) : Hybrid(variants[v + 1], CitedK) \in Rankings(Related)
  <2>1. \A v \in 1 .. (n - 1) : v + 1 \in 1 .. n
    BY <1>3
  <2>2. \A v \in 1 .. (n - 1) : variants[v + 1] \in Seq(ToSet(asked))
    BY <1>3, <2>1
  <2>. QED BY <1>2, <2>2, HybridIs DEF Related
<1>. DEFINE Runs == [results : Rankings(Related), weight : Int]
<1>5. more \in Seq(Runs)
  <2>. DEFINE k == n - 1
  <2>. HIDE DEF variants, n
  <2>1. \A v \in 1 .. k : [results |-> Hybrid(variants[v + 1], CitedK), weight |-> 80] \in Runs
    BY <1>4
  <2>2. more = [v \in 1 .. k |-> [results |-> Hybrid(variants[v + 1], CitedK), weight |-> 80]]
    BY DEF n
  <2>3. k \in Int
    BY <1>3
  <2>. HIDE DEF Runs, more, k
  <2>4. more \in [1 .. k -> Runs]
    BY <2>1, <2>2
  <2>5. k <= 0 => more = << >>
    BY <2>3, <2>4
  <2>. QED BY <2>3, <2>4, <2>5
<1>. HIDE DEF more
<1>6. runs \in Seq(Runs)
  BY <1>1 DEF ToolRuns
<1>7. runs \o more \in Seq(Runs)
  <2>. HIDE DEF Runs
  <2>. QED BY <1>5, <1>6
<1>8. runs' \in ToolRuns(Related)
  BY <1>1, <1>7 DEF ToolRuns
<1>9. ranking' \in Rankings(Related)
  BY <1>1, <1>2, <1>8, MergedIs
<1>10. Retrieved'
  BY <1>1, <1>9, RetrievedNext
<1>. QED BY <1>1, <1>10, TypesStay DEF ModeInv

LEMMA BlendKeeps ==
  ASSUME ModeInv, Blend
  PROVE  ModeInv'
<1>. DEFINE lists == <<ranking, SemanticRanking>>
            Both == Related \cup SemanticFound
<1>1. /\ mode' = mode /\ asked' = asked /\ base' = base /\ named' = named /\ similar' = similar
      /\ step' = "judge" /\ ModeTypes /\ Retrieved
      /\ ranking' = IF SemanticRanking = << >> THEN ranking ELSE FusedRanks(lists, CitedK)
  BY DEF Blend, ModeInv
<1>2. CitedK \in Nat /\ CitedK >= 1
  BY RetrievalAssumption
<1>3. /\ ranking \in Rankings(Related) /\ SemanticRanking \in Rankings(SemanticFound)
      /\ Related \in SUBSET Passages /\ SemanticFound \in SUBSET Passages
  BY <1>1, AskedIs, SemanticIs DEF Retrieved, SemanticFound
<1>4. /\ ranking \in Rankings(Both) /\ SemanticRanking \in Rankings(Both)
      /\ ranking \in Rankings(Passages) /\ SemanticRanking \in Rankings(Passages)
  <2>1. Related \in SUBSET Both /\ SemanticFound \in SUBSET Both
    OBVIOUS
  <2>. HIDE DEF Both
  <2>. QED BY <1>3, <2>1, RankingsGrow
<1>5. lists \in Seq(Rankings(Both)) /\ Both \in SUBSET Passages
  BY <1>3, <1>4
<1>6. FusedRanks(lists, CitedK) \in Rankings(Both) /\ Len(FusedRanks(lists, CitedK)) <= CitedK
  <2>. HIDE DEF lists, Both
  <2>. QED BY <1>2, <1>5, FusedRanksAre
<1>7. ranking' \in Rankings(Both)
  BY <1>1, <1>4, <1>6
<1>8. Cited' = Members(Take(ranking', CitedK))
  BY DEF Cited
<1>9. \A p \in Cited' : p \in Both
  <2>. HIDE DEF Both
  <2>. QED BY <1>2, <1>7, <1>8, TakenMembers
<1>10. ASSUME mode \notin {"agentic_rag", "graph_rag"}, LexicalBest # << >>
       PROVE  LexicalBest[1].p \in Cited'
  <2>1. Len(ranking) <= CitedK /\ ranking # << >> /\ ranking[1].p = LexicalBest[1].p
    BY <1>1, <1>10 DEF Retrieved
  <2>2. CASE SemanticRanking = << >>
    <3>1. ranking' = ranking
      BY <1>1, <2>2
    <3>2. ranking[1].p \in Members(Take(ranking, CitedK))
      BY <1>2, <1>3, <2>1, TakenMembers
    <3>. QED BY <1>8, <2>1, <3>1, <3>2
  <2>3. CASE SemanticRanking # << >>
    <3>1. ranking' = FusedRanks(lists, CitedK)
      BY <1>1, <2>3
    <3>2. ranking[1].p \in Members(FusedRanks(lists, CitedK))
      BY <1>2, <1>4, <2>1, FirstOfTheFirstStays
    <3>. HIDE DEF lists, Both
    <3>3. Members(ranking') \subseteq Members(Take(ranking', CitedK))
      BY <1>2, <1>6, <3>1, TakenMembers
    <3>. QED BY <1>8, <2>1, <3>1, <3>2, <3>3
  <2>. QED BY <2>2, <2>3
<1>11. LexicalBest' = LexicalBest /\ Related' = Related /\ SemanticFound' = SemanticFound /\ ModeTypes'
  BY <1>1, SameQuestion, TypesStay
<1>12. Blended'
  BY <1>1, <1>9, <1>10, <1>11 DEF Blended
<1>. QED BY <1>1, <1>11, <1>12 DEF ModeInv

LEMMA JudgeKeeps ==
  ASSUME ModeInv, JudgeEvidence
  PROVE  ModeInv'
<1>1. /\ mode' = mode /\ asked' = asked /\ base' = base /\ named' = named /\ similar' = similar
      /\ step' = "done" /\ ModeTypes /\ Blended /\ ranking' = ranking
  BY DEF JudgeEvidence, ModeInv
<1>2. LexicalBest' = LexicalBest /\ Related' = Related /\ SemanticFound' = SemanticFound /\ ModeTypes'
  BY <1>1, SameQuestion, TypesStay
<1>3. Cited' = Cited
  BY <1>1 DEF Cited
<1>4. Blended'
  BY <1>1, <1>2, <1>3 DEF Blended
<1>. QED BY <1>1, <1>2, <1>4 DEF ModeInv

LEMMA NothingHappens ==
  ASSUME ModeInv, UNCHANGED modeVars
  PROVE  ModeInv'
<1>1. /\ mode' = mode /\ asked' = asked /\ base' = base /\ named' = named /\ similar' = similar
      /\ step' = step /\ runs' = runs /\ ranking' = ranking /\ ModeTypes
  BY DEF modeVars, ModeInv
<1>2. LexicalBest' = LexicalBest /\ Related' = Related /\ SemanticFound' = SemanticFound /\ ModeTypes'
      /\ Graph(asked)' = Graph(asked)
  BY <1>1, SameQuestion, TypesStay DEF ModeTypes
<1>3. Cited' = Cited
  BY <1>1 DEF Cited
<1>4. step = "judge" \/ step = "done" => Blended'
  BY <1>1, <1>2, <1>3 DEF Blended, ModeInv
<1>5. step = "blend" => Retrieved'
  BY <1>1, <1>2 DEF Retrieved, ModeInv
<1>6. step = "repair" => (mode = "agentic_rag" /\ runs \in ToolRuns(Related))'
  BY <1>1, <1>2 DEF ToolRuns, ModeInv
<1>. QED BY <1>1, <1>2, <1>4, <1>5, <1>6 DEF ModeInv

LEMMA ModeInvIsEnough ==
  ASSUME ModeInv
  PROVE  BestMatchIsCited
<1>1. ModeTypes /\ TypeOfBase /\ asked \in Seq(ToSet(asked))
  BY AskedIs DEF ModeInv
<1>2. ASSUME step \in {"judge", "done"}
      PROVE  /\ mode \notin {"agentic_rag", "graph_rag"} /\ LexicalBest # << >> => LexicalBest[1].p \in Cited
             /\ \A p \in Cited : similar[p] > 0 \/ ToSet(base[p].words) \cap ToSet(asked) # {}
  BY <1>2 DEF ModeInv, Blended, Related, SemanticFound, Sharing, WordsOf
<1>3. ASSUME mode = "graph_rag", step = "blend", NEW i \in DOMAIN ranking, NEW j \in DOMAIN ranking, i < j
      PROVE  ScoreIn(LexicalBest, ranking[i].p) + (35 * TopOf(LexicalBest)) \div 100 >= ScoreIn(LexicalBest, ranking[j].p)
  <2>1. ranking = Graph(asked) /\ LexicalBest = Hybrid(asked, DepthK)
    BY <1>3 DEF ModeInv, Retrieved, LexicalBest
  <2>2. ranking \in Rankings(Related)
    BY <1>3 DEF ModeInv, Retrieved
  <2>3. i \in 1 .. Len(Graph(asked)) /\ j \in 1 .. Len(Graph(asked))
    BY <2>1, <2>2, RankingFacts
  <2>. QED BY <1>1, <1>3, <2>1, <2>3, GraphIs
<1>. QED BY <1>2, <1>3 DEF BestMatchIsCited, LexicalBest

\* What refines a ranking never replaces it, whatever the base, the question, the entity
\* graph and the similarities: the best passage by words is cited in the modes that rank
\* by words, what is cited shares a word or has a similarity, and the graph lifts a
\* passage by no more than 35% of the best score.
THEOREM RefinementNeverReplaces == ModeSpec => []BestMatchIsCited
<1>1. ModeInit => ModeInv
  BY DEF ModeInit, ModeInv, ModeTypes, TypeOfBase
<1>2. ModeInv /\ [ModeNext]_modeVars => ModeInv'
  BY RetrieveKeeps, RetrieveCorrectiveKeeps, RunToolsKeeps, RepairToolsKeeps, BlendKeeps, JudgeKeeps,
     NothingHappens DEF ModeNext
<1>3. ModeInv => BestMatchIsCited
  BY ModeInvIsEnough
<1>. QED BY <1>1, <1>2, <1>3, PTL DEF ModeSpec

-----------------------------------------------------------------------------
\* What does not change while a question is answered, and what its terms weigh.
SettingOK == setup \in Setups /\ corpus \in [Chunks -> TermSets] /\ filters \in FilterLists
QueryOK(query) == IsFiniteSet(DOMAIN query) /\ query \in [DOMAIN query -> Nat]

LEMMA SetupFacts ==
  ASSUME setup \in Setups
  PROVE  /\ setup.budget \in Nat /\ setup.prfDocuments \in Nat /\ setup.prfTerms \in Nat
         /\ setup.survivors \in Nat
         /\ setup.candidateK \in Nat \ {0} /\ setup.topK \in Nat \ {0} /\ setup.finalK \in Nat \ {0}
         /\ setup.fraction \in 0 .. 100 /\ setup.dedup \in 0 .. 100 /\ setup.lambda \in 0 .. 100
BY PipelineAssumption

LEMMA ChunksAreFinite ==
  /\ ChunkCount \in Nat /\ IsFiniteSet(Chunks) /\ Cardinality(Chunks) = ChunkCount
  /\ Chunks \subseteq Int
<1>1. ChunkCount \in Nat
  BY PipelineAssumption
<1>2. IsFiniteSet(Chunks) /\ Cardinality(Chunks) = ChunkCount
  BY <1>1, FS_Interval DEF Chunks
<1>. QED BY <1>1, <1>2 DEF Chunks

LEMMA CorpusFacts ==
  ASSUME SettingOK, NEW c \in Chunks
  PROVE  IsFiniteSet(corpus[c])
<1>1. corpus[c] \in TermSets
  BY DEF SettingOK
<1>. QED BY <1>1, PipelineAssumption

LEMMA IdfIsANumber ==
  ASSUME NEW term
  PROVE  IdfOf(term) \in Nat
<1>. DEFINE S == {c \in Chunks : term \in corpus[c]}
<1>1. IsFiniteSet(S) /\ Cardinality(S) <= ChunkCount /\ Cardinality(S) \in Nat
  BY ChunksAreFinite, FS_Subset, FS_CardinalityType
<1>2. IdfOf(term) = Idf[Cardinality(S)]
  BY DEF IdfOf
<1>. HIDE DEF S
<1>3. Cardinality(S) \in 0 .. ChunkCount
  BY <1>1, ChunksAreFinite
<1>. QED BY <1>2, <1>3, PipelineAssumption

LEMMA EarnedIs ==
  ASSUME SettingOK, NEW query, QueryOK(query), NEW terms, NEW c \in Chunks
  PROVE  Earned(query, terms, c) \in Nat
<1>. DEFINE D == terms \cap DOMAIN query \cap corpus[c]
            f == [t \in D |-> (query[t] * IdfOf(t)) \div 1000]
<1>1. IsFiniteSet(D)
  BY FS_Subset DEF QueryOK
<1>2. ASSUME NEW t \in D PROVE f[t] \in Nat
  <2>. DEFINE a == query[t]
              b == IdfOf(t)
  <2>1. a \in Nat /\ b \in Nat
    BY IdfIsANumber DEF QueryOK
  <2>2. f[t] = (a * b) \div 1000
    OBVIOUS
  <2>. HIDE DEF a, b, f, D
  <2>3. a * b \in Nat
    BY <2>1
  <2>. QED BY <2>2, <2>3
<1>3. DOMAIN f = D
  OBVIOUS
<1>4. Earned(query, terms, c) = SumOf(f)
  BY DEF Earned
<1>. HIDE DEF f, D
<1>. QED BY <1>1, <1>2, <1>3, <1>4, SumNat

LEMMA BestTypedIs ==
  ASSUME SettingOK, allowed \subseteq Chunks, NEW query, QueryOK(query)
  PROVE  /\ BestTyped(query) \in Nat
         /\ \A c \in allowed : TypedScore(query, c) \in Nat /\ GuessScore(query, c) \in Nat
<1>. DEFINE V == {TypedScore(query, c) : c \in allowed}
            f == [c \in allowed |-> TypedScore(query, c)]
            W == {0} \cup V
<1>1. \A c \in allowed : TypedScore(query, c) \in Nat /\ GuessScore(query, c) \in Nat
  BY EarnedIs DEF TypedScore, GuessScore
<1>2. V = {f[c] : c \in allowed} /\ V \subseteq Nat
  BY <1>1
<1>3. IsFiniteSet(allowed)
  BY ChunksAreFinite, FS_Subset
<1>4. BestTyped(query) = Max(W)
  BY DEF BestTyped
<1>. HIDE DEF V, f
<1>5. IsFiniteSet(V)
  BY <1>2, <1>3, ValuesAreFinite
<1>6. IsFiniteSet(W)
  BY <1>5, FS_Singleton, FS_Union
<1>7. W \subseteq Nat /\ W # {}
  BY <1>2
<1>. HIDE DEF W
<1>8. W \subseteq Int
  BY <1>7
<1>9. Max(W) \in W
  BY <1>6, <1>7, <1>8, GreatestOfFinite
<1>. QED BY <1>1, <1>4, <1>7, <1>9

\* What the second share adds is capped below the best of the first.
LEMMA LexicalPassIs ==
  ASSUME SettingOK, allowed \subseteq Chunks, NEW query, QueryOK(query)
  PROVE  /\ DOMAIN LexicalPass(query) \subseteq allowed
         /\ \A c \in DOMAIN LexicalPass(query) : LexicalPass(query)[c] \in Int
         /\ setup.fraction \in 1 .. 99 /\ BestTyped(query) > 0 =>
              \A c \in DOMAIN LexicalPass(query) :
                TypedScore(query, c) = 0 => LexicalPass(query)[c] < 100 * BestTyped(query)
<1>1. /\ DOMAIN LexicalPass(query) \subseteq allowed
      /\ \A c \in DOMAIN LexicalPass(query) : LexicalPass(query)[c] = Total(query, c)
  BY DEF LexicalPass
<1>. DEFINE high == BestTyped(query)
            f == setup.fraction
            cap == Ceiling(query)
<1>2. high \in Nat /\ f \in 0 .. 100
  BY BestTypedIs, SetupFacts DEF SettingOK
<1>3. cap = f * high
  BY DEF Ceiling
<1>. HIDE DEF high, f, cap
<1>4. cap \in Nat /\ f \in Nat
  BY <1>2, <1>3
<1>5. f \in 1 .. 99 /\ high > 0 => cap > 0 /\ cap < 100 * high
  BY <1>2, <1>3
<1>6. ASSUME NEW c \in allowed
      PROVE  /\ Total(query, c) \in Int
             /\ cap > 0 /\ TypedScore(query, c) = 0 => Total(query, c) <= cap
  <2>. DEFINE typed == TypedScore(query, c)
              guess == 100 * GuessScore(query, c)
              low == Min({guess, cap})
  <2>1. typed \in Nat /\ GuessScore(query, c) \in Nat
    BY BestTypedIs
  <2>2. guess \in Nat
    BY <2>1
  <2>3. Total(query, c) = 100 * typed + (IF cap > 0 THEN low ELSE guess)
    BY DEF Total, cap
  <2>. HIDE DEF typed, guess
  <2>4. low = (IF guess <= cap THEN guess ELSE cap)
    BY <1>4, <2>2, OfTwo
  <2>. HIDE DEF low
  <2>5. Total(query, c) \in Int /\ (cap > 0 /\ typed = 0 => Total(query, c) <= cap)
    BY <1>4, <2>1, <2>2, <2>3, <2>4
  <2>. QED BY <2>5 DEF typed
<1>7. \A c \in allowed : Total(query, c) \in Int
  BY <1>6
<1>8. ASSUME f \in 1 .. 99, high > 0, NEW c \in DOMAIN LexicalPass(query), TypedScore(query, c) = 0
      PROVE  LexicalPass(query)[c] < 100 * high
  <2>1. Total(query, c) <= cap /\ Total(query, c) \in Int /\ LexicalPass(query)[c] = Total(query, c)
    BY <1>1, <1>5, <1>6, <1>8
  <2>2. cap < 100 * high
    BY <1>5, <1>8
  <2>. QED BY <1>2, <1>4, <2>1, <2>2
<1>. QED BY <1>1, <1>7, <1>8 DEF f, high

-----------------------------------------------------------------------------
\* Every signal is a number.
LEMMA NormalizedIs ==
  ASSUME NEW scores, IsFiniteSet(DOMAIN scores), \A d \in DOMAIN scores : scores[d] \in Int,
         NEW c \in DOMAIN scores
  PROVE  Normalized(scores, c) \in Int
<1>. DEFINE V == {scores[d] : d \in DOMAIN scores}
            v == scores[c]
            low == Min(V)
            high == Max(V)
            span == high - low
<1>1. IsFiniteSet(V)
  BY ValuesAreFinite
<1>2. V \in SUBSET Int /\ V # {} /\ v \in V
  OBVIOUS
<1>3. Normalized(scores, c) = IF v <= 0 THEN 0
        ELSE IF span = 0 THEN 1000 ELSE 50 + (950 * (v - low)) \div span
  BY DEF Normalized
<1>. HIDE DEF V, v
<1>4. low \in V /\ high \in V /\ low <= v /\ v <= high
  BY <1>1, <1>2, GreatestOfFinite, LeastOfFinite
<1>. HIDE DEF low, high
<1>5. low \in Int /\ high \in Int /\ v \in Int /\ low <= high
  BY <1>2, <1>4
<1>6. span \in Nat
  BY <1>5
<1>. HIDE DEF span
<1>7. span # 0 => (950 * (v - low)) \div span \in Int
  BY <1>5, <1>6
<1>. QED BY <1>3, <1>7

LEMMA PenalizedIs ==
  ASSUME SettingOK, NEW c \in Chunks, NEW score \in Int
  PROVE  Penalized(score, c) \in Int
<1>. DEFINE a == Cardinality(Negatives \cap corpus[c])
            b == Cardinality(Negatives)
            share == (350 * a) \div b
            p == Penalty(c)
<1>1. IsFiniteSet(Negatives)
  BY PipelineAssumption
<1>2. b \in Nat /\ (Negatives # {} => b # 0)
  BY <1>1, FS_CardinalityType, FS_EmptySet
<1>3. a \in Nat
  BY <1>1, FS_Subset, FS_CardinalityType
<1>4. p = IF Negatives = {} THEN 0 ELSE Min({950, share})
  BY DEF Penalty
<1>. HIDE DEF a, b
<1>5. b # 0 => share \in Int
  BY <1>2, <1>3
<1>. HIDE DEF share
<1>6. share \in Int => Min({950, share}) \in Int
  BY OfTwo
<1>. HIDE DEF p
<1>7. p \in Int
  BY <1>2, <1>4, <1>5, <1>6
<1>8. Penalized(score, c) = (score * (1000 - p)) \div 1000
  BY DEF Penalized, p
<1>9. score * (1000 - p) \in Int
  BY <1>7
<1>. QED BY <1>8, <1>9

LEMMA KeywordScoreIs ==
  ASSUME SettingOK, NEW c \in Chunks, Typed # {}
  PROVE  KeywordScore(c) \in Int
<1>. DEFINE a == Cardinality(Typed \cap corpus[c])
            b == Cardinality(Typed)
<1>1. IsFiniteSet(Typed)
  BY PipelineAssumption
<1>2. b \in Nat \ {0}
  BY <1>1, FS_CardinalityType, FS_EmptySet
<1>3. a \in Nat
  BY <1>1, FS_Subset, FS_CardinalityType
<1>4. KeywordScore(c) = (1000 * a) \div b
  BY DEF KeywordScore
<1>. HIDE DEF a, b
<1>. QED BY <1>2, <1>3, <1>4

LEMMA MetadataScoreIs ==
  ASSUME SettingOK, NEW c \in Chunks
  PROVE  MetadataScore(c) \in Int
<1>. DEFINE S == {i \in DOMAIN filters : c \in filters[i]}
            a == 200 * Cardinality(S)
<1>1. filters \in Seq(SUBSET (1 .. ChunkCount))
  BY PipelineAssumption DEF SettingOK
<1>2. IsFiniteSet(DOMAIN filters)
  BY <1>1, FiniteLists
<1>3. Cardinality(S) \in Nat
  BY <1>2, FS_Subset, FS_CardinalityType
<1>4. a \in Int
  BY <1>3
<1>5. MetadataScore(c) = Min({1000, a})
  BY DEF MetadataScore
<1>. HIDE DEF a
<1>. QED BY <1>4, <1>5, OfTwo

LexicalOK == /\ DOMAIN lexical \subseteq allowed /\ \A c \in DOMAIN lexical : lexical[c] \in Int
             /\ GuessesStayBelowTheTyped

\* The pool is made of allowed chunks.
LEMMA PoolIs ==
  ASSUME SettingOK, allowed \subseteq Chunks, LexicalOK, Typed # {}, BuildPool
  PROVE  /\ ranked' \in Rankings(allowed)
         /\ \A c \in Members(ranked') : retrieval'[c] \in Int
<1>1. PICK dense \in {NoScores} \cup {[d \in {c} |-> 900] : c \in allowed} :
       LET pool   == DOMAIN lexical \cup DOMAIN dense
           bm25   == [c \in pool |-> IF c \in DOMAIN lexical THEN lexical[c] ELSE 0]
           cosine == [c \in pool |-> IF c \in DOMAIN dense THEN dense[c] ELSE 0]
           fused  == [c \in pool |-> Penalized(Normalized(cosine, c) + Normalized(bm25, c)
                                       + (350 * MetadataScore(c)) \div 1000
                                       + (500 * KeywordScore(c)) \div 1000, c)]
       IN  /\ ranked' = Take(Ranked(pool, fused, InIdOrder), setup.candidateK)
           /\ retrieval' = fused
  BY DEF BuildPool
<1>. DEFINE pool   == DOMAIN lexical \cup DOMAIN dense
            bm25   == [c \in pool |-> IF c \in DOMAIN lexical THEN lexical[c] ELSE 0]
            cosine == [c \in pool |-> IF c \in DOMAIN dense THEN dense[c] ELSE 0]
            signals(c) == Normalized(cosine, c) + Normalized(bm25, c)
                          + (350 * MetadataScore(c)) \div 1000 + (500 * KeywordScore(c)) \div 1000
            fused  == [c \in pool |-> Penalized(signals(c), c)]
            r      == Ranked(pool, fused, InIdOrder)
<1>2. ranked' = Take(r, setup.candidateK) /\ retrieval' = fused
  BY <1>1
<1>3. /\ pool \subseteq allowed
      /\ \A c \in pool : cosine[c] \in Int /\ bm25[c] \in Int
  <2>1. dense = NoScores \/ \E c \in allowed : dense = [d \in {c} |-> 900]
    OBVIOUS
  <2>2. CASE dense = NoScores
    <3>1. DOMAIN dense = {}
      BY <2>2 DEF NoScores
    <3>. QED BY <3>1 DEF LexicalOK
  <2>3. CASE \E c \in allowed : dense = [d \in {c} |-> 900]
    <3>1. DOMAIN dense \subseteq allowed /\ \A d \in DOMAIN dense : dense[d] = 900
      BY <2>3
    <3>. QED BY <3>1 DEF LexicalOK
  <2>. QED BY <2>1, <2>2, <2>3
<1>4. DOMAIN bm25 = pool /\ DOMAIN cosine = pool
  OBVIOUS
<1>5. pool \subseteq Chunks
  BY <1>3
<1>. HIDE DEF bm25, cosine, pool
<1>6. IsFiniteSet(pool)
  BY <1>5, ChunksAreFinite, FS_Subset
<1>7. ASSUME NEW c \in pool PROVE signals(c) \in Int
  <2>. DEFINE a == Normalized(cosine, c)
              b == Normalized(bm25, c)
              k == KeywordScore(c)
              m == MetadataScore(c)
  <2>1. a \in Int /\ b \in Int
    BY <1>3, <1>4, <1>6, NormalizedIs
  <2>2. k \in Int /\ m \in Int
    BY <1>5, KeywordScoreIs, MetadataScoreIs
  <2>. HIDE DEF a, b, k, m
  <2>3. (350 * m) \div 1000 \in Int /\ (500 * k) \div 1000 \in Int
    BY <2>2
  <2>4. a + b + (350 * m) \div 1000 + (500 * k) \div 1000 \in Int
    BY <2>1, <2>3
  <2>. QED BY <2>4 DEF a, b, k, m
<1>8. \A c \in pool : fused[c] \in Int
  <2>. HIDE DEF signals
  <2>. QED BY <1>5, <1>7, PenalizedIs
<1>. HIDE DEF signals, fused
<1>9. \A c \in pool : InIdOrder[c] = c /\ c \in Int
  BY <1>5, ChunksAreFinite DEF InIdOrder
<1>10. r \in Rankings(pool)
  BY <1>6, <1>8, <1>9, RankedIs DEF RankedBy
<1>. HIDE DEF r
<1>11. setup.candidateK \in Nat
  BY SetupFacts DEF SettingOK
<1>12. Take(r, setup.candidateK) \in Rankings(pool)
  BY <1>10, <1>11, TakeKeepsRankings
<1>13. ranked' \in Rankings(allowed)
  BY <1>2, <1>3, <1>12, RankingsGrow
<1>14. Members(ranked') \subseteq pool
  BY <1>2, <1>12, RankingFacts
<1>. QED BY <1>2, <1>8, <1>13, <1>14

LEMMA ShareIs ==
  ASSUME QueryOK(weights), NEW terms \in SUBSET DOMAIN weights
  PROVE  SumOf([t \in terms |-> (weights[t] * Max({IdfOf(t), 50})) \div 1000]) \in Nat
<1>. DEFINE f == [t \in terms |-> (weights[t] * Max({IdfOf(t), 50})) \div 1000]
<1>1. IsFiniteSet(terms)
  BY FS_Subset DEF QueryOK
<1>2. ASSUME NEW t \in terms PROVE f[t] \in Nat
  <2>. DEFINE a == weights[t]
              i == IdfOf(t)
              m == Max({i, 50})
  <2>1. a \in Nat /\ i \in Nat
    BY IdfIsANumber DEF QueryOK
  <2>2. f[t] = (a * m) \div 1000
    OBVIOUS
  <2>. HIDE DEF a, i, f
  <2>3. m = (IF i >= 50 THEN i ELSE 50)
    BY <2>1, OfTwo
  <2>. HIDE DEF m
  <2>4. m \in Nat
    BY <2>1, <2>3
  <2>5. a * m \in Nat
    BY <2>1, <2>4
  <2>. QED BY <2>2, <2>5
<1>3. DOMAIN f = terms
  OBVIOUS
<1>. HIDE DEF f
<1>4. SumOf(f) \in Nat
  BY <1>1, <1>2, <1>3, SumNat
<1>. QED BY <1>4 DEF f

LEMMA CoverageIs ==
  ASSUME QueryOK(weights), NEW c
  PROVE  Coverage(c) \in Int
<1>. DEFINE terms == DOMAIN weights \ feedback
            a == SumOf([t \in terms |-> (weights[t] * Max({IdfOf(t), 50})) \div 1000])
            b == SumOf([t \in terms \cap corpus[c] |-> (weights[t] * Max({IdfOf(t), 50})) \div 1000])
<1>1. Coverage(c) = IF a = 0 THEN 0 ELSE (1000 * b) \div a
  BY DEF Coverage
<1>2. a \in Nat /\ b \in Nat
  BY ShareIs
<1>. HIDE DEF a, b
<1>3. a # 0 => (1000 * b) \div a \in Int
  BY <1>2
<1>. QED BY <1>1, <1>3

LEMMA InteractionScoresAre ==
  ASSUME QueryOK(weights), NEW wording
  PROVE  \A c \in DOMAIN InteractionScores(wording) : InteractionScores(wording)[c] \in Int
<1>. DEFINE g == InteractionScores(wording)
<1>1. SUFFICES ASSUME NEW c \in DOMAIN g PROVE g[c] \in Int
  OBVIOUS
<1>. DEFINE k == Coverage(c)
            w == IF c \in wording THEN 660 ELSE 0
            s == (340 * k) \div 1000 + w
<1>2. g[c] = Min({1000, s})
  BY DEF InteractionScores
<1>3. k \in Int
  BY CoverageIs
<1>. HIDE DEF k
<1>4. s \in Int
  BY <1>3
<1>. HIDE DEF s, g
<1>. QED BY <1>2, <1>4, OfTwo

LEMMA ServiceScoresAre ==
  ASSUME NEW scores \in ServiceScores
  PROVE  \A c \in DOMAIN scores : scores[c] \in Int
<1>1. PICK S \in SUBSET Members(ranked) :
        scores = [c \in S |-> IF S = {c} THEN 500 ELSE IF c = Min(S) THEN 1000 ELSE 0]
  BY DEF ServiceScores
<1>. QED BY <1>1

\* Whatever the scores, the order is one of the same candidates.
LEMMA RerankedIs ==
  ASSUME SettingOK, allowed \subseteq Chunks, ranked \in Rankings(allowed), ranked # << >>,
         \A c \in Members(ranked) : retrieval[c] \in Int,
         NEW scores, \A c \in DOMAIN scores : scores[c] \in Int
  PROVE  Reranked(scores) \in Rankings(allowed) /\ Reranked(scores) # << >>
<1>. DEFINE S == Members(ranked)
            inPool == [c \in S |-> retrieval[c]]
            blend(c) == (75 * scores[c] + 25 * Normalized(inPool, c)) \div 100
            final == [c \in S |-> IF c \in DOMAIN scores THEN Penalized(blend(c), c) ELSE retrieval[c]]
            r == Reranked(scores)
<1>1. r = Ranked(S, final, InIdOrder)
  BY DEF Reranked
<1>2. /\ ranked \in Seq(Entries(allowed)) /\ Len(ranked) \in Nat /\ DOMAIN ranked = 1 .. Len(ranked)
      /\ \A x \in S : x \in allowed
      /\ \A i \in 1 .. Len(ranked) : ranked[i].p \in S
  BY RankingFacts
<1>3. S \subseteq Chunks /\ S \subseteq allowed
  BY <1>2
<1>4. 1 \in 1 .. Len(ranked)
  BY <1>2, EmptySeq
<1>5. ranked[1].p \in S
  BY <1>2, <1>4
<1>. DEFINE n == Len(ranked)
<1>6. IsFiniteSet(S)
  BY <1>3, ChunksAreFinite, FS_Subset
<1>7. DOMAIN inPool = S /\ \A d \in S : inPool[d] \in Int
  OBVIOUS
<1>. HIDE DEF inPool, r
<1>8. ASSUME NEW c \in S, c \in DOMAIN scores PROVE blend(c) \in Int
  <2>. DEFINE a == scores[c]
              b == Normalized(inPool, c)
  <2>1. a \in Int /\ b \in Int
    BY <1>6, <1>7, <1>8, NormalizedIs
  <2>. HIDE DEF a, b
  <2>2. (75 * a + 25 * b) \div 100 \in Int
    BY <2>1
  <2>. QED BY <2>2 DEF a, b
<1>9. \A c \in S : final[c] \in Int
  <2>. HIDE DEF blend, S
  <2>. QED BY <1>3, <1>8, PenalizedIs DEF S
<1>10. \A c \in S : InIdOrder[c] = c /\ c \in Int
  BY <1>3, ChunksAreFinite DEF InIdOrder
<1>. HIDE DEF final, S
<1>11. RankedBy(r, S, final, InIdOrder)
  BY <1>1, <1>6, <1>9, <1>10, RankedIs
<1>12. r \in Rankings(S) /\ \A x \in S : \E i \in 1 .. Len(r) : r[i].p = x
  BY <1>11 DEF RankedBy
<1>13. r \in Rankings(allowed)
  BY <1>3, <1>12, RankingsGrow
<1>14. r # << >>
  <2>1. PICK i \in 1 .. Len(r) : r[i].p = ranked[1].p
    BY <1>5, <1>12
  <2>. QED BY <2>1
<1>. QED BY <1>13, <1>14 DEF r

LEMMA CutIsNotEmpty ==
  ASSUME NEW S, NEW r \in Rankings(S), r # << >>, NEW n \in Nat \ {0}
  PROVE  Take(r, n) \in Rankings(S) /\ Take(r, n) # << >>
<1>1. /\ Take(r, n) \in Rankings(S)
      /\ Len(Take(r, n)) = (IF n <= Len(r) THEN n ELSE Len(r))
  BY TakeKeepsRankings
<1>2. Len(r) \in Nat /\ r \in Seq(Entries(S))
  BY RankingFacts
<1>3. Len(r) # 0
  BY <1>2, EmptySeq
<1>4. Len(Take(r, n)) # 0
  BY <1>1, <1>2, <1>3
<1>. QED BY <1>1, <1>4

LEMMA RerankIs ==
  ASSUME SettingOK, QueryOK(weights), allowed \subseteq Chunks,
         ranked \in Rankings(allowed), ranked # << >>,
         \A c \in Members(ranked) : retrieval[c] \in Int, Rerank
  PROVE  ranked' \in Rankings(allowed) /\ ranked' # << >>
<1>1. setup.topK \in Nat \ {0}
  BY SetupFacts DEF SettingOK
<1>2. ASSUME NEW r \in Rankings(allowed), r # << >>, ranked' = Take(r, setup.topK)
      PROVE  ranked' \in Rankings(allowed) /\ ranked' # << >>
  BY <1>1, <1>2, CutIsNotEmpty
<1>3. CASE ranked' = Take(ranked, setup.topK)
  BY <1>2, <1>3
<1>4. CASE \E wording : ranked' = Take(Reranked(InteractionScores(wording)), setup.topK)
  <2>1. PICK wording : ranked' = Take(Reranked(InteractionScores(wording)), setup.topK)
    BY <1>4
  <2>. DEFINE scores == InteractionScores(wording)
  <2>2. \A c \in DOMAIN scores : scores[c] \in Int
    BY InteractionScoresAre
  <2>. HIDE DEF scores
  <2>3. Reranked(scores) \in Rankings(allowed) /\ Reranked(scores) # << >>
    BY <2>2, RerankedIs
  <2>. QED BY <1>2, <2>1, <2>3 DEF scores
<1>5. CASE \E scores \in ServiceScores : ranked' = Take(Reranked(scores), setup.topK)
  <2>1. PICK scores \in ServiceScores : ranked' = Take(Reranked(scores), setup.topK)
    BY <1>5
  <2>2. \A c \in DOMAIN scores : scores[c] \in Int
    BY ServiceScoresAre
  <2>3. Reranked(scores) \in Rankings(allowed) /\ Reranked(scores) # << >>
    BY <2>2, RerankedIs
  <2>. QED BY <1>2, <2>1, <2>3
<1>. QED BY <1>3, <1>4, <1>5 DEF Rerank

LEMMA WordsOfChunksAreFinite ==
  ASSUME SettingOK, NEW S \in SUBSET Chunks
  PROVE  IsFiniteSet(UNION {corpus[c] : c \in S})
<1>. DEFINE V == {corpus[c] : c \in S}
<1>1. IsFiniteSet(S)
  BY ChunksAreFinite, FS_Subset
<1>2. IsFiniteSet(V)
  BY <1>1, ValuesAreFinite
<1>3. \A T \in V : IsFiniteSet(T)
  BY CorpusFacts
<1>. HIDE DEF V
<1>4. IsFiniteSet(UNION V)
  BY <1>2, <1>3, FS_UNION
<1>. QED BY <1>4 DEF V

LEMMA FeedbackIsFinite ==
  ASSUME SettingOK, NEW scores, DOMAIN scores \subseteq Chunks,
         \A c \in DOMAIN scores : scores[c] \in Int
  PROVE  IsFiniteSet(FeedbackTerms(scores))
<1>. DEFINE r     == Ranked(DOMAIN scores, scores, InIdOrder)
            best  == Members(Take(r, setup.prfDocuments))
            T     == (UNION {corpus[c] : c \in best}) \ DOMAIN weights
            terms == SetToSeq(T)
            D     == DOMAIN terms
            value == [i \in D |-> SumOf([c \in {c \in best : terms[i] \in corpus[c]} |->
                                          IdfOf(terms[i]) \div Cardinality(corpus[c])])]
            I     == {i \in D : value[i] > 0}
            key   == [i \in D |-> i]
            order == Ranked(I, value, key)
            top   == Take(order, setup.prfTerms)
<1>1. FeedbackTerms(scores) = {terms[i] : i \in Members(top)}
  BY DEF FeedbackTerms
<1>2. setup.prfDocuments \in Nat /\ setup.prfTerms \in Nat
  BY SetupFacts DEF SettingOK
<1>3. IsFiniteSet(DOMAIN scores)
  BY ChunksAreFinite, FS_Subset
<1>4. \A c \in DOMAIN scores : InIdOrder[c] = c /\ c \in Int
  BY ChunksAreFinite DEF InIdOrder
<1>5. r \in Rankings(DOMAIN scores)
  BY <1>3, <1>4, RankedIs DEF RankedBy
<1>. HIDE DEF r
<1>6. best \subseteq Chunks
  BY <1>2, <1>5, TakenMembers
<1>. HIDE DEF best
<1>7. IsFiniteSet(T)
  <2>. DEFINE all == UNION {corpus[c] : c \in best}
  <2>1. IsFiniteSet(all)
    BY <1>6, WordsOfChunksAreFinite
  <2>. HIDE DEF all
  <2>2. IsFiniteSet(all \ DOMAIN weights)
    BY <2>1, FS_Subset
  <2>. QED BY <2>2 DEF all
<1>. HIDE DEF T
<1>8. /\ Cardinality(T) \in Nat
      /\ terms \in [1 .. Cardinality(T) -> T]
  <2>1. Cardinality(T) \in Nat /\ ExistsBijection(1 .. Cardinality(T), T)
    BY <1>7, FS_CardinalityType
  <2>2. PICK f \in [1 .. Cardinality(T) -> T] : IsInjective(f)
    BY <2>1 DEF ExistsBijection, Bijection, Injection
  <2>. QED BY <2>1, <2>2 DEF SetToSeq
<1>. HIDE DEF terms
<1>9. D = 1 .. Cardinality(T) /\ IsFiniteSet(D) /\ D \subseteq Int
  BY <1>8, FS_Interval
<1>10. ASSUME NEW i \in D PROVE value[i] \in Int
  <2>. DEFINE S == {c \in best : terms[i] \in corpus[c]}
              w == IdfOf(terms[i])
              f == [c \in S |-> w \div Cardinality(corpus[c])]
  <2>1. IsFiniteSet(S) /\ S \subseteq Chunks
    BY <1>6, ChunksAreFinite, FS_Subset
  <2>2. w \in Nat
    BY IdfIsANumber
  <2>3. ASSUME NEW c \in S PROVE f[c] \in Int
    <3>. DEFINE n == Cardinality(corpus[c])
    <3>1. IsFiniteSet(corpus[c]) /\ corpus[c] # {}
      BY <2>1, CorpusFacts
    <3>2. n \in Nat /\ n # 0
      BY <3>1, FS_CardinalityType, FS_EmptySet
    <3>3. f[c] = w \div n
      OBVIOUS
    <3>. HIDE DEF w, n, f
    <3>. QED BY <2>2, <3>2, <3>3
  <2>4. value[i] = SumOf(f)
    OBVIOUS
  <2>5. DOMAIN f = S
    OBVIOUS
  <2>. HIDE DEF f, S, value
  <2>. QED BY <2>1, <2>3, <2>4, <2>5, SumType
<1>. HIDE DEF value
<1>11. IsFiniteSet(I) /\ I \subseteq D
  BY <1>9, FS_Subset
<1>12. \A i \in I : value[i] \in Int /\ key[i] = i /\ i \in Int
  BY <1>9, <1>10, <1>11
<1>. HIDE DEF I, key
<1>13. RankedBy(order, I, value, key)
  BY <1>11, <1>12, RankedIs
<1>14. order \in Rankings(I)
  BY <1>13 DEF RankedBy
<1>. HIDE DEF order
<1>15. Members(top) \subseteq I
  BY <1>2, <1>14, TakenMembers
<1>. HIDE DEF top
<1>16. IsFiniteSet(Members(top))
  BY <1>11, <1>15, FS_Subset
<1>. DEFINE found == {terms[i] : i \in Members(top)}
<1>17. IsFiniteSet(found)
  BY <1>16, ValuesAreFinite
<1>. QED BY <1>1, <1>17

\* What a score is made of stays while these do.
LEMMA SameScores ==
  ASSUME setup' = setup, corpus' = corpus, allowed' = allowed
  PROVE  /\ \A query : BestTyped(query)' = BestTyped(query)
         /\ \A query, c : TypedScore(query, c)' = TypedScore(query, c)
<1>1. \A t : IdfOf(t)' = IdfOf(t)
  BY DEF IdfOf, Chunks
<1>2. \A query, terms, c : Earned(query, terms, c)' = Earned(query, terms, c)
  <2>. SUFFICES ASSUME NEW query, NEW terms, NEW c
                PROVE  Earned(query, terms, c)' = Earned(query, terms, c)
    OBVIOUS
  <2>1. [t \in terms \cap DOMAIN query \cap corpus'[c] |-> (query[t] * IdfOf(t)') \div 1000]
        = [t \in terms \cap DOMAIN query \cap corpus[c] |-> (query[t] * IdfOf(t)) \div 1000]
    BY <1>1
  <2>. QED BY <2>1 DEF Earned
<1>3. \A query, c : TypedScore(query, c)' = TypedScore(query, c)
  BY <1>2 DEF TypedScore
<1>4. \A query : BestTyped(query)' = BestTyped(query)
  <2>. SUFFICES ASSUME NEW query PROVE BestTyped(query)' = BestTyped(query)
    OBVIOUS
  <2>1. {TypedScore(query, c)' : c \in allowed'} = {TypedScore(query, c) : c \in allowed}
    BY <1>3
  <2>. QED BY <2>1 DEF BestTyped
<1>. QED BY <1>3, <1>4

LEMMA SameLexical ==
  ASSUME setup' = setup, corpus' = corpus, allowed' = allowed
  PROVE  /\ BestTyped(weights)' = BestTyped(weights')
         /\ \A c : TypedScore(weights, c)' = TypedScore(weights', c)
BY SameScores

\* Expansion gives every term of the query a weight.
LEMMA ExpandIs ==
  ASSUME SettingOK, Expand
  PROVE  QueryOK(weights')
<1>. DEFINE D == Typed \cup Accepted
            E == DOMAIN Expansions
<1>1. weights' = [t \in D |-> WeightOf(t)]
  BY DEF Expand
<1>2. /\ IsFiniteSet(E) /\ \A i \in E : Expansions[i].weight \in Nat
      /\ IsFiniteSet(Typed)
  BY PipelineAssumption, FiniteLists
<1>3. setup.budget \in Nat
  BY SetupFacts DEF SettingOK
<1>4. ASSUME NEW t \in Accepted PROVE setup.budget # 0 /\ OffersOf(t) # {}
  <2>1. PICK i \in NewTerms : t = Expansions[i].term
                              /\ Cardinality({j \in NewTerms : j < i}) < setup.budget
    BY DEF Accepted
  <2>2. i \in OffersOf(t)
    BY <2>1 DEF OffersOf, NewTerms
  <2>3. {j \in NewTerms : j < i} \subseteq E
    BY DEF NewTerms
  <2>4. Cardinality({j \in NewTerms : j < i}) \in Nat
    BY <1>2, <2>3, FS_Subset, FS_CardinalityType
  <2>. QED BY <1>3, <2>1, <2>2, <2>4
<1>5. IsFiniteSet(D)
  <2>. DEFINE S == {i \in NewTerms : Cardinality({j \in NewTerms : j < i}) < setup.budget}
              termOf == [i \in S |-> Expansions[i].term]
  <2>1. Accepted = {termOf[i] : i \in S}
    BY DEF Accepted
  <2>2. IsFiniteSet(S)
    BY <1>2, FS_Subset DEF NewTerms
  <2>. HIDE DEF S, termOf
  <2>3. IsFiniteSet(Accepted)
    BY <2>1, <2>2, ValuesAreFinite
  <2>. QED BY <1>2, <2>3, FS_Union
<1>6. ASSUME NEW t \in D PROVE WeightOf(t) \in Nat
  <2>. DEFINE O == OffersOf(t)
              V == {Expansions[i].weight : i \in O}
              weight == [i \in O |-> Expansions[i].weight]
              own == IF t \in Typed THEN {1000} ELSE {}
              lent == IF setup.budget = 0 THEN {} ELSE V
              W == own \cup lent
  <2>1. O \subseteq E
    BY DEF OffersOf
  <2>2. IsFiniteSet(O) /\ V = {weight[i] : i \in O} /\ V \subseteq Nat
    BY <1>2, <2>1, FS_Subset
  <2>3. O # {} => V # {}
    OBVIOUS
  <2>4. WeightOf(t) = Max(W)
    BY DEF WeightOf
  <2>. HIDE DEF V, weight
  <2>5. IsFiniteSet(V)
    BY <2>2, ValuesAreFinite
  <2>6. (own = {1000} \/ own = {}) /\ (lent = V \/ lent = {})
    OBVIOUS
  <2>7. IsFiniteSet({1000}) /\ IsFiniteSet({})
    <3>1. \A x : IsFiniteSet({x})
      BY FS_Singleton
    <3>. QED BY <3>1, FS_EmptySet
  <2>8. W # {}
    BY <1>4, <2>3
  <2>. HIDE DEF own, lent
  <2>9. IsFiniteSet(W) /\ W \subseteq Nat
    <3>1. IsFiniteSet(own) /\ IsFiniteSet(lent)
      BY <2>5, <2>6, <2>7
    <3>2. IsFiniteSet(W)
      BY <3>1, FS_Union
    <3>3. \A x \in own : x \in Nat
      BY <2>6
    <3>4. \A x \in lent : x \in Nat
      BY <2>2, <2>6
    <3>5. W \subseteq Nat
      BY <3>3, <3>4
    <3>. QED BY <3>2, <3>5
  <2>. HIDE DEF W
  <2>10. W \subseteq Int
    BY <2>9
  <2>11. Max(W) \in W
    BY <2>8, <2>9, <2>10, GreatestOfFinite
  <2>. QED BY <2>4, <2>9, <2>11
<1>. HIDE DEF D
<1>7. DOMAIN weights' = D /\ weights' \in [D -> Nat]
  BY <1>1, <1>6
<1>. QED BY <1>5, <1>6, <1>7 DEF QueryOK

\* Feedback leaves the query one, and what the words match of the allowed chunks.
LEMMA MatchIs ==
  ASSUME SettingOK, QueryOK(weights), allowed \subseteq Chunks, MatchTerms
  PROVE  QueryOK(weights') /\ LexicalOK'
<1>. DEFINE first == LexicalPass(weights)
            found == FeedbackTerms(first)
<1>1. /\ weights' = [t \in DOMAIN weights \cup found |-> IF t \in found THEN 250 ELSE weights[t]]
      /\ lexical' = IF found = {} THEN first ELSE LexicalPass(weights')
      /\ setup' = setup /\ corpus' = corpus /\ allowed' = allowed
  BY DEF MatchTerms
<1>2. IsFiniteSet(found)
  <2>1. DOMAIN first \subseteq Chunks /\ \A c \in DOMAIN first : first[c] \in Int
    BY LexicalPassIs
  <2>. HIDE DEF first
  <2>. QED BY <2>1, FeedbackIsFinite
<1>. HIDE DEF found
<1>3. QueryOK(weights')
  <2>1. DOMAIN weights' = DOMAIN weights \cup found
    BY <1>1
  <2>2. IsFiniteSet(DOMAIN weights')
    BY <1>2, <2>1, FS_Union DEF QueryOK
  <2>3. weights' \in [DOMAIN weights' -> Nat]
    BY <1>1 DEF QueryOK
  <2>. QED BY <2>2, <2>3 DEF QueryOK
<1>4. PICK query : QueryOK(query) /\ query = weights' /\ lexical' = LexicalPass(query)
  <2>1. CASE found = {}
    <3>1. weights' = weights
      BY <1>1, <2>1 DEF QueryOK
    <3>. QED BY <1>1, <1>3, <2>1, <3>1
  <2>2. CASE found # {}
    BY <1>1, <1>3, <2>2
  <2>. QED BY <2>1, <2>2
<1>. HIDE DEF first
<1>5. /\ DOMAIN lexical' \subseteq allowed' /\ \A c \in DOMAIN lexical' : lexical'[c] \in Int
      /\ setup'.fraction \in 1 .. 99 /\ BestTyped(query) > 0 =>
           \A c \in DOMAIN lexical' : TypedScore(query, c) = 0 => lexical'[c] < 100 * BestTyped(query)
  BY <1>1, <1>4, LexicalPassIs
<1>6. /\ BestTyped(weights)' = BestTyped(query)
      /\ \A c : TypedScore(weights, c)' = TypedScore(query, c)
  BY <1>1, <1>4, SameScores
<1>. QED BY <1>3, <1>5, <1>6 DEF LexicalOK, GuessesStayBelowTheTyped

-----------------------------------------------------------------------------
\* The filters leave chunks of the base.
LEMMA LeftIs ==
  ASSUME NEW list \in Seq(SUBSET Chunks)
  PROVE  Left(list) \subseteq Chunks
<1>. DEFINE n == Len(list)
            Then(k, T) == IF Cardinality(T \cap list[k]) >= setup.survivors THEN T \cap list[k] ELSE T
            Rest(f, k) == IF k = 0 THEN Chunks
                          ELSE IF Cardinality(f[k - 1] \cap list[k]) >= setup.survivors
                               THEN f[k - 1] \cap list[k] ELSE f[k - 1]
            left == CHOOSE f : f = [k \in 0 .. n |-> Rest(f, k)]
            P == SUBSET Chunks
            onward == [x \in (1 .. n) \X P |-> Then(x[1], x[2])]
<1>1. n \in Nat
  OBVIOUS
<1>2. Left(list) = left[n]
  BY DEF Left
<1>. HIDE DEF n
<1>3. \A k, T : T \in P => Then(k, T) \in P
  OBVIOUS
<1>4. \A f, k : Rest(f, k) = IF k = 0 THEN Chunks ELSE Then(k, f[k - 1])
  OBVIOUS
<1>. HIDE DEF Then, Rest
<1>5. onward \in [(1 .. n) \X P -> P] /\ \A k \in 1 .. n, w \in P : onward[<<k, w>>] = Then(k, w)
  BY <1>3
<1>6. Chunks \in P
  OBVIOUS
<1>. HIDE DEF onward, P
<1>7. PICK f \in [0 .. n -> P] : Walks(f, n, Chunks, onward)
  BY <1>1, <1>5, <1>6, StepByStep
<1>8. f[0] = Chunks /\ \A k \in 1 .. n : f[k] = onward[<<k, f[k - 1]>>]
  BY <1>7 DEF Walks
<1>9. ASSUME NEW k \in 0 .. n PROVE f[k] = Rest(f, k)
  <2>1. CASE k = 0
    BY <1>4, <1>8, <2>1
  <2>2. CASE k # 0
    <3>1. k \in 1 .. n /\ k - 1 \in 0 .. n
      BY <1>1, <2>2
    <3>2. f[k - 1] \in P
      BY <3>1
    <3>. QED BY <1>4, <1>5, <1>8, <2>2, <3>1, <3>2
  <2>. QED BY <2>1, <2>2
<1>10. f = [k \in 0 .. n |-> Rest(f, k)]
  BY <1>9
<1>11. left = [k \in 0 .. n |-> Rest(left, k)]
  BY <1>10
<1>. HIDE DEF left
<1>12. left[0] = Chunks /\ \A k \in 1 .. n : left[k] = Then(k, left[k - 1])
  <2>1. 0 \in 0 .. n /\ \A k \in 1 .. n : k \in 0 .. n /\ k # 0
    BY <1>1
  <2>. QED BY <1>4, <1>11, <2>1
<1>. DEFINE Good == {k \in 0 .. n : left[k] \in P}
<1>13. 0 \in Good
  BY <1>1, <1>6, <1>12
<1>14. ASSUME NEW k \in 1 .. n, k - 1 \in Good PROVE k \in Good
  <2>1. k \in 0 .. n /\ left[k - 1] \in P
    BY <1>1, <1>14
  <2>. QED BY <1>3, <1>12, <2>1
<1>. HIDE DEF Good
<1>15. \A k \in 0 .. n : k \in Good
  BY <1>1, <1>13, <1>14, Climbing
<1>16. n \in Good
  BY <1>1, <1>15
<1>. QED BY <1>2, <1>16 DEF Good, P

-----------------------------------------------------------------------------
\* What deduplication keeps of a list.
LEMMA CopiesGoBothWays ==
  ASSUME NEW c, NEW d
  PROVE  Copies(c, d) <=> Copies(d, c)
<1>1. {Cardinality(corpus[c]), Cardinality(corpus[d])} = {Cardinality(corpus[d]), Cardinality(corpus[c])}
      /\ corpus[c] \cap corpus[d] = corpus[d] \cap corpus[c]
  OBVIOUS
<1>2. Overlap(c, d) = Overlap(d, c)
  BY <1>1 DEF Overlap
<1>. QED BY <1>2 DEF Copies

\* The places, of the first k, that survive: each other one says what an earlier one
\* that survives says.
Surviving(list, k, S) ==
  /\ S \subseteq 1 .. k /\ (k >= 1 => 1 \in S)
  /\ \A i, j \in S : i # j => ~ Copies(list[i].p, list[j].p)
  /\ \A i \in 1 .. k : i \in S \/ \E j \in S : j < i /\ Copies(list[i].p, list[j].p)

LEMMA SurvivingNext ==
  ASSUME NEW list, NEW k \in Nat \ {0}, NEW T, Surviving(list, k - 1, T), NEW S,
         S = IF \E i \in T : Copies(list[k].p, list[i].p) THEN T ELSE T \cup {k}
  PROVE  Surviving(list, k, S)
<1>. DEFINE twin(i, j) == Copies(list[i].p, list[j].p)
<1>1. /\ T \subseteq 1 .. (k - 1) /\ (k - 1 >= 1 => 1 \in T)
      /\ \A i, j \in T : i # j => ~ twin(i, j)
      /\ \A i \in 1 .. (k - 1) : i \in T \/ \E j \in T : j < i /\ twin(i, j)
  BY DEF Surviving
<1>2. S = IF \E i \in T : twin(k, i) THEN T ELSE T \cup {k}
  OBVIOUS
<1>3. \A i, j : twin(i, j) <=> twin(j, i)
  BY CopiesGoBothWays
<1>4. Surviving(list, k, S) <=>
        /\ S \subseteq 1 .. k /\ (k >= 1 => 1 \in S)
        /\ \A i, j \in S : i # j => ~ twin(i, j)
        /\ \A i \in 1 .. k : i \in S \/ \E j \in S : j < i /\ twin(i, j)
  BY DEF Surviving
<1>. HIDE DEF twin
<1>5. T \subseteq S /\ S \subseteq T \cup {k} /\ \A i \in T : i \in 1 .. k /\ i < k /\ i \in 1 .. (k - 1)
  BY <1>1, <1>2
<1>6. S \subseteq 1 .. k
  BY <1>5
<1>7. 1 \in S
  <2>1. CASE k = 1
    <3>1. T = {}
      BY <1>1, <2>1
    <3>. QED BY <1>2, <2>1, <3>1
  <2>2. CASE k # 1
    <3>1. k - 1 >= 1
      BY <2>2
    <3>. QED BY <1>1, <1>5, <3>1
  <2>. QED BY <2>1, <2>2
<1>8. \A i, j \in S : i # j => ~ twin(i, j)
  BY <1>1, <1>2, <1>3
<1>9. ASSUME NEW i \in 1 .. k PROVE i \in S \/ \E j \in S : j < i /\ twin(i, j)
  <2>1. i \in 1 .. (k - 1) \/ i = k
    OBVIOUS
  <2>2. CASE i \in 1 .. (k - 1)
    BY <1>1, <1>5, <2>2
  <2>3. CASE i = k
    BY <1>2, <1>5, <2>3
  <2>. QED BY <2>1, <2>2, <2>3
<1>. QED BY <1>4, <1>6, <1>7, <1>8, <1>9

LEMMA SurvivorsAre ==
  ASSUME NEW list, Len(list) \in Nat
  PROVE  Surviving(list, Len(list), Survivors(list))
<1>. DEFINE n == Len(list)
            Then(k, T) == IF \E i \in T : Copies(list[k].p, list[i].p) THEN T ELSE T \cup {k}
            Rest(f, k) == IF k = 0 THEN {}
                          ELSE IF \E i \in f[k - 1] : Copies(list[k].p, list[i].p) THEN f[k - 1]
                          ELSE f[k - 1] \cup {k}
            upTo == CHOOSE f : f = [k \in 0 .. n |-> Rest(f, k)]
            P == SUBSET (1 .. n)
            onward == [x \in (1 .. n) \X P |-> Then(x[1], x[2])]
<1>1. n \in Nat
  OBVIOUS
<1>2. Survivors(list) = upTo[n]
  BY DEF Survivors
<1>. HIDE DEF n
<1>3. \A k \in 1 .. n : \A T \in P : Then(k, T) \in P
  OBVIOUS
<1>4. \A f, k : Rest(f, k) = IF k = 0 THEN {} ELSE Then(k, f[k - 1])
  OBVIOUS
<1>5. ASSUME NEW k \in Nat \ {0}, NEW T, Surviving(list, k - 1, T) PROVE Surviving(list, k, Then(k, T))
  BY <1>5, SurvivingNext
<1>. HIDE DEF Then, Rest
<1>6. onward \in [(1 .. n) \X P -> P] /\ \A k \in 1 .. n, w \in P : onward[<<k, w>>] = Then(k, w)
  BY <1>3
<1>7. {} \in P
  OBVIOUS
<1>. HIDE DEF onward, P
<1>8. PICK f \in [0 .. n -> P] : Walks(f, n, {}, onward)
  BY <1>1, <1>6, <1>7, StepByStep
<1>9. f[0] = {} /\ \A k \in 1 .. n : f[k] = onward[<<k, f[k - 1]>>]
  BY <1>8 DEF Walks
<1>10. ASSUME NEW k \in 0 .. n PROVE f[k] = Rest(f, k)
  <2>1. CASE k = 0
    BY <1>4, <1>9, <2>1
  <2>2. CASE k # 0
    <3>1. k \in 1 .. n /\ k - 1 \in 0 .. n
      BY <1>1, <2>2
    <3>2. f[k - 1] \in P
      BY <3>1
    <3>. QED BY <1>4, <1>6, <1>9, <2>2, <3>1, <3>2
  <2>. QED BY <2>1, <2>2
<1>11. f = [k \in 0 .. n |-> Rest(f, k)]
  BY <1>10
<1>12. upTo = [k \in 0 .. n |-> Rest(upTo, k)]
  BY <1>11
<1>. HIDE DEF upTo
<1>13. upTo[0] = {} /\ \A k \in 1 .. n : upTo[k] = Then(k, upTo[k - 1])
  <2>1. 0 \in 0 .. n /\ \A k \in 1 .. n : k \in 0 .. n /\ k # 0
    BY <1>1
  <2>. QED BY <1>4, <1>12, <2>1
<1>. DEFINE Good == {k \in 0 .. n : Surviving(list, k, upTo[k])}
<1>14. 0 \in Good
  <2>1. 0 \in 0 .. n
    BY <1>1
  <2>2. Surviving(list, 0, {})
    BY DEF Surviving
  <2>. QED BY <1>13, <2>1, <2>2
<1>15. ASSUME NEW k \in 1 .. n, k - 1 \in Good PROVE k \in Good
  <2>1. k \in Nat \ {0} /\ k \in 0 .. n /\ Surviving(list, k - 1, upTo[k - 1])
    BY <1>1, <1>15
  <2>. QED BY <1>5, <1>13, <2>1
<1>. HIDE DEF Good
<1>16. n \in Good
  BY <1>1, <1>14, <1>15, Climbing
<1>. QED BY <1>2, <1>16 DEF Good, n

KeptOK ==
  /\ kept \in Rankings(allowed) /\ kept # << >> /\ kept[1] = ranked[1]
  /\ \A i, j \in 1 .. Len(kept) : i # j => ~ Copies(kept[i].p, kept[j].p)
  /\ \A i \in 1 .. Len(ranked) :
       \/ ranked[i].p \in Members(kept)
       \/ \E k \in 1 .. (i - 1) : ranked[k].p \in Members(kept) /\ Copies(ranked[i].p, ranked[k].p)

LEMMA SameCopies ==
  ASSUME setup' = setup, corpus' = corpus
  PROVE  \A c, d : Copies(c, d)' <=> Copies(c, d)
BY DEF Copies, Overlap

LEMMA DeduplicateIs ==
  ASSUME ranked \in Rankings(allowed), ranked # << >>, Deduplicate
  PROVE  KeptOK'
<1>. DEFINE S == Survivors(ranked)
            n == Len(ranked)
            order == Ascending(S)
            m == Cardinality(S)
            twin(i, j) == Copies(ranked[i].p, ranked[j].p)
<1>1. /\ kept' = [k \in DOMAIN order |-> ranked[order[k]]]
      /\ ranked' = ranked /\ allowed' = allowed /\ setup' = setup /\ corpus' = corpus
  BY DEF Deduplicate
<1>2. /\ ranked \in Seq(Entries(allowed)) /\ n \in Nat /\ DOMAIN ranked = 1 .. n
      /\ \A i \in 1 .. n : ranked[i] \in Entries(allowed)
      /\ \A i, j \in 1 .. n : ranked[i].p = ranked[j].p => i = j
  BY RankingFacts
<1>3. n # 0
  BY <1>2, EmptySeq
<1>4. Surviving(ranked, n, S)
  BY <1>2, SurvivorsAre
<1>. HIDE DEF S, n
<1>5. /\ S \subseteq 1 .. n /\ 1 \in S
      /\ \A i, j \in S : i # j => ~ twin(i, j)
      /\ \A i \in 1 .. n : i \in S \/ \E j \in S : j < i /\ twin(i, j)
  BY <1>2, <1>3, <1>4 DEF Surviving
<1>6. S \in SUBSET Int /\ IsFiniteSet(S)
  <2>1. IsFiniteSet(1 .. n) /\ \A i \in S : i \in Int
    BY <1>2, <1>5, FS_Interval
  <2>. QED BY <1>5, <2>1, FS_Subset
<1>7. /\ m \in Nat /\ order \in [1 .. m -> S]
      /\ \A x \in S : \E k \in 1 .. m : order[k] = x
      /\ \A i, j \in 1 .. m : i < j => order[i] < order[j]
  BY <1>6, AscendingRises
<1>. HIDE DEF order, m, twin
<1>8. kept' = [k \in 1 .. m |-> ranked[order[k]]]
  BY <1>1, <1>7
<1>9. \A k \in 1 .. m : order[k] \in S /\ order[k] \in 1 .. n /\ order[k] \in Int
  BY <1>5, <1>6, <1>7
<1>10. kept' \in [1 .. m -> Entries(allowed)]
  BY <1>2, <1>8, <1>9
<1>11. kept' \in Seq(Entries(allowed)) /\ Len(kept') = m
  BY <1>7, <1>10
<1>12. \A k \in 1 .. m : kept'[k] = ranked[order[k]]
  BY <1>8
<1>13. \A i, j \in 1 .. m : order[i] = order[j] => i = j
  <2>. SUFFICES ASSUME NEW i \in 1 .. m, NEW j \in 1 .. m, i # j PROVE order[i] # order[j]
    OBVIOUS
  <2>1. i < j \/ j < i
    BY <1>7
  <2>2. order[i] \in Int /\ order[j] \in Int
    BY <1>9
  <2>. QED BY <1>7, <2>1, <2>2
<1>14. kept' \in Rankings(allowed)
  <2>1. \A i, j \in 1 .. m : kept'[i].p = kept'[j].p => i = j
    BY <1>2, <1>9, <1>12, <1>13
  <2>. QED BY <1>11, <2>1 DEF Rankings
<1>15. m # 0 /\ order[1] = 1
  <2>1. PICK k \in 1 .. m : order[k] = 1
    BY <1>5, <1>7
  <2>2. 1 \in 1 .. m /\ (k = 1 \/ 1 < k)
    BY <1>7
  <2>3. order[1] \in Int /\ 1 <= order[1]
    BY <1>9, <2>2
  <2>. QED BY <1>7, <2>1, <2>2, <2>3
<1>16. kept' # << >> /\ kept'[1] = ranked[1]
  <2>1. 1 \in 1 .. m
    BY <1>7, <1>15
  <2>. QED BY <1>11, <1>12, <1>15, <2>1
<1>17. \A c, d : Copies(c, d)' <=> Copies(c, d)
  BY <1>1, SameCopies
<1>18. \A i, j \in 1 .. m : i # j => ~ Copies(kept'[i].p, kept'[j].p)
  <2>. SUFFICES ASSUME NEW i \in 1 .. m, NEW j \in 1 .. m, i # j
                PROVE  ~ Copies(kept'[i].p, kept'[j].p)
    OBVIOUS
  <2>1. order[i] \in S /\ order[j] \in S /\ order[i] # order[j]
    BY <1>9, <1>13
  <2>2. ~ twin(order[i], order[j])
    BY <1>5, <2>1
  <2>. QED BY <1>12, <2>2 DEF twin
<1>19. \A i \in S : ranked[i].p \in Members(kept)'
  <2>1. Members(kept') = {kept'[k].p : k \in DOMAIN kept'} /\ DOMAIN kept' = 1 .. m
    BY <1>8 DEF Members
  <2>. QED BY <1>7, <1>12, <2>1
<1>20. \A i \in 1 .. n : \/ ranked[i].p \in Members(kept)'
                         \/ \E k \in 1 .. (i - 1) : ranked[k].p \in Members(kept)' /\ twin(i, k)
  <2>. SUFFICES ASSUME NEW i \in 1 .. n, i \notin S
                PROVE  \E k \in 1 .. (i - 1) : ranked[k].p \in Members(kept)' /\ twin(i, k)
    BY <1>19
  <2>1. PICK j \in S : j < i /\ twin(i, j)
    BY <1>5
  <2>2. j \in 1 .. n
    BY <1>5
  <2>3. j \in 1 .. (i - 1)
    BY <1>2, <2>1, <2>2
  <2>. QED BY <1>19, <2>1, <2>3
<1>. QED BY <1>1, <1>11, <1>14, <1>16, <1>17, <1>18, <1>20 DEF KeptOK, n, twin

-----------------------------------------------------------------------------
\* MMR takes each of what is kept at most once, the best first.
LEMMA JaccardIs ==
  ASSUME SettingOK, NEW c \in Chunks, NEW d \in Chunks
  PROVE  Jaccard(c, d) \in Int
<1>. DEFINE both == corpus[c] \cap corpus[d]
            either == corpus[c] \cup corpus[d]
            a == Cardinality(both)
            b == Cardinality(either)
<1>1. IsFiniteSet(corpus[c]) /\ IsFiniteSet(corpus[d])
  BY CorpusFacts
<1>2. IsFiniteSet(both) /\ IsFiniteSet(either)
  BY <1>1, FS_Subset, FS_Union
<1>3. both # {} => either # {}
  OBVIOUS
<1>4. Jaccard(c, d) = IF both = {} THEN 0 ELSE (1000 * a) \div b
  BY DEF Jaccard
<1>. HIDE DEF both, either
<1>5. a \in Nat /\ b \in Nat /\ (either # {} => b # 0)
  BY <1>2, FS_CardinalityType, FS_EmptySet
<1>. HIDE DEF a, b
<1>6. b # 0 => (1000 * a) \div b \in Int
  BY <1>5
<1>. QED BY <1>3, <1>4, <1>5, <1>6

LEMMA RelevanceIs ==
  ASSUME kept \in Rankings(allowed), NEW i \in 1 .. Len(kept)
  PROVE  Relevance(i) \in Int
<1>. DEFINE V == {kept[j].score : j \in DOMAIN kept}
            score == [j \in DOMAIN kept |-> kept[j].score]
            v == kept[i].score
            low == Min(V)
            high == Max(V)
            span == high - low
<1>1. /\ DOMAIN kept = 1 .. Len(kept) /\ Len(kept) \in Nat
      /\ \A j \in 1 .. Len(kept) : kept[j].score \in Int
  BY RankingFacts
<1>2. IsFiniteSet(DOMAIN kept)
  BY <1>1, FS_Interval
<1>3. V = {score[j] : j \in DOMAIN kept} /\ V \subseteq Int /\ v \in V
  BY <1>1
<1>4. Relevance(i) = IF span = 0 THEN 500 ELSE (1000 * (v - low)) \div span
  BY DEF Relevance
<1>. HIDE DEF V, v, score
<1>5. IsFiniteSet(V) /\ V # {}
  BY <1>2, <1>3, ValuesAreFinite
<1>6. low \in V /\ high \in V /\ low <= v /\ v <= high
  BY <1>3, <1>5, GreatestOfFinite, LeastOfFinite
<1>. HIDE DEF low, high
<1>7. low \in Int /\ high \in Int /\ v \in Int /\ low <= high
  BY <1>3, <1>6
<1>8. span \in Nat
  BY <1>7
<1>. HIDE DEF span
<1>9. span # 0 => (1000 * (v - low)) \div span \in Int
  BY <1>7, <1>8
<1>. QED BY <1>4, <1>9

\* k of the places 1 .. m, the first of them 1, none twice.
Order(k, m, s) ==
  /\ s \in Seq(1 .. m) /\ Len(s) = k /\ s[1] = 1
  /\ \A i, j \in 1 .. k : s[i] = s[j] => i = j

LEMMA WorthIs ==
  ASSUME SettingOK, allowed \subseteq Chunks, kept \in Rankings(allowed),
         NEW k \in Nat \ {0}, NEW chosen, Order(k, Len(kept), chosen), NEW i \in 1 .. Len(kept)
  PROVE  Worth(i, chosen) \in Int
<1>. DEFINE C == ToSet(chosen)
            near == [j \in C |-> Jaccard(kept[i].p, kept[j].p)]
            V == {Jaccard(kept[i].p, kept[j].p) : j \in C}
            m == Max(V)
            r == Relevance(i)
            l == setup.lambda
<1>1. chosen \in Seq(1 .. Len(kept)) /\ Len(chosen) = k
  BY DEF Order
<1>2. IsFiniteSet(C) /\ C \subseteq 1 .. Len(kept)
  BY <1>1, FiniteLists
<1>3. C # {}
  <2>1. 1 \in DOMAIN chosen
    BY <1>1
  <2>. QED BY <2>1 DEF ToSet
<1>. HIDE DEF C
<1>4. \A j \in 1 .. Len(kept) : kept[j].p \in Chunks
  BY RankingFacts
<1>5. \A j \in C : near[j] \in Int
  BY <1>2, <1>4, JaccardIs
<1>6. V = {near[j] : j \in C}
  OBVIOUS
<1>7. Worth(i, chosen) = l * r - (100 - l) * m
  BY DEF Worth, C
<1>. HIDE DEF near, V
<1>8. IsFiniteSet(V) /\ V # {} /\ \A x \in V : x \in Int
  BY <1>2, <1>3, <1>5, <1>6, ValuesAreFinite
<1>9. V \subseteq Int
  BY <1>8
<1>10. m \in Int
  BY <1>8, <1>9, GreatestOfFinite
<1>11. r \in Int /\ l \in Int
  <2>1. l \in 0 .. 100
    BY SetupFacts DEF SettingOK
  <2>2. r \in Int
    BY RelevanceIs
  <2>. HIDE DEF l, r
  <2>. QED BY <2>1, <2>2
<1>. HIDE DEF m, r, l
<1>12. l * r \in Int /\ (100 - l) * m \in Int
  BY <1>10, <1>11
<1>. QED BY <1>7, <1>12

LEMMA NextPickIs ==
  ASSUME SettingOK, allowed \subseteq Chunks, kept \in Rankings(allowed),
         NEW k \in Nat \ {0}, k < Len(kept), NEW chosen, Order(k, Len(kept), chosen)
  PROVE  Order(k + 1, Len(kept), Append(chosen, NextPick(chosen)))
<1>. DEFINE m == Len(kept)
            left == DOMAIN kept \ ToSet(chosen)
            worth == [i \in left |-> Worth(i, chosen)]
            V == {worth[i] : i \in left}
            best == {i \in left : \A j \in left : Worth(i, chosen) >= Worth(j, chosen)}
            next == NextPick(chosen)
<1>1. /\ chosen \in Seq(1 .. m) /\ Len(chosen) = k /\ chosen[1] = 1
      /\ \A i, j \in 1 .. k : chosen[i] = chosen[j] => i = j
  BY DEF Order
<1>2. DOMAIN kept = 1 .. m /\ m \in Nat
  BY RankingFacts
<1>3. IsFiniteSet(ToSet(chosen)) /\ Cardinality(ToSet(chosen)) <= k /\ Cardinality(ToSet(chosen)) \in Nat
  <2>1. IsFiniteSet(DOMAIN chosen) /\ DOMAIN chosen = 1 .. k
    BY <1>1, FiniteLists
  <2>2. ToSet(chosen) = {chosen[i] : i \in DOMAIN chosen}
    BY DEF ToSet
  <2>3. Cardinality(1 .. k) = k
    BY FS_Interval
  <2>. QED BY <2>1, <2>2, <2>3, ValuesAreFinite, FS_CardinalityType
<1>4. Cardinality(1 .. m) = m /\ IsFiniteSet(1 .. m)
  BY <1>2, FS_Interval
<1>5. left # {}
  <2>. SUFFICES ASSUME left = {} PROVE FALSE
    OBVIOUS
  <2>1. 1 .. m \subseteq ToSet(chosen)
    BY <1>2
  <2>2. Cardinality(1 .. m) <= Cardinality(ToSet(chosen))
    BY <1>3, <2>1, FS_Subset
  <2>. QED BY <1>2, <1>3, <1>4, <2>2
<1>6. IsFiniteSet(left) /\ left \subseteq 1 .. m
  BY <1>2, <1>4, FS_Subset
<1>7. \A i \in left : worth[i] \in Int /\ worth[i] = Worth(i, chosen)
  BY <1>6, WorthIs
<1>8. next = Min(best)
  BY DEF NextPick
<1>9. \A i \in left : i \in best <=> \A j \in left : worth[i] >= worth[j]
  BY <1>7
<1>10. best \subseteq left
  OBVIOUS
<1>11. \A i \in left : i \in 1 .. m /\ i \notin ToSet(chosen)
  BY <1>6
<1>. HIDE DEF left, worth, best, next
<1>12. IsFiniteSet(V) /\ V # {} /\ \A x \in V : x \in Int
  BY <1>5, <1>6, <1>7, ValuesAreFinite
<1>13. V \subseteq Int
  BY <1>12
<1>14. PICK top \in left : worth[top] = Max(V)
  BY <1>12, <1>13, GreatestOfFinite
<1>15. \A j \in left : worth[j] <= Max(V) /\ worth[j] \in Int
  BY <1>7, <1>12, <1>13, GreatestOfFinite
<1>16. top \in best
  <2>1. worth[top] \in Int
    BY <1>7
  <2>. HIDE DEF V
  <2>. QED BY <1>9, <1>14, <1>15, <2>1
<1>17. IsFiniteSet(best) /\ \A i \in best : i \in Int
  <2>1. IsFiniteSet(best)
    BY <1>6, <1>10, FS_Subset
  <2>2. \A i \in best : i \in 1 .. m
    BY <1>10, <1>11
  <2>. QED BY <2>1, <2>2
<1>18. best \subseteq Int
  BY <1>17
<1>19. next \in best
  BY <1>8, <1>16, <1>17, <1>18, LeastOfFinite
<1>20. next \in 1 .. m /\ next \notin ToSet(chosen)
  BY <1>10, <1>11, <1>19
<1>. DEFINE s == Append(chosen, next)
<1>21. /\ s \in Seq(1 .. m) /\ Len(s) = k + 1
       /\ \A i \in 1 .. k : s[i] = chosen[i]
       /\ s[k + 1] = next
  BY <1>1, <1>20, AppendProperties
<1>22. \A i \in 1 .. k : chosen[i] # next
  <2>1. \A i \in 1 .. k : chosen[i] \in ToSet(chosen)
    BY <1>1 DEF ToSet
  <2>. QED BY <1>20, <2>1
<1>. HIDE DEF s
<1>23. \A i, j \in 1 .. (k + 1) : s[i] = s[j] => i = j
  <2>. SUFFICES ASSUME NEW i \in 1 .. (k + 1), NEW j \in 1 .. (k + 1), s[i] = s[j] PROVE i = j
    OBVIOUS
  <2>1. (i \in 1 .. k \/ i = k + 1) /\ (j \in 1 .. k \/ j = k + 1)
    OBVIOUS
  <2>. QED BY <1>1, <1>21, <1>22, <2>1
<1>24. 1 \in 1 .. k
  OBVIOUS
<1>. QED BY <1>1, <1>21, <1>23, <1>24 DEF Order, s, next

LEMMA PicksAre ==
  ASSUME SettingOK, allowed \subseteq Chunks, kept \in Rankings(allowed), kept # << >>
  PROVE  Order(Len(kept), Len(kept), Picks(Len(kept)))
<1>. DEFINE m == Len(kept)
            n == m - 1
            Then(s) == Append(s, NextPick(s))
            Rest(f, k) == IF k = 0 THEN <<1>> ELSE Append(f[k - 1], NextPick(f[k - 1]))
            pick == CHOOSE f : f = [k \in 0 .. n |-> Rest(f, k)]
            P(k) == {s \in Seq(1 .. m) : Order(k + 1, m, s)}
            All == Seq(1 .. m)
            onward == [x \in (1 .. n) \X All |-> IF Then(x[2]) \in All THEN Then(x[2]) ELSE <<1>>]
<1>1. m \in Nat /\ m # 0
  BY RankingFacts, EmptySeq
<1>2. Picks(m) = pick[m - 1]
  BY DEF Picks
<1>3. ASSUME NEW k \in Nat \ {0}, k < m, NEW s, Order(k, m, s) PROVE Order(k + 1, m, Then(s))
  BY <1>3, NextPickIs
<1>. HIDE DEF m
<1>4. n \in Nat
  BY <1>1
<1>5. Order(1, m, <<1>>) /\ <<1>> \in All
  <2>1. 1 \in 1 .. m
    BY <1>1
  <2>2. <<1>> \in Seq(1 .. m) /\ Len(<<1>>) = 1 /\ <<1>>[1] = 1
    BY <2>1
  <2>3. \A i, j \in 1 .. 1 : i = j
    OBVIOUS
  <2>. QED BY <2>2, <2>3 DEF Order
<1>6. \A f, k : Rest(f, k) = IF k = 0 THEN <<1>> ELSE Then(f[k - 1])
  OBVIOUS
<1>. HIDE DEF Then, Rest
<1>7. /\ onward \in [(1 .. n) \X All -> All]
      /\ \A k \in 1 .. n, s \in All : Then(s) \in All => onward[<<k, s>>] = Then(s)
  <2>. HIDE DEF All
  <2>. QED BY <1>5
<1>. HIDE DEF onward
<1>8. \A k, s : Order(k, m, s) => s \in All
  BY DEF Order
<1>. HIDE DEF All, n
<1>9. PICK f \in [0 .. n -> All] : Walks(f, n, <<1>>, onward)
  BY <1>4, <1>5, <1>7, StepByStep
<1>10. f[0] = <<1>> /\ \A k \in 1 .. n : f[k] = onward[<<k, f[k - 1]>>]
  BY <1>9 DEF Walks
<1>11. ASSUME NEW k \in 1 .. n PROVE k - 1 \in 0 .. n /\ k \in Nat \ {0} /\ k < m /\ k \in 0 .. n
  BY <1>1, <1>4 DEF n
<1>. DEFINE Held == {k \in 0 .. n : Order(k + 1, m, f[k])}
<1>12. 0 \in Held
  BY <1>4, <1>5, <1>10
<1>13. ASSUME NEW k \in 1 .. n, k - 1 \in Held PROVE k \in Held
  <2>1. k - 1 \in 0 .. n /\ k \in Nat \ {0} /\ k < m /\ k \in 0 .. n /\ (k - 1) + 1 = k
    BY <1>11
  <2>2. Order(k, m, f[k - 1])
    BY <1>13, <2>1
  <2>3. Order(k + 1, m, Then(f[k - 1]))
    BY <1>3, <2>1, <2>2
  <2>4. f[k] = Then(f[k - 1])
    BY <1>7, <1>8, <1>10, <2>2, <2>3
  <2>. QED BY <2>1, <2>3, <2>4
<1>. HIDE DEF Held
<1>14. \A k \in 0 .. n : k \in Held
  BY <1>4, <1>12, <1>13, Climbing
<1>15. ASSUME NEW k \in 0 .. n PROVE f[k] = Rest(f, k)
  <2>1. CASE k = 0
    BY <1>6, <1>10, <2>1
  <2>2. CASE k # 0
    <3>1. k \in 1 .. n
      BY <1>4, <2>2
    <3>2. k - 1 \in 0 .. n /\ k \in Nat \ {0} /\ k < m /\ (k - 1) + 1 = k
      BY <1>11, <3>1
    <3>3. Order(k, m, f[k - 1])
      BY <1>14, <3>2 DEF Held
    <3>4. Order(k + 1, m, Then(f[k - 1]))
      BY <1>3, <3>2, <3>3
    <3>5. f[k] = Then(f[k - 1])
      BY <1>7, <1>8, <1>10, <3>1, <3>3, <3>4
    <3>. QED BY <1>6, <2>2, <3>5
  <2>. QED BY <2>1, <2>2
<1>16. f = [k \in 0 .. n |-> Rest(f, k)]
  BY <1>15
<1>17. pick = [k \in 0 .. n |-> Rest(pick, k)]
  BY <1>16
<1>. HIDE DEF pick
<1>18. pick[0] = <<1>> /\ \A k \in 1 .. n : pick[k] = Then(pick[k - 1])
  <2>1. 0 \in 0 .. n /\ \A k \in 1 .. n : k \in 0 .. n /\ k # 0
    BY <1>4
  <2>. QED BY <1>6, <1>17, <2>1
<1>. DEFINE Good == {k \in 0 .. n : Order(k + 1, m, pick[k])}
<1>19. 0 \in Good
  BY <1>4, <1>5, <1>18
<1>20. ASSUME NEW k \in 1 .. n, k - 1 \in Good PROVE k \in Good
  <2>1. k - 1 \in 0 .. n /\ k \in Nat \ {0} /\ k < m /\ k \in 0 .. n /\ (k - 1) + 1 = k
    BY <1>11
  <2>2. Order(k, m, pick[k - 1])
    BY <1>20, <2>1
  <2>3. Order(k + 1, m, Then(pick[k - 1]))
    BY <1>3, <2>1, <2>2
  <2>. QED BY <1>18, <2>1, <2>3
<1>. HIDE DEF Good
<1>21. \A k \in 0 .. n : k \in Good
  BY <1>4, <1>19, <1>20, Climbing
<1>22. n \in 0 .. n /\ n + 1 = m
  BY <1>1, <1>4 DEF n
<1>23. Order(m, m, pick[n])
  BY <1>21, <1>22 DEF Good
<1>. QED BY <1>2, <1>23 DEF n, m

\* What comes of it: the first of the order, as many as there is room for.
LEMMA OrderIsAll ==
  ASSUME NEW m \in Nat, NEW s, Order(m, m, s)
  PROVE  \A j \in 1 .. m : \E i \in 1 .. m : s[i] = j
<1>1. s \in Seq(1 .. m) /\ Len(s) = m /\ \A i, j \in 1 .. m : s[i] = s[j] => i = j
  BY DEF Order
<1>2. s \in [1 .. m -> 1 .. m]
  BY <1>1
<1>3. s \in Injection(1 .. m, 1 .. m)
  BY <1>1, <1>2 DEF Injection, IsInjective
<1>4. IsFiniteSet(1 .. m)
  BY FS_Interval
<1>5. s \in Surjection(1 .. m, 1 .. m)
  BY <1>3, <1>4, FS_Injection
<1>. QED BY <1>5 DEF Surjection

LEMMA MembersCount ==
  ASSUME NEW S, NEW r \in Rankings(S)
  PROVE  Cardinality(Members(r)) = Len(r)
<1>. DEFINE n == Len(r)
            T == Members(r)
            f == [i \in 1 .. n |-> r[i].p]
<1>1. /\ n \in Nat /\ DOMAIN r = 1 .. n
      /\ \A i, j \in 1 .. n : r[i].p = r[j].p => i = j
  BY RankingFacts
<1>2. T = {r[i].p : i \in 1 .. n}
  BY <1>1 DEF Members
<1>. HIDE DEF n, T
<1>3. f \in Surjection(1 .. n, T) /\ f \in Injection(1 .. n, T)
  BY <1>1, <1>2 DEF Surjection, Injection, IsInjective
<1>4. IsFiniteSet(1 .. n) /\ Cardinality(1 .. n) = n
  BY <1>1, FS_Interval
<1>5. Cardinality(T) = n
  BY <1>3, <1>4, FS_Surjection
<1>. QED BY <1>5 DEF n, T

LEMMA DiversifyIs ==
  ASSUME SettingOK, allowed \subseteq Chunks, ranked \in Rankings(allowed), KeptOK, Diversify
  PROVE  results' \in Rankings(allowed)' /\ LeftOutForAReason'
<1>. DEFINE m == Len(kept)
            full == IF setup.lambda = 100 THEN [i \in DOMAIN kept |-> i] ELSE Picks(m)
            room == setup.finalK
            order == Take(full, room)
            l == Len(order)
<1>1. /\ results' = [k \in DOMAIN order |-> kept[order[k]]]
      /\ ranked' = ranked /\ kept' = kept /\ allowed' = allowed /\ setup' = setup /\ corpus' = corpus
  BY DEF Diversify
<1>2. /\ kept \in Rankings(allowed) /\ kept # << >> /\ kept[1] = ranked[1]
      /\ \A i, j \in 1 .. m : i # j => ~ Copies(kept[i].p, kept[j].p)
      /\ \A i \in 1 .. Len(ranked) :
           \/ ranked[i].p \in Members(kept)
           \/ \E k \in 1 .. (i - 1) : ranked[k].p \in Members(kept) /\ Copies(ranked[i].p, ranked[k].p)
  BY DEF KeptOK
<1>3. /\ m \in Nat /\ m # 0 /\ DOMAIN kept = 1 .. m
      /\ \A i \in 1 .. m : kept[i] \in Entries(allowed)
      /\ \A i, j \in 1 .. m : kept[i].p = kept[j].p => i = j
      /\ \A x \in Members(kept) : \E i \in 1 .. m : kept[i].p = x
  <2>1. kept \in Seq(Entries(allowed)) /\ m \in Nat
    BY <1>2, RankingFacts
  <2>2. m # 0
    BY <1>2, <2>1, EmptySeq
  <2>. QED BY <1>2, <2>2, RankingFacts
<1>4. Order(m, m, full)
  <2>1. CASE setup.lambda = 100
    <3>. DEFINE s == [i \in 1 .. m |-> i]
    <3>. HIDE DEF m
    <3>1. s \in Seq(1 .. m) /\ Len(s) = m /\ 1 \in 1 .. m
      BY <1>3
    <3>2. Order(m, m, s)
      BY <3>1 DEF Order
    <3>. QED BY <1>3, <2>1, <3>2
  <2>2. CASE setup.lambda # 100
    <3>1. Order(Len(kept), Len(kept), Picks(Len(kept)))
      BY <1>2, PicksAre
    <3>. QED BY <2>2, <3>1
  <2>. QED BY <2>1, <2>2
<1>. HIDE DEF full
<1>5. room \in Nat \ {0}
  BY SetupFacts DEF SettingOK
<1>. HIDE DEF room
<1>6. /\ full \in Seq(1 .. m) /\ Len(full) = m /\ full[1] = 1
      /\ \A i, j \in 1 .. m : full[i] = full[j] => i = j
  BY <1>4 DEF Order
<1>7. /\ order \in Seq(1 .. m) /\ l = (IF room <= m THEN room ELSE m)
      /\ \A i \in 1 .. l : order[i] = full[i]
  BY <1>5, <1>6, TakeIs
<1>. HIDE DEF m, order
<1>8. l \in Nat /\ l # 0 /\ l <= m
  BY <1>3, <1>5, <1>7
<1>9. DOMAIN order = 1 .. l /\ \A i \in 1 .. l : order[i] \in 1 .. m /\ i \in 1 .. m
  BY <1>3, <1>7, <1>8
<1>. HIDE DEF l
<1>10. results' = [k \in 1 .. l |-> kept[order[k]]]
  BY <1>1, <1>9
<1>11. results' \in [1 .. l -> Entries(allowed)] /\ \A k \in 1 .. l : results'[k] = kept[order[k]]
  BY <1>3, <1>9, <1>10
<1>12. results' \in Seq(Entries(allowed)) /\ Len(results') = l
  BY <1>8, <1>11
<1>13. \A i, j \in 1 .. l : order[i] = order[j] => i = j
  BY <1>6, <1>7, <1>9
<1>14. \A i, j \in 1 .. l : results'[i].p = results'[j].p => i = j
  BY <1>3, <1>9, <1>11, <1>13
<1>15. results' \in Rankings(allowed)
  BY <1>12, <1>14 DEF Rankings
<1>16. results'[1] = ranked[1]
  <2>1. 1 \in 1 .. l
    BY <1>8
  <2>. QED BY <1>2, <1>6, <1>7, <1>11, <2>1
<1>. DEFINE returned == Members(results')
<1>17. /\ returned \subseteq allowed /\ Cardinality(returned) = l
       /\ \A x \in returned : \E i \in 1 .. l : results'[i].p = x
       /\ \A i \in 1 .. l : results'[i].p \in returned
  BY <1>12, <1>15, RankingFacts, MembersCount
<1>. HIDE DEF returned
<1>18. \A c, d \in returned : c # d => ~ Copies(c, d)
  <2>. SUFFICES ASSUME NEW c \in returned, NEW d \in returned, c # d PROVE ~ Copies(c, d)
    OBVIOUS
  <2>1. PICK i \in 1 .. l : results'[i].p = c
    BY <1>17
  <2>2. PICK j \in 1 .. l : results'[j].p = d
    BY <1>17
  <2>3. order[i] \in 1 .. m /\ order[j] \in 1 .. m /\ kept[order[i]].p = c /\ kept[order[j]].p = d
    BY <1>9, <1>11, <2>1, <2>2
  <2>. QED BY <1>2, <2>3
<1>19. ASSUME l # room, NEW x \in Members(kept) PROVE x \in returned
  <2>1. l = m
    BY <1>3, <1>5, <1>7, <1>19
  <2>2. PICK j \in 1 .. m : kept[j].p = x
    BY <1>3
  <2>3. PICK i \in 1 .. m : full[i] = j
    BY <1>3, <1>4, OrderIsAll
  <2>4. i \in 1 .. l /\ order[i] = j
    BY <1>7, <2>1, <2>3
  <2>. QED BY <1>11, <1>17, <2>2, <2>4
<1>20. ASSUME NEW i \in 1 .. Len(ranked)
       PROVE  \/ ranked[i].p \in returned \/ l = room
              \/ \E k \in 1 .. (i - 1) : ranked[k].p \in returned /\ Copies(ranked[i].p, ranked[k].p)
  BY <1>2, <1>19
<1>21. \A c, d : Copies(c, d)' <=> Copies(c, d)
  BY <1>1, SameCopies
<1>22. results' \in Rankings(allowed)'
  BY <1>1, <1>15
<1>23. DOMAIN ranked = 1 .. Len(ranked) /\ Len(results') = l
  BY <1>12, RankingFacts
<1>24. LeftOutForAReason' <=>
         /\ results'[1] = ranked[1]
         /\ Cardinality(returned) = l /\ returned \subseteq allowed
         /\ \A c, d \in returned : c # d => ~ Copies(c, d)
         /\ \A i \in 1 .. Len(ranked) :
              \/ ranked[i].p \in returned \/ l = room
              \/ \E k \in 1 .. (i - 1) : ranked[k].p \in returned /\ Copies(ranked[i].p, ranked[k].p)
  BY <1>1, <1>21, <1>23 DEF LeftOutForAReason, returned, room
<1>. QED BY <1>16, <1>17, <1>18, <1>20, <1>22, <1>24

-----------------------------------------------------------------------------
\* A chunk between a result and one recovered with it is of the family, and nearer.
LEMMA NearerIsOfLess ==
  ASSUME NEW c \in Chunks, NEW d \in Family(c), NEW e \in Chunks, (d < e /\ e < c) \/ (c < e /\ e < d)
  PROVE  e \in Family(c) /\ Nearer(c, e) \subseteq Nearer(c, d)
<1>. DEFINE F == FamilySize
<1>1. F \in Nat \ {0}
  BY PipelineAssumption
<1>2. c \in Int /\ d \in Int /\ e \in Int /\ d \in Chunks /\ (d - 1) \div F = (c - 1) \div F
  BY ChunksAreFinite DEF Family
<1>. HIDE DEF F
<1>3. (e - 1) \div F = (c - 1) \div F
  <2>. DEFINE a == d - 1
              b == e - 1
              g == c - 1
  <2>1. a \in Int /\ b \in Int /\ g \in Int /\ a \div F = g \div F /\ ((a <= b /\ b <= g) \/ (g <= b /\ b <= a))
    BY <1>2
  <2>. HIDE DEF a, b, g
  <2>2. \A x, y \in Int : x <= y => x \div F <= y \div F
    BY <1>1
  <2>3. a \div F \in Int /\ b \div F \in Int /\ g \div F \in Int
    BY <1>1, <2>1
  <2>4. b \div F = g \div F
    <3>1. CASE a <= b /\ b <= g
      <4>1. a \div F <= b \div F /\ b \div F <= g \div F
        BY <2>1, <2>2, <3>1
      <4>. QED BY <2>1, <2>3, <4>1
    <3>2. CASE g <= b /\ b <= a
      <4>1. g \div F <= b \div F /\ b \div F <= a \div F
        BY <2>1, <2>2, <3>2
      <4>. QED BY <2>1, <2>3, <4>1
    <3>. QED BY <2>1, <3>1, <3>2
  <2>. QED BY <2>4 DEF b, g
<1>4. e \in Family(c)
  <2>1. e # c
    BY <1>2
  <2>. QED BY <1>3, <2>1 DEF Family, F
<1>5. Apart(c, e) < Apart(c, d) /\ Apart(c, e) \in Int /\ Apart(c, d) \in Int
  BY <1>2 DEF Apart
<1>6. ASSUME NEW x \in Nearer(c, e) PROVE x \in Nearer(c, d)
  <2>1. x \in Family(c) /\ (Apart(c, x) < Apart(c, e) \/ Apart(c, x) = Apart(c, e))
    BY DEF Nearer
  <2>2. x \in Chunks /\ x \in Int
    BY <2>1, ChunksAreFinite DEF Family
  <2>3. Apart(c, x) \in Int
    BY <1>2, <2>2 DEF Apart
  <2>4. Apart(c, x) < Apart(c, d)
    BY <1>5, <2>1, <2>3
  <2>. QED BY <2>1, <2>4 DEF Nearer
<1>. QED BY <1>4, <1>6

LEMMA NoGap ==
  ASSUME NEW c \in Chunks, NEW d \in ParentOf(c), NEW e \in Chunks, (d < e /\ e < c) \/ (c < e /\ e < d)
  PROVE  e \in ParentOf(c) \/ Lengths[e] = 0
<1>. DEFINE near == Nearer(c, e)
            far == Nearer(c, d)
            f == [x \in far |-> Lengths[x]]
            g == [x \in near |-> Lengths[x]]
            own == Lengths[c]
<1>1. /\ d \in Family(c) /\ own + SumOf(f) < ParentChars
      /\ e \in ParentOf(c) <=> e \in Family(c) /\ Lengths[e] > 0 /\ own + SumOf(g) < ParentChars
  BY DEF ParentOf
<1>2. e \in Family(c) /\ near \subseteq far
  BY <1>1, NearerIsOfLess
<1>3. far \subseteq Chunks
  BY DEF Nearer, Family
<1>4. /\ \A x \in Chunks : Lengths[x] \in Nat
      /\ ParentChars \in Nat
  BY PipelineAssumption DEF Chunks
<1>5. IsFiniteSet(far) /\ IsFiniteSet(near)
  BY <1>2, <1>3, ChunksAreFinite, FS_Subset
<1>6. /\ DOMAIN f = far /\ DOMAIN g = near
      /\ \A x \in far : f[x] \in Nat
      /\ \A x \in near : g[x] \in Nat
  BY <1>2, <1>3, <1>4
<1>7. g = On(f, near)
  BY <1>2 DEF On
<1>8. own \in Nat /\ Lengths[e] \in Nat
  BY <1>4
<1>. HIDE DEF f, g, near, far, own
<1>9. SumOf(g) \in Nat /\ SumOf(f) \in Nat
  BY <1>5, <1>6, SumNat
<1>10. SumOf(g) <= SumOf(f)
  BY <1>2, <1>5, <1>6, <1>7, SumOfPart
<1>11. own + SumOf(g) < ParentChars
  BY <1>1, <1>4, <1>8, <1>9, <1>10
<1>. QED BY <1>1, <1>2, <1>8, <1>11

LEMMA RecoverIs ==
  ASSUME allowed \subseteq Chunks, results \in Rankings(allowed), RecoverParents
  PROVE  ContextHasNoGap'
<1>1. parents' = [c \in Members(results) |-> ParentOf(c)]
  BY DEF RecoverParents
<1>2. \A c \in Members(results) : c \in Chunks
  BY RankingFacts
<1>3. \A c \in Members(results) : parents'[c] = ParentOf(c)
  BY <1>1
<1>4. DOMAIN parents' = Members(results)
  BY <1>1
<1>. SUFFICES ASSUME NEW c \in DOMAIN parents', NEW d \in parents'[c], NEW e \in Chunks,
                     (d < e /\ e < c) \/ (c < e /\ e < d)
              PROVE  e \in parents'[c] \/ Lengths[e] = 0
  BY DEF ContextHasNoGap, Chunks
<1>5. c \in Chunks /\ d \in ParentOf(c) /\ parents'[c] = ParentOf(c)
  BY <1>2, <1>3, <1>4
<1>. QED BY <1>5, NoGap

-----------------------------------------------------------------------------
\* The invariant, by what each stage relies on.
Early == {"expand", "filter", "match"}
Late == {"rerank", "dedup", "mmr", "parents"}
PipelineTypes ==
  /\ SettingOK /\ QueryOK(weights) /\ allowed \subseteq Chunks
  /\ stage \in Early \cup {"pool"} \cup Late \cup {"done"}
\* Before the match there is no score; after it none lets a guess pass for a word.
ScoresSoFar == LexicalOK /\ (stage \in Early => lexical = NoScores)
\* Candidates come from the pool, which a question without a word does not reach.
CandidatesSoFar ==
  /\ stage # "expand" /\ stage # "done" => Typed # {}
  /\ stage \in Early \cup {"pool"} => ranked = << >>
  /\ stage \in Late => ranked \in Rankings(allowed) /\ ranked # << >>
  /\ stage = "rerank" => \A c \in Members(ranked) : retrieval[c] \in Int
\* What deduplication keeps, MMR selects and the parents surround.
ResultsSoFar ==
  /\ stage = "mmr" => KeptOK
  /\ stage = "parents" => results \in Rankings(allowed)
  /\ stage \in {"parents", "done"} /\ ranked # << >> => LeftOutForAReason
ParentsSoFar == ContextHasNoGap /\ (stage # "done" => parents = NoScores)
PipelineInv == PipelineTypes /\ ScoresSoFar /\ CandidatesSoFar /\ ResultsSoFar /\ ParentsSoFar

LEMMA NoScoresAreRight ==
  /\ lexical = NoScores => LexicalOK
  /\ parents = NoScores => ContextHasNoGap
<1>1. DOMAIN NoScores = {}
  BY DEF NoScores
<1>. QED BY <1>1 DEF LexicalOK, GuessesStayBelowTheTyped, ContextHasNoGap

LEMMA NoScoresStayRight ==
  /\ lexical' = NoScores => LexicalOK'
  /\ parents' = NoScores => ContextHasNoGap'
<1>1. DOMAIN NoScores = {}
  BY DEF NoScores
<1>. QED BY <1>1 DEF LexicalOK, GuessesStayBelowTheTyped, ContextHasNoGap

LEMMA LexicalStays ==
  ASSUME setup' = setup, corpus' = corpus, allowed' = allowed, weights' = weights, lexical' = lexical,
         LexicalOK
  PROVE  LexicalOK'
<1>1. /\ BestTyped(weights)' = BestTyped(weights)
      /\ \A c : TypedScore(weights, c)' = TypedScore(weights, c)
  BY SameScores
<1>. QED BY <1>1 DEF LexicalOK, GuessesStayBelowTheTyped

LEMMA ResultsStay ==
  ASSUME setup' = setup, corpus' = corpus, allowed' = allowed, ranked' = ranked, results' = results
  PROVE  LeftOutForAReason' <=> LeftOutForAReason
<1>1. \A c, d : Copies(c, d)' <=> Copies(c, d)
  BY SameCopies
<1>. QED BY <1>1 DEF LeftOutForAReason

LEMMA ParentsStay ==
  ASSUME parents' = parents
  PROVE  ContextHasNoGap' <=> ContextHasNoGap
BY DEF ContextHasNoGap, Chunks

LEMMA SettingStays ==
  ASSUME setup' = setup, corpus' = corpus, filters' = filters, SettingOK
  PROVE  SettingOK'
BY DEF SettingOK, Chunks

LEMMA PipelineBegins == PipelineInit => PipelineInv
<1>. SUFFICES ASSUME PipelineInit PROVE PipelineInv
  OBVIOUS
<1>1. SettingOK /\ weights = NoScores /\ allowed = {} /\ stage = "expand" /\ lexical = NoScores
      /\ ranked = << >> /\ parents = NoScores
  BY DEF PipelineInit, SettingOK
<1>2. QueryOK(weights)
  <2>1. DOMAIN weights = {} /\ weights \in [{} -> Nat]
    BY <1>1 DEF NoScores
  <2>. QED BY <2>1, FS_EmptySet DEF QueryOK
<1>3. PipelineTypes
  BY <1>1, <1>2 DEF PipelineTypes, Early
<1>4. ScoresSoFar /\ ParentsSoFar
  BY <1>1, NoScoresAreRight DEF ScoresSoFar, ParentsSoFar
<1>5. CandidatesSoFar /\ ResultsSoFar
  BY <1>1 DEF CandidatesSoFar, ResultsSoFar, Early, Late
<1>. QED BY <1>3, <1>4, <1>5 DEF PipelineInv

LEMMA ExpandKeeps == PipelineInv /\ Expand => PipelineInv'
<1>. SUFFICES ASSUME PipelineInv, Expand PROVE PipelineInv'
  OBVIOUS
<1>1. /\ stage = "expand" /\ stage' = IF Typed = {} THEN "done" ELSE "filter"
      /\ setup' = setup /\ corpus' = corpus /\ filters' = filters /\ allowed' = allowed
      /\ lexical' = lexical /\ ranked' = ranked /\ parents' = parents
  BY DEF Expand
<1>2. /\ SettingOK /\ allowed \subseteq Chunks /\ lexical = NoScores /\ ranked = << >> /\ parents = NoScores
  BY <1>1 DEF PipelineInv, PipelineTypes, ScoresSoFar, CandidatesSoFar, ParentsSoFar, Early
<1>3. PipelineTypes'
  <2>1. QueryOK(weights')
    BY <1>2, ExpandIs
  <2>2. SettingOK'
    BY <1>1, <1>2, SettingStays
  <2>. QED BY <1>1, <1>2, <2>1, <2>2 DEF PipelineTypes, Early, Chunks, QueryOK
<1>4. ScoresSoFar' /\ ParentsSoFar'
  <2>1. lexical' = NoScores /\ parents' = NoScores
    BY <1>1, <1>2
  <2>. QED BY <2>1, NoScoresStayRight DEF ScoresSoFar, ParentsSoFar, NoScores
<1>5. CandidatesSoFar' /\ ResultsSoFar'
  BY <1>1, <1>2 DEF CandidatesSoFar, ResultsSoFar, Early, Late
<1>. QED BY <1>3, <1>4, <1>5 DEF PipelineInv

LEMMA FilterKeeps == PipelineInv /\ Filter => PipelineInv'
<1>. SUFFICES ASSUME PipelineInv, Filter PROVE PipelineInv'
  OBVIOUS
<1>1. /\ stage = "filter" /\ stage' = "match" /\ allowed' = Left(filters)
      /\ setup' = setup /\ corpus' = corpus /\ filters' = filters /\ weights' = weights
      /\ lexical' = lexical /\ ranked' = ranked /\ parents' = parents
  BY DEF Filter
<1>2. /\ SettingOK /\ QueryOK(weights) /\ Typed # {}
      /\ lexical = NoScores /\ ranked = << >> /\ parents = NoScores
  BY <1>1 DEF PipelineInv, PipelineTypes, ScoresSoFar, CandidatesSoFar, ParentsSoFar, Early
<1>3. PipelineTypes'
  <2>1. filters \in Seq(SUBSET Chunks)
    BY <1>2, PipelineAssumption DEF SettingOK, Chunks
  <2>2. Left(filters) \subseteq Chunks
    BY <2>1, LeftIs
  <2>3. SettingOK'
    BY <1>1, <1>2, SettingStays
  <2>. QED BY <1>1, <1>2, <2>2, <2>3 DEF PipelineTypes, Early, Chunks, QueryOK
<1>4. ScoresSoFar' /\ ParentsSoFar'
  <2>1. lexical' = NoScores /\ parents' = NoScores
    BY <1>1, <1>2
  <2>. QED BY <2>1, NoScoresStayRight DEF ScoresSoFar, ParentsSoFar, NoScores
<1>5. CandidatesSoFar' /\ ResultsSoFar'
  BY <1>1, <1>2 DEF CandidatesSoFar, ResultsSoFar, Early, Late
<1>. QED BY <1>3, <1>4, <1>5 DEF PipelineInv

LEMMA MatchKeeps == PipelineInv /\ MatchTerms => PipelineInv'
<1>. SUFFICES ASSUME PipelineInv, MatchTerms PROVE PipelineInv'
  OBVIOUS
<1>1. /\ stage = "match" /\ stage' = "pool"
      /\ setup' = setup /\ corpus' = corpus /\ filters' = filters /\ allowed' = allowed
      /\ ranked' = ranked /\ parents' = parents
  BY DEF MatchTerms
<1>2. /\ SettingOK /\ QueryOK(weights) /\ allowed \subseteq Chunks /\ Typed # {}
      /\ ranked = << >> /\ parents = NoScores
  BY <1>1 DEF PipelineInv, PipelineTypes, CandidatesSoFar, ParentsSoFar, Early
<1>3. QueryOK(weights') /\ LexicalOK'
  BY <1>2, MatchIs
<1>4. PipelineTypes'
  <2>1. SettingOK'
    BY <1>1, <1>2, SettingStays
  <2>. QED BY <1>1, <1>2, <1>3, <2>1 DEF PipelineTypes, Chunks, QueryOK
<1>5. ScoresSoFar'
  BY <1>1, <1>3 DEF ScoresSoFar, Early
<1>6. ParentsSoFar'
  <2>1. parents' = NoScores
    BY <1>1, <1>2
  <2>. QED BY <2>1, NoScoresStayRight DEF ParentsSoFar, NoScores
<1>7. CandidatesSoFar' /\ ResultsSoFar'
  BY <1>1, <1>2 DEF CandidatesSoFar, ResultsSoFar, Early, Late
<1>. QED BY <1>4, <1>5, <1>6, <1>7 DEF PipelineInv

\* From the pool on the query, the filters and the lexical scores stay.
LEMMA LaterStages ==
  ASSUME PipelineInv, stage \in {"pool"} \cup Late, stage' \in Late \cup {"done"},
         setup' = setup, corpus' = corpus, filters' = filters, allowed' = allowed,
         weights' = weights, lexical' = lexical
  PROVE  PipelineTypes' /\ ScoresSoFar'
<1>1. SettingOK /\ QueryOK(weights) /\ allowed \subseteq Chunks /\ LexicalOK
  BY DEF PipelineInv, PipelineTypes, ScoresSoFar
<1>2. PipelineTypes'
  <2>1. SettingOK'
    BY <1>1, SettingStays
  <2>. QED BY <1>1, <2>1 DEF PipelineTypes, Chunks, QueryOK
<1>3. ScoresSoFar'
  <2>1. LexicalOK'
    BY <1>1, LexicalStays
  <2>2. stage' \notin Early
    BY DEF Early, Late
  <2>. QED BY <2>1, <2>2 DEF ScoresSoFar, Early
<1>. QED BY <1>2, <1>3

LEMMA PoolKeeps == PipelineInv /\ BuildPool => PipelineInv'
<1>. SUFFICES ASSUME PipelineInv, BuildPool PROVE PipelineInv'
  OBVIOUS
<1>1. /\ stage = "pool" /\ stage' = IF ranked' = << >> THEN "done" ELSE "rerank"
      /\ setup' = setup /\ corpus' = corpus /\ filters' = filters /\ allowed' = allowed
      /\ weights' = weights /\ lexical' = lexical /\ parents' = parents
  BY DEF BuildPool
<1>2. /\ SettingOK /\ allowed \subseteq Chunks /\ LexicalOK /\ Typed # {} /\ parents = NoScores
  BY <1>1 DEF PipelineInv, PipelineTypes, ScoresSoFar, CandidatesSoFar, ParentsSoFar
<1>3. PipelineTypes' /\ ScoresSoFar'
  BY <1>1, LaterStages DEF Late
<1>4. /\ ranked' \in Rankings(allowed)
      /\ \A c \in Members(ranked') : retrieval'[c] \in Int
  BY <1>2, PoolIs
<1>5. CandidatesSoFar' /\ ResultsSoFar'
  BY <1>1, <1>2, <1>4 DEF CandidatesSoFar, ResultsSoFar, Early, Late
<1>6. ParentsSoFar'
  <2>1. parents' = NoScores
    BY <1>1, <1>2
  <2>. QED BY <2>1, NoScoresStayRight DEF ParentsSoFar, NoScores
<1>. QED BY <1>3, <1>5, <1>6 DEF PipelineInv

LEMMA RerankKeeps == PipelineInv /\ Rerank => PipelineInv'
<1>. SUFFICES ASSUME PipelineInv, Rerank PROVE PipelineInv'
  OBVIOUS
<1>1. /\ stage = "rerank" /\ stage' = "dedup"
      /\ setup' = setup /\ corpus' = corpus /\ filters' = filters /\ allowed' = allowed
      /\ weights' = weights /\ lexical' = lexical /\ parents' = parents
  BY DEF Rerank
<1>2. /\ SettingOK /\ QueryOK(weights) /\ allowed \subseteq Chunks /\ Typed # {} /\ parents = NoScores
      /\ ranked \in Rankings(allowed) /\ ranked # << >>
      /\ \A c \in Members(ranked) : retrieval[c] \in Int
  BY <1>1 DEF PipelineInv, PipelineTypes, CandidatesSoFar, ParentsSoFar, Late
<1>3. PipelineTypes' /\ ScoresSoFar'
  BY <1>1, LaterStages DEF Late
<1>4. ranked' \in Rankings(allowed) /\ ranked' # << >>
  BY <1>2, RerankIs
<1>5. CandidatesSoFar' /\ ResultsSoFar'
  BY <1>1, <1>2, <1>4 DEF CandidatesSoFar, ResultsSoFar, Early, Late
<1>6. ParentsSoFar'
  <2>1. parents' = NoScores
    BY <1>1, <1>2
  <2>. QED BY <2>1, NoScoresStayRight DEF ParentsSoFar, NoScores
<1>. QED BY <1>3, <1>5, <1>6 DEF PipelineInv

LEMMA DeduplicateKeeps == PipelineInv /\ Deduplicate => PipelineInv'
<1>. SUFFICES ASSUME PipelineInv, Deduplicate PROVE PipelineInv'
  OBVIOUS
<1>1. /\ stage = "dedup" /\ stage' = "mmr"
      /\ setup' = setup /\ corpus' = corpus /\ filters' = filters /\ allowed' = allowed
      /\ weights' = weights /\ lexical' = lexical /\ ranked' = ranked /\ parents' = parents
  BY DEF Deduplicate
<1>2. /\ Typed # {} /\ parents = NoScores /\ ranked \in Rankings(allowed) /\ ranked # << >>
  BY <1>1 DEF PipelineInv, CandidatesSoFar, ParentsSoFar, Late
<1>3. PipelineTypes' /\ ScoresSoFar'
  BY <1>1, LaterStages DEF Late
<1>4. KeptOK'
  BY <1>2, DeduplicateIs
<1>5. CandidatesSoFar' /\ ResultsSoFar'
  BY <1>1, <1>2, <1>4 DEF CandidatesSoFar, ResultsSoFar, Early, Late
<1>6. ParentsSoFar'
  <2>1. parents' = NoScores
    BY <1>1, <1>2
  <2>. QED BY <2>1, NoScoresStayRight DEF ParentsSoFar, NoScores
<1>. QED BY <1>3, <1>5, <1>6 DEF PipelineInv

LEMMA DiversifyKeeps == PipelineInv /\ Diversify => PipelineInv'
<1>. SUFFICES ASSUME PipelineInv, Diversify PROVE PipelineInv'
  OBVIOUS
<1>1. /\ stage = "mmr" /\ stage' = "parents"
      /\ setup' = setup /\ corpus' = corpus /\ filters' = filters /\ allowed' = allowed
      /\ weights' = weights /\ lexical' = lexical /\ ranked' = ranked /\ parents' = parents
  BY DEF Diversify
<1>2. /\ SettingOK /\ allowed \subseteq Chunks /\ Typed # {} /\ parents = NoScores
      /\ ranked \in Rankings(allowed) /\ ranked # << >> /\ KeptOK
  BY <1>1 DEF PipelineInv, PipelineTypes, CandidatesSoFar, ResultsSoFar, ParentsSoFar, Late
<1>3. PipelineTypes' /\ ScoresSoFar'
  BY <1>1, LaterStages DEF Late
<1>4. results' \in Rankings(allowed)' /\ LeftOutForAReason'
  BY <1>2, DiversifyIs
<1>5. CandidatesSoFar' /\ ResultsSoFar'
  BY <1>1, <1>2, <1>4 DEF CandidatesSoFar, ResultsSoFar, Early, Late
<1>6. ParentsSoFar'
  <2>1. parents' = NoScores
    BY <1>1, <1>2
  <2>. QED BY <2>1, NoScoresStayRight DEF ParentsSoFar, NoScores
<1>. QED BY <1>3, <1>5, <1>6 DEF PipelineInv

LEMMA RecoverKeeps == PipelineInv /\ RecoverParents => PipelineInv'
<1>. SUFFICES ASSUME PipelineInv, RecoverParents PROVE PipelineInv'
  OBVIOUS
<1>1. /\ stage = "parents" /\ stage' = "done"
      /\ setup' = setup /\ corpus' = corpus /\ filters' = filters /\ allowed' = allowed
      /\ weights' = weights /\ lexical' = lexical /\ ranked' = ranked /\ results' = results
  BY DEF RecoverParents
<1>2. /\ allowed \subseteq Chunks /\ results \in Rankings(allowed) /\ LeftOutForAReason
  BY <1>1 DEF PipelineInv, PipelineTypes, CandidatesSoFar, ResultsSoFar, Late
<1>3. PipelineTypes' /\ ScoresSoFar'
  BY <1>1, LaterStages DEF Late
<1>4. ContextHasNoGap'
  BY <1>2, RecoverIs
<1>5. LeftOutForAReason'
  BY <1>1, <1>2, ResultsStay
<1>6. CandidatesSoFar' /\ ResultsSoFar' /\ ParentsSoFar'
  BY <1>1, <1>4, <1>5 DEF CandidatesSoFar, ResultsSoFar, ParentsSoFar, Early, Late
<1>. QED BY <1>3, <1>6 DEF PipelineInv

LEMMA PipelineRests == PipelineInv /\ UNCHANGED pipelineVars => PipelineInv'
<1>. SUFFICES ASSUME PipelineInv, UNCHANGED pipelineVars PROVE PipelineInv'
  OBVIOUS
<1>1. /\ setup' = setup /\ corpus' = corpus /\ filters' = filters /\ stage' = stage
      /\ weights' = weights /\ feedback' = feedback /\ allowed' = allowed /\ lexical' = lexical
      /\ retrieval' = retrieval /\ ranked' = ranked /\ kept' = kept /\ results' = results
      /\ parents' = parents
  BY DEF pipelineVars
<1>2. PipelineTypes'
  <2>1. SettingOK'
    BY <1>1, SettingStays DEF PipelineInv, PipelineTypes
  <2>. QED BY <1>1, <2>1 DEF PipelineInv, PipelineTypes, Chunks, QueryOK
<1>3. ScoresSoFar'
  <2>1. LexicalOK'
    BY <1>1, LexicalStays DEF PipelineInv, ScoresSoFar
  <2>. QED BY <1>1, <2>1 DEF PipelineInv, ScoresSoFar, NoScores
<1>4. CandidatesSoFar'
  BY <1>1 DEF PipelineInv, CandidatesSoFar
<1>5. ResultsSoFar'
  <2>1. \A c, d : Copies(c, d)' <=> Copies(c, d)
    BY <1>1, SameCopies
  <2>2. KeptOK' <=> KeptOK
    BY <1>1, <2>1 DEF KeptOK
  <2>3. LeftOutForAReason' <=> LeftOutForAReason
    BY <1>1, ResultsStay
  <2>. QED BY <1>1, <2>2, <2>3 DEF PipelineInv, ResultsSoFar
<1>6. ParentsSoFar'
  <2>1. ContextHasNoGap' <=> ContextHasNoGap
    BY <1>1, ParentsStay
  <2>. QED BY <1>1, <2>1 DEF PipelineInv, ParentsSoFar, NoScores
<1>. QED BY <1>2, <1>3, <1>4, <1>5, <1>6 DEF PipelineInv

\* The high-precision mode keeps its best evidence: no passage outweighs the words that
\* were typed by guesses alone, a candidate is left out only for want of room or of news,
\* and the text around a result has no gap. For every base, question, filter, score of a
\* reranker and configuration.
THEOREM EvidenceIsKept == PipelineSpec => []BestEvidenceSurvives
<1>1. PipelineInit => PipelineInv
  BY PipelineBegins
<1>2. PipelineInv /\ [PipelineNext]_pipelineVars => PipelineInv'
  BY ExpandKeeps, FilterKeeps, MatchKeeps, PoolKeeps, RerankKeeps, DeduplicateKeeps,
     DiversifyKeeps, RecoverKeeps, PipelineRests DEF PipelineNext
<1>3. PipelineInv => BestEvidenceSurvives
  BY DEF PipelineInv, ScoresSoFar, ResultsSoFar, ParentsSoFar, LexicalOK, BestEvidenceSurvives
<1>. QED BY <1>1, <1>2, <1>3, PTL DEF PipelineSpec
=============================================================================
