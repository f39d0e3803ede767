-------------------------- MODULE ChatSocketProofs --------------------------
(***************************************************************************)
(* The chat connection keeps its promises for every number of questions,   *)
(* every answer and every number of cancels: an inductive invariant of     *)
(* ChatSocket, and the properties that follow from it.  The pieces of an   *)
(* answer are those of DeltaSplit: put together they are the text, for     *)
(* every text and every MAX_DELTAS and DELTA_TARGET_CHARS.                 *)
(***************************************************************************)
EXTENDS ChatSocket, DeltaSplit, FiniteInduction

-----------------------------------------------------------------------------
(* One frame                                                                *)

LEMMA LeastOfTwo ==
  ASSUME NEW a \in Int, NEW b \in Int
  PROVE  Min({a, b}) \in {a, b} /\ Min({a, b}) <= a /\ Min({a, b}) <= b
<1>1. \E x \in {a, b} : \A y \in {a, b} : x <= y
  OBVIOUS
<1>2. Min({a, b}) \in {a, b} /\ \A y \in {a, b} : Min({a, b}) <= y
  BY <1>1 DEF Min
<1>. QED BY <1>2

LEMMA GreatestOfTwo ==
  ASSUME NEW a \in Int, NEW b \in Int
  PROVE  Max({a, b}) \in {a, b} /\ Max({a, b}) >= a /\ Max({a, b}) >= b
<1>1. \E x \in {a, b} : \A y \in {a, b} : x >= y
  OBVIOUS
<1>2. Max({a, b}) \in {a, b} /\ \A y \in {a, b} : Max({a, b}) >= y
  BY <1>1 DEF Max
<1>. QED BY <1>2

LEMMA Shares ==
  ASSUME NEW a \in Nat, NEW b \in Nat \ {0}
  PROVE  /\ CeilDiv(a, b) \in Nat
         /\ a > 0 => CeilDiv(a, b) > 0
         /\ b = 1 => CeilDiv(a, b) = a
BY DEF CeilDiv

LEMMA TextTypes ==
  ASSUME NEW text, IsText(text)
  PROVE  text.len \in Nat /\ \A i \in text.spaces : i \in 0..(text.len - 1)
BY DEF IsText

\* Between one frame and MaxDeltas are decided.
LEMMA FrameCount ==
  ASSUME NEW text, IsText(text)
  PROVE  Frames(text) \in Nat \ {0} /\ Frames(text) <= MaxDeltas
<1>. DEFINE share == CeilDiv(text.len, TargetChars)
<1>1. share \in Nat
  BY TextTypes, Shares, DeltasAssumption
<1>. HIDE DEF share
<1>. DEFINE most == Max({1, share})
<1>2. most \in {1, share} /\ most >= 1
  BY <1>1, GreatestOfTwo
<1>3. most \in Nat \ {0}
  BY <1>1, <1>2
<1>. HIDE DEF most
<1>4. MaxDeltas \in Nat \ {0}
  BY DeltasAssumption
<1>5. Min({MaxDeltas, most}) \in {MaxDeltas, most} /\ Min({MaxDeltas, most}) <= MaxDeltas
  BY <1>3, <1>4, LeastOfTwo
<1>6. Frames(text) = Min({MaxDeltas, most})
  BY DEF Frames, most, share
<1>. QED BY <1>3, <1>4, <1>5, <1>6

\* A frame is not empty, ends in the text, and the last one ends where it ends.
LEMMA FrameMoves ==
  ASSUME NEW text, IsText(text), NEW from \in Nat, from < text.len, NEW remaining \in Nat \ {0}
  PROVE  /\ FrameEnd(text, from, remaining) \in Nat
         /\ from < FrameEnd(text, from, remaining)
         /\ FrameEnd(text, from, remaining) <= text.len
         /\ remaining = 1 => FrameEnd(text, from, remaining) = text.len
<1>. DEFINE share == CeilDiv(text.len - from, remaining)
            even == Min({from + share, text.len})
            breaks == {i \in text.spaces : from < i /\ i <= even}
<1>1. text.len \in Nat /\ text.len - from \in Nat /\ text.len - from > 0
  BY TextTypes
<1>2. share \in Nat /\ share > 0 /\ (remaining = 1 => share = text.len - from)
  BY <1>1, Shares
<1>. HIDE DEF share
<1>3. even \in {from + share, text.len} /\ even <= from + share /\ even <= text.len
  <2>1. from + share \in Int /\ text.len \in Int
    BY <1>1, <1>2
  <2>. QED BY <2>1, LeastOfTwo
<1>. HIDE DEF even
<1>4. even \in Nat /\ from < even /\ (remaining = 1 => even = text.len)
  BY <1>1, <1>2, <1>3
<1>5. FrameEnd(text, from, remaining)
        = IF even < text.len /\ breaks # {} THEN Max(breaks) + 1 ELSE even
  BY DEF FrameEnd, even, share
<1>6. CASE even < text.len /\ breaks # {}
  <2>1. breaks \in SUBSET (0..even)
    BY TextTypes, <1>1, <1>4
  <2>2. Max(breaks) \in breaks
    BY <1>4, <1>6, <2>1, GreatestNumber
  <2>3. from < Max(breaks) /\ Max(breaks) <= even /\ Max(breaks) \in Nat
    BY <2>1, <2>2
  <2>4. FrameEnd(text, from, remaining) = Max(breaks) + 1
    BY <1>5, <1>6
  <2>. HIDE DEF breaks
  <2>. QED BY <1>1, <1>4, <1>6, <2>3, <2>4
<1>7. CASE ~ (even < text.len /\ breaks # {})
  <2>1. FrameEnd(text, from, remaining) = even
    BY <1>5, <1>7
  <2>. QED BY <1>1, <1>3, <1>4, <2>1
<1>. QED BY <1>6, <1>7

-----------------------------------------------------------------------------
(* The loop                                                                 *)

\* Where the loop stands after its turns.
LEMMA EndsFollow ==
  ASSUME NEW text, IsText(text)
  PROVE  /\ Ends(text) \in [0..Frames(text) -> 0..text.len]
         /\ Ends(text)[0] = 0
         /\ \A k \in 1..Frames(text) :
              Ends(text)[k] = IF Ends(text)[k - 1] >= text.len THEN text.len
                              ELSE FrameEnd(text, Ends(text)[k - 1], Frames(text) - k + 1)
<1>. DEFINE n == Frames(text)
            S == 0..text.len
            Go(k, e) == IF e >= text.len THEN text.len ELSE FrameEnd(text, e, n - k + 1)
            step == [x \in (1..n) \X S |-> Go(x[1], x[2])]
            Onward(k) == [from \in S |-> Go(k, from)]
            Rest(f, k) == IF k = 0 THEN 0 ELSE Onward(k)[f[k - 1]]
            end == CHOOSE f : f = [k \in 0..n |-> Rest(f, k)]
<1>1. n \in Nat \ {0} /\ text.len \in Nat
  BY FrameCount, TextTypes
<1>. HIDE DEF n
<1>2. ASSUME NEW k \in 1..n, NEW e \in S PROVE Go(k, e) \in S
  <2>1. CASE e >= text.len
    BY <1>1, <2>1
  <2>2. CASE ~ (e >= text.len)
    <3>1. e \in Nat /\ e < text.len /\ n - k + 1 \in Nat \ {0}
      BY <1>1, <2>2
    <3>2. FrameEnd(text, e, n - k + 1) \in S
      <4>1. FrameEnd(text, e, n - k + 1) \in Nat /\ FrameEnd(text, e, n - k + 1) <= text.len
        BY <3>1, FrameMoves
      <4>. HIDE DEF n
      <4>. QED BY <1>1, <4>1
    <3>. QED BY <2>2, <3>2
  <2>. QED BY <2>1, <2>2
<1>. HIDE DEF Go
<1>3. step \in [(1..n) \X S -> S]
  BY <1>2
<1>4. 0 \in S
  BY <1>1
<1>5. \A k \in 1..n, e \in S : step[<<k, e>>] = Go(k, e)
  OBVIOUS
<1>. HIDE DEF step
<1>6. PICK f \in [0..n -> S] : Walks(f, n, 0, step)
  <2>1. n \in Nat
    BY <1>1
  <2>. HIDE DEF S, Rest, end
  <2>2. step \in [(1..n) \X S -> S] /\ 0 \in S
    BY <1>3, <1>4
  <2>. QED BY <2>1, <2>2, StepByStep, Zenon
<1>7. f[0] = 0 /\ \A k \in 1..n : f[k] = Go(k, f[k - 1])
  <2>0. f[0] = 0
    BY <1>6 DEF Walks
  <2>. SUFFICES ASSUME NEW k \in 1..n PROVE f[k] = Go(k, f[k - 1])
    BY <2>0
  <2>1. k - 1 \in 0..n
    BY <1>1
  <2>2. f[k - 1] \in S
    BY <2>1
  <2>. QED BY <1>5, <1>6, <2>2 DEF Walks
<1>8. \A k \in 0..n : f[k] = Rest(f, k)
  <2>. SUFFICES ASSUME NEW k \in 0..n PROVE f[k] = Rest(f, k)
    OBVIOUS
  <2>1. CASE k = 0
    BY <1>7, <2>1
  <2>2. CASE k # 0
    <3>1. k \in 1..n /\ k - 1 \in 0..n
      BY <1>1, <2>2
    <3>2. f[k - 1] \in S
      BY <3>1
    <3>. HIDE DEF S
    <3>. QED BY <1>7, <2>2, <3>1, <3>2
  <2>. QED BY <2>1, <2>2
<1>9. f = [k \in 0..n |-> Rest(f, k)]
  BY <1>8
<1>10. end = [k \in 0..n |-> Rest(end, k)]
  <2>. HIDE DEF Rest
  <2>. QED BY <1>9
<1>11. Ends(text) = end
  BY DEF Ends, n, Go
<1>. HIDE DEF end
<1>12. end[0] = 0 /\ \A k \in 1..n : end[k - 1] \in S => end[k] = Go(k, end[k - 1])
  <2>1. 0 \in 0..n
    BY <1>1
  <2>2. end[0] = 0
    BY <1>10, <2>1
  <2>3. ASSUME NEW k \in 1..n, end[k - 1] \in S PROVE end[k] = Go(k, end[k - 1])
    <3>1. k \in 0..n /\ k # 0
      BY <1>1
    <3>2. end[k] = Rest(end, k)
      BY <1>10, <3>1
    <3>. HIDE DEF S
    <3>. QED BY <2>3, <3>1, <3>2
  <2>. QED BY <2>2, <2>3
<1>13. \A k \in 0..n : end[k] \in S
  <2>. DEFINE T == {k \in 0..n : end[k] \in S}
  <2>1. 0 \in T
    BY <1>1, <1>4, <1>12
  <2>2. ASSUME NEW k \in 1..n, k - 1 \in T PROVE k \in T
    <3>1. k \in 0..n
      BY <1>1
    <3>2. end[k - 1] \in S
      BY <2>2
    <3>3. end[k] \in S
      <4>. HIDE DEF S
      <4>. QED BY <1>2, <1>12, <3>2
    <3>. QED BY <3>1, <3>3
  <2>. HIDE DEF T
  <2>3. \A k \in 0..n : k \in T
    BY <1>1, <2>1, <2>2, Climbing
  <2>. QED BY <2>3 DEF T
<1>14. end \in [0..n -> S]
  <2>. HIDE DEF S
  <2>. QED BY <1>10, <1>13
<1>15. \A k \in 1..n : end[k] = Go(k, end[k - 1])
  <2>1. \A k \in 1..n : k - 1 \in 0..n
    BY <1>1
  <2>. HIDE DEF S
  <2>. QED BY <1>12, <1>13, <2>1
<1>. QED BY <1>11, <1>12, <1>14, <1>15 DEF Go, n

\* The loop ends with the text, and not a turn before.
LEMMA LoopEnds ==
  ASSUME NEW text, IsText(text)
  PROVE  /\ Turns(text) \in 0..Frames(text)
         /\ Ends(text)[Turns(text)] = text.len
         /\ \A j \in 0..(Turns(text) - 1) : Ends(text)[j] < text.len
<1>. DEFINE n == Frames(text)
            e == Ends(text)
            AtTheEnd(k) == k = n \/ e[k] >= text.len
            Over == {k \in 0..n : AtTheEnd(k)}
            Good(k) == AtTheEnd(k) /\ \A j \in 0..(k - 1) : e[j] < text.len
<1>1. n \in Nat \ {0} /\ text.len \in Nat
  BY FrameCount, TextTypes
<1>2. e \in [0..n -> 0..text.len]
  BY EndsFollow
<1>3. e[n] = text.len
  <2>1. n \in 1..n /\ n - 1 \in 0..n /\ n - n + 1 = 1
    BY <1>1
  <2>2. e[n] = IF e[n - 1] >= text.len THEN text.len ELSE FrameEnd(text, e[n - 1], n - n + 1)
    BY <2>1, EndsFollow
  <2>3. e[n - 1] \in 0..text.len
    BY <1>2, <2>1
  <2>4. CASE e[n - 1] >= text.len
    BY <2>2, <2>4
  <2>5. CASE ~ (e[n - 1] >= text.len)
    <3>. DEFINE from == e[n - 1]
    <3>1. from \in Nat /\ from < text.len /\ 1 \in Nat \ {0}
      BY <1>1, <2>3, <2>5
    <3>. HIDE DEF from
    <3>2. FrameEnd(text, from, 1) = text.len
      BY <3>1, FrameMoves
    <3>. QED BY <2>1, <2>2, <2>5, <3>2 DEF from
  <2>. QED BY <2>4, <2>5
<1>. HIDE DEF n, e
<1>4. n \in Over /\ Over \in SUBSET Nat
  BY <1>1
<1>5. PICK m \in Over : \A k \in Over : m <= k
  <2>. HIDE DEF Over
  <2>. QED BY <1>4, LeastNumber
<1>6. m \in 0..n /\ Good(m)
  <2>1. m \in 0..n /\ AtTheEnd(m)
    OBVIOUS
  <2>2. ASSUME NEW j \in 0..(m - 1) PROVE e[j] < text.len
    <3>1. j \in 0..n /\ ~ (m <= j) /\ j # n
      BY <1>1, <2>1
    <3>2. j \notin Over
      BY <1>5, <3>1
    <3>3. ~ (e[j] >= text.len)
      BY <3>1, <3>2
    <3>4. e[j] \in 0..text.len
      BY <1>2, <3>1
    <3>. QED BY <1>1, <3>3, <3>4
  <2>. QED BY <2>1, <2>2
<1>7. Turns(text) = CHOOSE k \in 0..n : Good(k)
  BY DEF Turns, n, e
<1>8. Turns(text) \in 0..n /\ Good(Turns(text))
  <2>. HIDE DEF Good
  <2>. QED BY <1>6, <1>7
<1>9. e[Turns(text)] = text.len
  <2>1. e[Turns(text)] \in 0..text.len
    BY <1>2, <1>8
  <2>. QED BY <1>1, <1>3, <1>8, <2>1
<1>. QED BY <1>8, <1>9 DEF n, e

\* The frames are pairs of places in the text.
LEMMA SplitIsSpans ==
  ASSUME NEW text, IsText(text)
  PROVE  Split(text) \in Seq(Nat \X Nat)
<1>. DEFINE t == Turns(text)
            e == Ends(text)
<1>1. t \in Nat /\ t \in 0..Frames(text) /\ Frames(text) \in Nat /\ text.len \in Nat
  BY LoopEnds, FrameCount, TextTypes
<1>2. \A k \in 0..Frames(text) : e[k] \in Nat
  BY <1>1, EndsFollow
<1>3. Split(text) = [k \in 1..t |-> <<e[k - 1], e[k]>>]
  BY DEF Split
<1>. HIDE DEF t, e
<1>4. \A k \in 1..t : <<e[k - 1], e[k]>> \in Nat \X Nat
  <2>. SUFFICES ASSUME NEW k \in 1..t PROVE e[k - 1] \in Nat /\ e[k] \in Nat
    OBVIOUS
  <2>1. k - 1 \in 0..Frames(text) /\ k \in 0..Frames(text)
    BY <1>1
  <2>. QED BY <1>2, <2>1
<1>. QED BY <1>1, <1>3, <1>4

\* "Joining the result must reproduce `text` exactly" (split_into_deltas): the
\* frames follow one another from the first character to the last, none is
\* empty, there are at most MAX_DELTAS, and an empty text has none.
THEOREM SplitIsExact ==
  ASSUME NEW text, IsText(text)
  PROVE  Exact(text, Split(text))
<1>. DEFINE t == Turns(text)
            e == Ends(text)
            frames == Split(text)
<1>1. t \in Nat /\ text.len \in Nat /\ t \in 0..Frames(text) /\ Frames(text) \in Nat
  BY LoopEnds, FrameCount, TextTypes
<1>2. t <= MaxDeltas /\ MaxDeltas \in Nat
  <2>1. t <= Frames(text) /\ Frames(text) <= MaxDeltas
    BY <1>1, FrameCount
  <2>2. MaxDeltas \in Nat
    BY DeltasAssumption
  <2>. HIDE DEF t
  <2>. QED BY <1>1, <2>1, <2>2
<1>3. /\ e[t] = text.len /\ e[0] = 0
      /\ \A j \in 0..(t - 1) : e[j] < text.len
  BY LoopEnds, EndsFollow
<1>4. ASSUME NEW k \in 1..t PROVE e[k - 1] < e[k]
  <2>1. k \in 1..Frames(text) /\ k - 1 \in 0..(t - 1) /\ k - 1 \in 0..Frames(text)
    <3>. HIDE DEF t
    <3>. QED BY <1>1
  <2>2. e[k - 1] < text.len /\ e[k - 1] \in 0..text.len
    BY <1>3, <2>1, EndsFollow
  <2>3. e[k] = FrameEnd(text, e[k - 1], Frames(text) - k + 1)
    <3>1. e[k] = IF e[k - 1] >= text.len THEN text.len
                 ELSE FrameEnd(text, e[k - 1], Frames(text) - k + 1)
      BY <2>1, EndsFollow
    <3>2. ~ (e[k - 1] >= text.len)
      BY <1>1, <2>2
    <3>. QED BY <3>1, <3>2
  <2>. DEFINE from == e[k - 1]
              remaining == Frames(text) - k + 1
  <2>4. from \in Nat /\ from < text.len
    BY <1>1, <2>2
  <2>5. remaining \in Nat \ {0}
    BY <1>1, <2>1
  <2>. HIDE DEF from, remaining
  <2>6. from < FrameEnd(text, from, remaining)
    BY <2>4, <2>5, FrameMoves
  <2>. QED BY <2>3, <2>6 DEF from, remaining
<1>5. frames = [k \in 1..t |-> <<e[k - 1], e[k]>>]
  BY DEF Split
<1>. HIDE DEF t, e, frames
<1>6. Len(frames) = t /\ DOMAIN frames = 1..t /\ \A k \in 1..t : frames[k] = <<e[k - 1], e[k]>>
  BY <1>1, <1>5
<1>7. \A k \in DOMAIN frames : frames[k][1] < frames[k][2]
  BY <1>4, <1>6
<1>8. ASSUME NEW k \in DOMAIN frames
      PROVE  frames[k][1] = IF k = 1 THEN 0 ELSE frames[k - 1][2]
  <2>1. CASE k = 1
    BY <1>3, <1>6, <2>1
  <2>2. CASE k # 1
    <3>1. k - 1 \in 1..t
      BY <1>1, <1>6, <2>2
    <3>. QED BY <1>6, <2>2, <3>1
  <2>. QED BY <2>1, <2>2
<1>9. ASSUME text.len > 0 PROVE frames # <<>> /\ frames[Len(frames)][2] = text.len
  <2>1. t # 0
    BY <1>1, <1>3, <1>9
  <2>2. t \in 1..t
    BY <1>1, <2>1
  <2>3. frames # <<>>
    BY <1>6, <2>2
  <2>. QED BY <1>3, <1>6, <2>2, <2>3
<1>10. ASSUME text.len = 0 PROVE frames = <<>>
  <2>1. t = 0
    <3>1. ASSUME t # 0 PROVE FALSE
      <4>1. 0 \in 0..(t - 1)
        BY <1>1, <3>1
      <4>. QED BY <1>3, <1>10, <4>1
    <3>. QED BY <3>1
  <2>. QED BY <1>5, <2>1
<1>11. Len(frames) <= MaxDeltas
  BY <1>2, <1>6
<1>12. Exact(text, frames)
  BY <1>7, <1>8, <1>9, <1>10, <1>11 DEF Exact
<1>. QED BY <1>12 DEF frames

-----------------------------------------------------------------------------
(* The invariant, in parts that speak of some of the state each             *)

Spans == {<<>>} \cup (Nat \X Nat)
ShownFrames == [q : 0..NumQuestions, kind : Kinds, text : Spans]
Plain == [kind : {"auth", "cancel", "other"}]
Asks == [kind : {"ask", "badask"}, q : Questions]
Inputs == Plain \cup Asks

Early == {"invalid", "new", "accepted", "planning", "planned", "grounded", "generating"}
Late  == {"delivering", "sending", "delivered", "storing"}
Busy  == Early \cup Late

Types ==
  /\ here \in BOOLEAN /\ asked \in 0..NumQuestions /\ others \in 0..MaxOthers
  /\ lastCancel \in 0..NumQuestions
  /\ shown \in Seq(ShownFrames) /\ inbox \in Seq(Inputs)
  /\ conn \in {"accepted", "authorizing", "open", "closed"}
  /\ event = q /\ set \in SUBSET (0..NumQuestions)
  /\ task \in Busy \cup {"none", "ending"}
  /\ q \in 0..NumQuestions /\ stopped \in BOOLEAN /\ delivered \in Nat
  /\ task # "none" \/ writing # {} => q \in Questions
  /\ writing \in SUBSET {q} /\ refused \in SUBSET Questions
  /\ answer = [i \in Questions |-> answer[i]] /\ \A i \in Questions : IsText(answer[i])
  /\ stored \in [Questions -> Seq(Nat \X Nat)]

\* What waits in the inbox: questions in the order they were asked, later than
\* the one being answered and than all the client was told of; and behind a
\* cancel are only questions it was not sent for.
IsAsk(f) == f.kind \in {"ask", "badask"}
AsksInOrder(box) ==
  \A j, k \in DOMAIN box : j < k /\ IsAsk(box[j]) /\ IsAsk(box[k]) => box[j].q < box[k].q
AsksBetween(box, now, high) ==
  \A k \in DOMAIN box : IsAsk(box[k]) => now < box[k].q /\ box[k].q <= high
AsksAreNew(box, frames) ==
  \A k \in DOMAIN box, j \in DOMAIN frames : IsAsk(box[k]) => frames[j].q < box[k].q
CancelsReach(box, now, last) ==
  \A k \in DOMAIN box : box[k].kind = "cancel" =>
    now <= last /\ \A j \in 1..(k - 1) : IsAsk(box[j]) => box[j].q <= last
ShownWereAsked(frames, high) == \A j \in DOMAIN frames : frames[j].q <= high
Queue(box, frames, now, high, last) ==
  /\ AsksInOrder(box) /\ AsksBetween(box, now, high) /\ AsksAreNew(box, frames)
  /\ CancelsReach(box, now, last) /\ ShownWereAsked(frames, high)
  /\ now <= high /\ last <= high

\* The Events that are set, and what was stopped for a client that is there,
\* are of questions up to the last cancel.
Cancels(events, now, last, there, stop) ==
  /\ \A e \in events : e <= last
  /\ stop /\ there => now <= last

\* How far the task has come, and what the history holds by then.
Trim(text, frames) == IF Blank(text, frames) THEN <<>> ELSE frames
Sent(text, n) == SubSeq(Split(text), 1, n)
Place ==
  /\ task # "none" => conn = "open"
  /\ writing # {} => task = "storing" \/ conn = "closed"
  /\ task \in Early => delivered = 0
  /\ task \in Late \/ writing # {} => delivered <= Len(Split(answer[q]))
  /\ task = "sending" => delivered < Len(Split(answer[q]))
  /\ task \in {"delivered", "storing"} /\ ~stopped => delivered = Len(Split(answer[q]))
  /\ \A i \in Questions : i > q => stored[i] = <<>>
  /\ task \in Busy \ {"storing"} \/ writing # {} => stored[q] = <<>>
  /\ task = "storing" /\ writing = {} /\ q \notin refused =>
       stored[q] = Trim(answer[q], Sent(answer[q], delivered))

\* The frames of a question among some frames: none, the last of one of these
\* kinds, none that ends it with a turn; every question but these was ended.
Unseen(frames, i) == \A a \in DOMAIN frames : frames[a].q # i
LastIs(frames, i, kinds) ==
  \E a \in DOMAIN frames : /\ frames[a].q = i /\ frames[a].kind \in kinds
                           /\ \A c \in (a + 1)..Len(frames) : frames[c].q # i
NotOver(frames, i) ==
  \A a \in DOMAIN frames : frames[a].q = i => frames[a].kind \notin {"done", "cancelled"}
NotDone(frames, i) == \A a \in DOMAIN frames : frames[a].q = i => frames[a].kind # "done"
AllEndedBut(frames, S) ==
  \A a \in DOMAIN frames : frames[a].kind = "accepted" /\ frames[a].q \notin S =>
    \E c \in (a + 1)..Len(frames) : frames[c].q = frames[a].q /\ frames[c].kind \in Ended

\* The kinds the last frame of the question has, by where its task is.
LastKinds(at) ==
  CASE at = "accepted" -> {"accepted"}
    [] at = "planning" -> {"retrieving"}
    [] at = "planned"  -> {"retrieving", "citations"}
    [] at = "grounded" -> {"citations"}
    [] at = "generating" -> {"retrieving", "citations", "generating"}
    [] OTHER -> {"retrieving", "citations", "generating", "delta"}

\* What the client that is there sees of the question being answered.
Showing(frames, at, i) ==
  /\ at \in {"none", "ending"} => AllEndedBut(frames, {})
  /\ at \in Busy => AllEndedBut(frames, {i})
  /\ at \in {"invalid", "new"} => Unseen(frames, i)
  /\ at \in Busy \ {"invalid", "new"} => LastIs(frames, i, LastKinds(at))

FollowsProtocol(frames) ==
  \A b \in DOMAIN frames :
    LET i == frames[b].q
        since(a) == \A c \in (a + 1)..(b - 1) : frames[c].q # i
    IN  i # 0 =>
        /\ since(0) => frames[b].kind \in {"busy", "error", "accepted"}
        /\ \A a \in 1..(b - 1) : frames[a].q = i /\ since(a) => frames[b].kind \in MayFollow(frames[a].kind)

OneAtATime(frames) ==
  \A a, b \in DOMAIN frames :
    /\ a < b /\ frames[a].kind = "accepted"
    /\ frames[b].q \notin {0, frames[a].q} /\ frames[b].kind # "busy"
    => \E c \in (a + 1)..(b - 1) : frames[c].q = frames[a].q /\ frames[c].kind \in Ended

EndsNameQuestions(frames) ==
  \A k \in DOMAIN frames : frames[k].kind \in {"done", "cancelled"} => frames[k].q \in Questions
CancelledBy(frames, last) == \A k \in DOMAIN frames : frames[k].kind = "cancelled" => last >= frames[k].q

Orderly(frames, last) ==
  FollowsProtocol(frames) /\ OneAtATime(frames) /\ EndsNameQuestions(frames) /\ CancelledBy(frames, last)

\* What the client has of every answer: nothing of the ones to come, what was
\* sent of the one it is getting, and of those that ended what the history has.
NothingYet(frames, i, now) == i > now => Collected(frames, i) = <<>>
Keeps(frames, i, text, turn) == NotOver(frames, i) \/ turn = Trim(text, Collected(frames, i))
Whole(frames, i, text) == NotDone(frames, i) \/ Exact(text, Collected(frames, i))
About(frames, i, now, text, turn, lost) ==
  /\ NothingYet(frames, i, now)
  /\ i \in lost \/ Keeps(frames, i, text, turn)
  /\ Whole(frames, i, text)

Screen ==
  /\ Orderly(shown, lastCancel)
  /\ here => Showing(shown, task, q)
  /\ task \in Busy \/ writing # {} => NotOver(shown, q)
  /\ here /\ task \in Busy => Collected(shown, q) = Sent(answer[q], delivered)
  /\ \A i \in Questions : About(shown, i, q, answer[i], stored[i], refused)

IInv == /\ Types /\ Queue(inbox, shown, q, asked, lastCancel)
        /\ Cancels(set, q, lastCancel, here, stopped) /\ Place /\ Screen

-----------------------------------------------------------------------------
(* Sequences                                                                *)

LEMMA AppendKeeps ==
  ASSUME NEW S, NEW s \in Seq(S), NEW x \in S
  PROVE  /\ Append(s, x) \in Seq(S) /\ Len(Append(s, x)) = Len(s) + 1
         /\ DOMAIN s = 1..Len(s) /\ DOMAIN Append(s, x) = 1..(Len(s) + 1)
         /\ \A k \in 1..Len(s) : Append(s, x)[k] = s[k]
         /\ Append(s, x)[Len(s) + 1] = x
         /\ Len(s) \in Nat
OBVIOUS

LEMMA TailKeeps ==
  ASSUME NEW S, NEW s \in Seq(S), s # <<>>
  PROVE  /\ Tail(s) \in Seq(S) /\ Len(Tail(s)) = Len(s) - 1
         /\ DOMAIN Tail(s) = 1..(Len(s) - 1) /\ DOMAIN s = 1..Len(s)
         /\ \A k \in 1..(Len(s) - 1) : Tail(s)[k] = s[k + 1] /\ k + 1 \in 1..Len(s)
         /\ Head(s) = s[1] /\ 1 \in 1..Len(s) /\ Head(s) \in S
         /\ Len(s) \in Nat \ {0}
OBVIOUS

LEMMA OneMore ==
  ASSUME NEW S, NEW s \in Seq(S), NEW n \in Nat, n < Len(s)
  PROVE  SubSeq(s, 1, n + 1) = Append(SubSeq(s, 1, n), s[n + 1])
<1>1. Len(s) \in Nat /\ n + 1 \in 1..Len(s)
  OBVIOUS
<1>2. SubSeq(s, 1, n) \in Seq(S) /\ SubSeq(s, 1, n + 1) \in Seq(S)
  BY <1>1, SubSeqProperties
<1>3. Len(SubSeq(s, 1, n)) = n /\ \A k \in 1..n : SubSeq(s, 1, n)[k] = s[k]
  BY <1>1, SubSeqProperties
<1>4. Len(SubSeq(s, 1, n + 1)) = n + 1 /\ \A k \in 1..(n + 1) : SubSeq(s, 1, n + 1)[k] = s[k]
  BY <1>1, SubSeqProperties
<1>5. s[n + 1] \in S
  BY <1>1
<1>. DEFINE a == SubSeq(s, 1, n)
            b == SubSeq(s, 1, n + 1)
            x == s[n + 1]
<1>6. \A k \in 1..n : b[k] = a[k]
  BY <1>3, <1>4
<1>7. b[n + 1] = x
  BY <1>1, <1>4
<1>. HIDE DEF a, b, x
<1>8. /\ a \in Seq(S) /\ b \in Seq(S) /\ Len(a) = n /\ Len(b) = n + 1 /\ x \in S
  BY <1>2, <1>3, <1>4, <1>5 DEF a, b, x
<1>9. b = Append(a, x)
  <2>1. Append(a, x) \in Seq(S) /\ Len(Append(a, x)) = n + 1
    BY <1>8
  <2>2. \A k \in 1..(n + 1) : Append(a, x)[k] = IF k = n + 1 THEN x ELSE a[k]
    BY <1>8
  <2>3. ASSUME NEW k \in 1..(n + 1) PROVE b[k] = Append(a, x)[k]
    <3>1. CASE k = n + 1
      BY <1>7, <2>2, <3>1
    <3>2. CASE k # n + 1
      <4>1. k \in 1..n
        BY <3>2
      <4>. QED BY <1>6, <2>2, <3>2, <4>1
    <3>. QED BY <3>1, <3>2
  <2>. QED BY <1>8, <2>1, <2>3, SeqEqual
<1>. QED BY <1>9 DEF a, b, x

LEMMA NothingSent ==
  ASSUME NEW S, NEW s \in Seq(S)
  PROVE  SubSeq(s, 1, 0) = <<>>
OBVIOUS

LEMMA AllSent ==
  ASSUME NEW S, NEW s \in Seq(S)
  PROVE  SubSeq(s, 1, Len(s)) = s
OBVIOUS

-----------------------------------------------------------------------------
(* What the client has received of an answer                                *)

\* One turn of Collected: what has been collected after n frames.
IsDelta(f, i) == f.q = i /\ f.kind = "delta"
Collects(upTo, frames, i) ==
  /\ upTo[0] = <<>>
  /\ \A n \in 1..Len(frames) :
       upTo[n] = IF IsDelta(frames[n], i) THEN Append(upTo[n - 1], frames[n].text) ELSE upTo[n - 1]

\* Collected goes through the frames.
LEMMA CollectedGoes ==
  ASSUME NEW T, NEW frames, Len(frames) \in Nat, NEW i,
         \A n \in 1..Len(frames) : frames[n].text \in T
  PROVE  \E upTo \in [0..Len(frames) -> Seq(T)] :
           Collects(upTo, frames, i) /\ Collected(frames, i) = upTo[Len(frames)]
<1>. DEFINE m == Len(frames)
            S == Seq(T)
            Go(n, s) == IF IsDelta(frames[n], i) THEN Append(s, frames[n].text) ELSE s
            step == [x \in (1..m) \X S |-> Go(x[1], x[2])]
            Rest(f, n) == IF n = 0 THEN <<>>
                          ELSE IF frames[n].q = i /\ frames[n].kind = "delta"
                               THEN Append(f[n - 1], frames[n].text)
                          ELSE f[n - 1]
            upTo == CHOOSE f : f = [n \in 0..m |-> Rest(f, n)]
<1>1. m \in Nat
  OBVIOUS
<1>2. ASSUME NEW n \in 1..m, NEW s \in S PROVE Go(n, s) \in S
  OBVIOUS
<1>3. <<>> \in S
  OBVIOUS
<1>. HIDE DEF m, S
<1>4. step \in [(1..m) \X S -> S] /\ \A n \in 1..m, s \in S : step[<<n, s>>] = Go(n, s)
  <2>. HIDE DEF Go
  <2>. QED BY <1>2
<1>. HIDE DEF step
<1>5. PICK f \in [0..m -> S] : Walks(f, m, <<>>, step)
  BY <1>1, <1>3, <1>4, StepByStep
<1>6. f[0] = <<>> /\ \A n \in 1..m : f[n] = step[<<n, f[n - 1]>>]
  BY <1>5 DEF Walks
<1>7. \A n \in 0..m : f[n] = Rest(f, n)
  <2>. SUFFICES ASSUME NEW n \in 0..m PROVE f[n] = Rest(f, n)
    OBVIOUS
  <2>1. CASE n = 0
    BY <1>6, <2>1
  <2>2. CASE n # 0
    <3>1. n \in 1..m /\ n - 1 \in 0..m
      BY <1>1, <2>2
    <3>2. f[n - 1] \in S
      BY <3>1
    <3>3. f[n] = Go(n, f[n - 1])
      BY <1>4, <1>6, <3>1, <3>2
    <3>. QED BY <2>2, <3>3 DEF IsDelta
  <2>. QED BY <2>1, <2>2
<1>8. f = [n \in 0..m |-> Rest(f, n)]
  BY <1>7
<1>9. upTo = [n \in 0..m |-> Rest(upTo, n)]
  <2>. HIDE DEF Rest
  <2>. QED BY <1>8
<1>10. Collected(frames, i) = upTo[m]
  BY DEF Collected, m
<1>. HIDE DEF upTo
<1>11. Collects(upTo, frames, i)
  <2>1. 0 \in 0..m /\ \A n \in 1..m : n \in 0..m /\ n # 0
    BY <1>1
  <2>2. upTo[0] = <<>>
    BY <1>9, <2>1
  <2>3. ASSUME NEW n \in 1..m
        PROVE  upTo[n] = IF IsDelta(frames[n], i) THEN Append(upTo[n - 1], frames[n].text)
                         ELSE upTo[n - 1]
    <3>1. upTo[n] = Rest(upTo, n)
      BY <1>9, <2>1
    <3>. QED BY <2>1, <3>1 DEF IsDelta
  <2>. QED BY <2>2, <2>3 DEF Collects, m
<1>12. \A n \in 0..m : upTo[n] \in S
  <2>. DEFINE Typed == {n \in 0..m : upTo[n] \in S}
  <2>1. 0 \in Typed
    BY <1>1, <1>3, <1>11 DEF Collects
  <2>2. ASSUME NEW n \in 1..m, n - 1 \in Typed PROVE n \in Typed
    <3>1. n \in 0..m /\ upTo[n - 1] \in S
      BY <1>1, <2>2
    <3>2. upTo[n] = Go(n, upTo[n - 1])
      BY <1>11 DEF Collects, m
    <3>3. upTo[n] \in S
      <4>. HIDE DEF Go
      <4>. QED BY <1>2, <3>1, <3>2
    <3>. QED BY <3>1, <3>3
  <2>. HIDE DEF Typed
  <2>3. \A n \in 0..m : n \in Typed
    BY <1>1, <2>1, <2>2, Climbing
  <2>. QED BY <2>3 DEF Typed
<1>13. upTo \in [0..m -> S]
  <2>. HIDE DEF Rest
  <2>. QED BY <1>9, <1>12
<1>. QED BY <1>10, <1>11, <1>13 DEF m, S

LEMMA CollectedNothing == ASSUME NEW i PROVE Collected(<<>>, i) = <<>>
<1>1. Len(<<>>) = 0 /\ \A n \in 1..Len(<<>>) : <<>>[n].text \in {}
  OBVIOUS
<1>2. PICK upTo \in [0..Len(<<>>) -> Seq({})] :
        Collects(upTo, <<>>, i) /\ Collected(<<>>, i) = upTo[Len(<<>>)]
  BY <1>1, CollectedGoes
<1>. QED BY <1>1, <1>2 DEF Collects

LEMMA FrameTypes ==
  ASSUME NEW f \in ShownFrames
  PROVE  f.q \in 0..NumQuestions /\ f.kind \in Kinds /\ f.text \in Spans
BY DEF ShownFrames

\* A frame more adds its text when it is a delta of the answer, else nothing.
LEMMA CollectedOneMore ==
  ASSUME NEW frames \in Seq(ShownFrames), NEW f \in ShownFrames, NEW i
  PROVE  Collected(Append(frames, f), i) = IF IsDelta(f, i) THEN Append(Collected(frames, i), f.text)
                                           ELSE Collected(frames, i)
<1>. DEFINE m == Len(frames)
            more == Append(frames, f)
            F == ShownFrames
            T == Spans
<1>a. \A x \in F : x.text \in T
  BY FrameTypes
<1>b. frames \in Seq(F) /\ f \in F
  OBVIOUS
<1>. HIDE DEF F, T
<1>0. m \in Nat
  BY <1>b
<1>1. m \in Nat /\ Len(more) = m + 1 /\ \A n \in 1..m : more[n] = frames[n]
  BY <1>b
<1>2. more[m + 1] = f /\ more \in Seq(F)
  BY <1>b
<1>3. /\ \A n \in 1..m : frames[n].text \in T
      /\ \A n \in 1..(m + 1) : more[n].text \in T
  <2>1. \A n \in 1..m : frames[n] \in F
    BY <1>b
  <2>2. \A n \in 1..Len(more) : more[n] \in F
    BY <1>2
  <2>. QED BY <1>1, <1>a, <2>1, <2>2
<1>. HIDE DEF m, more
<1>4. PICK a \in [0..m -> Seq(T)] : Collects(a, frames, i) /\ Collected(frames, i) = a[m]
  <2>1. Len(frames) \in Nat /\ \A n \in 1..Len(frames) : frames[n].text \in T
    BY <1>1, <1>3 DEF m
  <2>2. \E a \in [0..Len(frames) -> Seq(T)] : Collects(a, frames, i) /\ Collected(frames, i) = a[Len(frames)]
    BY <2>1, CollectedGoes
  <2>. QED BY <2>2 DEF m
<1>5. PICK b \in [0..(m + 1) -> Seq(T)] : Collects(b, more, i) /\ Collected(more, i) = b[m + 1]
  <2>1. Len(more) \in Nat /\ \A n \in 1..Len(more) : more[n].text \in T
    BY <1>1, <1>3
  <2>2. \E b \in [0..Len(more) -> Seq(T)] : Collects(b, more, i) /\ Collected(more, i) = b[Len(more)]
    BY <2>1, CollectedGoes
  <2>. QED BY <1>1, <2>2
<1>6. \A n \in 0..m : a[n] = b[n]
  <2>. DEFINE Same == {n \in 0..m : a[n] = b[n]}
  <2>1. 0 \in Same
    BY <1>1, <1>4, <1>5 DEF Collects
  <2>2. ASSUME NEW n \in 1..m, n - 1 \in Same PROVE n \in Same
    <3>1. n \in 0..m /\ n \in 1..(m + 1)
      BY <1>1
    <3>2. a[n] = IF IsDelta(frames[n], i) THEN Append(a[n - 1], frames[n].text) ELSE a[n - 1]
      BY <1>4 DEF Collects, m
    <3>3. b[n] = IF IsDelta(more[n], i) THEN Append(b[n - 1], more[n].text) ELSE b[n - 1]
      BY <1>1, <1>5, <3>1 DEF Collects
    <3>4. more[n] = frames[n]
      BY <1>1
    <3>5. a[n - 1] = b[n - 1]
      BY <2>2
    <3>6. a[n] = b[n]
      BY <3>2, <3>3, <3>4, <3>5
    <3>. QED BY <3>1, <3>6
  <2>. HIDE DEF Same
  <2>3. \A n \in 0..m : n \in Same
    BY <1>1, <2>1, <2>2, Climbing
  <2>. QED BY <2>3 DEF Same
<1>7. b[m + 1] = IF IsDelta(f, i) THEN Append(b[m], f.text) ELSE b[m]
  <2>1. m + 1 \in 1..(m + 1) /\ (m + 1) - 1 = m
    BY <1>0
  <2>2. b[m + 1] = IF IsDelta(more[m + 1], i) THEN Append(b[(m + 1) - 1], more[m + 1].text)
                   ELSE b[(m + 1) - 1]
    BY <1>1, <1>5, <2>1 DEF Collects
  <2>. QED BY <1>2, <2>1, <2>2
<1>8. a[m] = b[m]
  BY <1>1, <1>6
<1>. QED BY <1>4, <1>5, <1>7, <1>8 DEF more

-----------------------------------------------------------------------------
(* The inbox                                                                *)

LEMMA InputTypes ==
  ASSUME NEW f \in Inputs
  PROVE  /\ f.kind \in {"auth", "cancel", "other", "ask", "badask"}
         /\ IsAsk(f) => f \in Asks /\ f.q \in Questions
BY DEF Inputs, Plain, Asks, IsAsk

LEMMA Asked ==
  ASSUME NEW box \in Seq(Inputs)
  PROVE  /\ Len(box) \in Nat /\ DOMAIN box = 1..Len(box)
         /\ \A k \in 1..Len(box) : box[k] \in Inputs
         /\ \A k \in 1..Len(box) : IsAsk(box[k]) => box[k].q \in Int
<1>1. Len(box) \in Nat /\ DOMAIN box = 1..Len(box) /\ \A k \in 1..Len(box) : box[k] \in Inputs
  OBVIOUS
<1>2. ASSUME NEW k \in 1..Len(box), IsAsk(box[k]) PROVE box[k].q \in Int
  <2>1. box[k].q \in Questions
    BY <1>1, <1>2, InputTypes
  <2>. QED BY <2>1, SocketAssumption DEF Questions
<1>. QED BY <1>1, <1>2

LEMMA Shown ==
  ASSUME NEW frames \in Seq(ShownFrames)
  PROVE  /\ Len(frames) \in Nat /\ DOMAIN frames = 1..Len(frames)
         /\ \A k \in 1..Len(frames) : frames[k] \in ShownFrames
         /\ \A k \in 1..Len(frames) : frames[k].q \in Nat
<1>1. Len(frames) \in Nat /\ DOMAIN frames = 1..Len(frames) /\ \A k \in 1..Len(frames) : frames[k] \in ShownFrames
  OBVIOUS
<1>2. ASSUME NEW k \in 1..Len(frames) PROVE frames[k].q \in Nat
  <2>1. frames[k].q \in 0..NumQuestions
    BY <1>1, FrameTypes
  <2>. QED BY <2>1
<1>. QED BY <1>1, <1>2

\* A frame about a question up to the current one goes out.
LEMMA QueueShows ==
  ASSUME NEW box \in Seq(Inputs), NEW frames \in Seq(ShownFrames),
         NEW now \in Nat, NEW high \in Nat, NEW last \in Nat,
         Queue(box, frames, now, high, last),
         NEW f \in ShownFrames, f.q <= now
  PROVE  Queue(box, Append(frames, f), now, high, last)
<1>. DEFINE more == Append(frames, f)
<1>1. /\ DOMAIN more = 1..(Len(frames) + 1) /\ more[Len(frames) + 1] = f /\ Len(frames) \in Nat
      /\ \A k \in 1..Len(frames) : more[k] = frames[k]
      /\ DOMAIN frames = 1..Len(frames)
  BY AppendKeeps
<1>. HIDE DEF more
<1>2. f.q \in Nat
  BY FrameTypes
<1>3. AsksAreNew(box, more)
  <2>. SUFFICES ASSUME NEW k \in DOMAIN box, NEW j \in DOMAIN more, IsAsk(box[k])
                PROVE  more[j].q < box[k].q
    BY DEF AsksAreNew
  <2>1. now < box[k].q /\ box[k].q \in Int
    BY Asked DEF Queue, AsksBetween
  <2>2. CASE j = Len(frames) + 1
    <3>1. more[j].q = f.q
      BY <1>1, <2>2
    <3>. QED BY <1>2, <2>1, <3>1
  <2>3. CASE j # Len(frames) + 1
    <3>1. j \in 1..Len(frames)
      BY <1>1, <2>3
    <3>2. frames[j].q < box[k].q
      BY <1>1, <3>1 DEF Queue, AsksAreNew
    <3>. QED BY <1>1, <3>1, <3>2
  <2>. QED BY <2>2, <2>3
<1>4. ShownWereAsked(more, high)
  <2>. SUFFICES ASSUME NEW j \in DOMAIN more PROVE more[j].q <= high
    BY DEF ShownWereAsked
  <2>1. CASE j = Len(frames) + 1
    <3>1. more[j].q = f.q
      BY <1>1, <2>1
    <3>2. now <= high
      BY DEF Queue
    <3>. QED BY <1>2, <3>1, <3>2
  <2>2. CASE j # Len(frames) + 1
    <3>1. j \in 1..Len(frames)
      BY <1>1, <2>2
    <3>2. frames[j].q <= high
      BY <1>1, <3>1 DEF Queue, ShownWereAsked
    <3>. QED BY <1>1, <3>1, <3>2
  <2>. QED BY <2>1, <2>2
<1>5. Queue(box, more, now, high, last)
  BY <1>3, <1>4 DEF Queue
<1>. QED BY <1>5 DEF more

\* The first of the inbox is read.
LEMMA QueueReads ==
  ASSUME NEW box \in Seq(Inputs), NEW frames \in Seq(ShownFrames),
         NEW now \in Nat, NEW high \in Nat, NEW last \in Nat,
         Queue(box, frames, now, high, last), box # <<>>
  PROVE  Queue(Tail(box), frames, now, high, last)
<1>. DEFINE rest == Tail(box)
<1>1. /\ DOMAIN rest = 1..(Len(box) - 1) /\ DOMAIN box = 1..Len(box) /\ Len(box) \in Nat \ {0}
      /\ \A k \in 1..(Len(box) - 1) : rest[k] = box[k + 1] /\ k + 1 \in 1..Len(box)
  BY TailKeeps
<1>. HIDE DEF rest
<1>2. AsksInOrder(rest)
  <2>. SUFFICES ASSUME NEW j \in DOMAIN rest, NEW k \in DOMAIN rest, j < k, IsAsk(rest[j]), IsAsk(rest[k])
                PROVE  rest[j].q < rest[k].q
    BY DEF AsksInOrder
  <2>1. j + 1 \in DOMAIN box /\ k + 1 \in DOMAIN box /\ j + 1 < k + 1
    BY <1>1
  <2>2. rest[j] = box[j + 1] /\ rest[k] = box[k + 1]
    BY <1>1
  <2>. QED BY <2>1, <2>2 DEF Queue, AsksInOrder
<1>3. AsksBetween(rest, now, high)
  BY <1>1 DEF Queue, AsksBetween
<1>4. AsksAreNew(rest, frames)
  BY <1>1 DEF Queue, AsksAreNew
<1>5. CancelsReach(rest, now, last)
  <2>. SUFFICES ASSUME NEW k \in DOMAIN rest, rest[k].kind = "cancel"
                PROVE  now <= last /\ \A j \in 1..(k - 1) : IsAsk(rest[j]) => rest[j].q <= last
    BY DEF CancelsReach
  <2>1. k + 1 \in DOMAIN box /\ box[k + 1].kind = "cancel"
    BY <1>1
  <2>2. now <= last /\ \A j \in 1..((k + 1) - 1) : IsAsk(box[j]) => box[j].q <= last
    BY <2>1 DEF Queue, CancelsReach
  <2>3. ASSUME NEW j \in 1..(k - 1), IsAsk(rest[j]) PROVE rest[j].q <= last
    <3>1. j + 1 \in 1..((k + 1) - 1) /\ j \in 1..(Len(box) - 1)
      BY <1>1
    <3>2. rest[j] = box[j + 1]
      BY <1>1, <3>1
    <3>. QED BY <2>2, <2>3, <3>1, <3>2
  <2>. QED BY <2>2, <2>3
<1>6. Queue(rest, frames, now, high, last)
  BY <1>2, <1>3, <1>4, <1>5 DEF Queue
<1>. QED BY <1>6 DEF rest

\* What the first question of the inbox has behind it.
LEMMA QueueAhead ==
  ASSUME NEW box \in Seq(Inputs), NEW frames \in Seq(ShownFrames),
         NEW now \in Nat, NEW high \in Nat, NEW last \in Nat,
         Queue(box, frames, now, high, last), box # <<>>, IsAsk(Head(box))
  PROVE  /\ Head(box).q \in Questions /\ now < Head(box).q /\ Head(box).q <= high
         /\ Unseen(frames, Head(box).q)
         /\ \A k \in DOMAIN Tail(box) : IsAsk(Tail(box)[k]) => Head(box).q < Tail(box)[k].q
         /\ (\E k \in DOMAIN Tail(box) : Tail(box)[k].kind = "cancel") => Head(box).q <= last
<1>. DEFINE rest == Tail(box)
            i == Head(box).q
<1>1. /\ DOMAIN rest = 1..(Len(box) - 1) /\ DOMAIN box = 1..Len(box) /\ Len(box) \in Nat \ {0}
      /\ \A k \in 1..(Len(box) - 1) : rest[k] = box[k + 1] /\ k + 1 \in 1..Len(box)
      /\ Head(box) = box[1] /\ 1 \in 1..Len(box) /\ Head(box) \in Inputs
  BY TailKeeps
<1>2. i \in Questions
  BY <1>1, InputTypes
<1>. HIDE DEF rest
<1>3. IsAsk(box[1]) /\ i = box[1].q
  BY <1>1
<1>. HIDE DEF i
<1>4. now < i /\ i <= high
  BY <1>1, <1>3 DEF Queue, AsksBetween
<1>5. Unseen(frames, i)
  <2>. SUFFICES ASSUME NEW a \in DOMAIN frames, frames[a].q = i PROVE FALSE
    BY DEF Unseen
  <2>1. frames[a].q < i
    BY <1>1, <1>3 DEF Queue, AsksAreNew
  <2>2. i \in Int
    BY <1>2, SocketAssumption DEF Questions
  <2>. QED BY <2>1, <2>2
<1>6. ASSUME NEW k \in DOMAIN rest, IsAsk(rest[k]) PROVE i < rest[k].q
  <2>1. k + 1 \in DOMAIN box /\ 1 < k + 1 /\ rest[k] = box[k + 1] /\ 1 \in DOMAIN box
    BY <1>1
  <2>. QED BY <1>3, <1>6, <2>1 DEF Queue, AsksInOrder
<1>7. ASSUME NEW k \in DOMAIN rest, rest[k].kind = "cancel" PROVE i <= last
  <2>1. k + 1 \in DOMAIN box /\ rest[k] = box[k + 1] /\ 1 \in 1..((k + 1) - 1)
    BY <1>1
  <2>. QED BY <1>3, <1>7, <2>1 DEF Queue, CancelsReach
<1>. QED BY <1>2, <1>4, <1>5, <1>6, <1>7 DEF rest, i

\* It is read, and refused.
LEMMA QueueRefuses ==
  ASSUME NEW box \in Seq(Inputs), NEW frames \in Seq(ShownFrames),
         NEW now \in Nat, NEW high \in Nat, NEW last \in Nat,
         Queue(box, frames, now, high, last), box # <<>>, IsAsk(Head(box)),
         NEW f \in ShownFrames, f.q = Head(box).q
  PROVE  Queue(Tail(box), Append(frames, f), now, high, last)
<1>. DEFINE more == Append(frames, f)
            rest == Tail(box)
            i == Head(box).q
<1>1. /\ DOMAIN more = 1..(Len(frames) + 1) /\ more[Len(frames) + 1] = f /\ Len(frames) \in Nat
      /\ \A k \in 1..Len(frames) : more[k] = frames[k]
      /\ DOMAIN frames = 1..Len(frames)
  BY AppendKeeps
<1>2. Queue(rest, frames, now, high, last)
  BY QueueReads
<1>3. i <= high /\ \A k \in DOMAIN rest : IsAsk(rest[k]) => i < rest[k].q
  BY QueueAhead
<1>. HIDE DEF more, rest, i
<1>4. AsksAreNew(rest, more)
  <2>. SUFFICES ASSUME NEW k \in DOMAIN rest, NEW j \in DOMAIN more, IsAsk(rest[k])
                PROVE  more[j].q < rest[k].q
    BY DEF AsksAreNew
  <2>1. CASE j = Len(frames) + 1
    <3>1. more[j].q = i
      BY <1>1, <2>1 DEF i
    <3>. QED BY <1>3, <3>1
  <2>2. CASE j # Len(frames) + 1
    <3>1. j \in 1..Len(frames)
      BY <1>1, <2>2
    <3>2. frames[j].q < rest[k].q
      BY <1>1, <1>2, <3>1 DEF Queue, AsksAreNew
    <3>. QED BY <1>1, <3>1, <3>2
  <2>. QED BY <2>1, <2>2
<1>5. ShownWereAsked(more, high)
  <2>. SUFFICES ASSUME NEW j \in DOMAIN more PROVE more[j].q <= high
    BY DEF ShownWereAsked
  <2>1. CASE j = Len(frames) + 1
    <3>1. more[j].q = i
      BY <1>1, <2>1 DEF i
    <3>. QED BY <1>3, <3>1
  <2>2. CASE j # Len(frames) + 1
    <3>1. j \in 1..Len(frames)
      BY <1>1, <2>2
    <3>2. frames[j].q <= high
      BY <1>1, <1>2, <3>1 DEF Queue, ShownWereAsked
    <3>. QED BY <1>1, <3>1, <3>2
  <2>. QED BY <2>1, <2>2
<1>6. Queue(rest, more, now, high, last)
  BY <1>2, <1>4, <1>5 DEF Queue
<1>. QED BY <1>6 DEF more, rest

\* It is read, and its answer starts.
LEMMA QueueStarts ==
  ASSUME NEW box \in Seq(Inputs), NEW frames \in Seq(ShownFrames),
         NEW now \in Nat, NEW high \in Nat, NEW last \in Nat,
         Queue(box, frames, now, high, last), box # <<>>, IsAsk(Head(box))
  PROVE  Queue(Tail(box), frames, Head(box).q, high, last)
<1>. DEFINE rest == Tail(box)
            i == Head(box).q
<1>1. Queue(rest, frames, now, high, last)
  BY QueueReads
<1>2. /\ i <= high /\ \A k \in DOMAIN rest : IsAsk(rest[k]) => i < rest[k].q
      /\ (\E k \in DOMAIN rest : rest[k].kind = "cancel") => i <= last
  BY QueueAhead
<1>. HIDE DEF rest, i
<1>3. AsksBetween(rest, i, high)
  BY <1>1, <1>2 DEF Queue, AsksBetween
<1>4. CancelsReach(rest, i, last)
  BY <1>1, <1>2 DEF Queue, CancelsReach
<1>5. Queue(rest, frames, i, high, last)
  BY <1>1, <1>2, <1>3, <1>4 DEF Queue
<1>. QED BY <1>5 DEF rest, i

\* The client sends something: a question, a cancel or neither.
LEMMA QueueGrows ==
  ASSUME NEW box \in Seq(Inputs), NEW frames \in Seq(ShownFrames),
         NEW now \in Nat, NEW high \in Nat, NEW last \in Nat,
         Queue(box, frames, now, high, last),
         NEW x \in Inputs, NEW high2 \in Nat, NEW last2 \in Nat,
         high <= high2, last <= last2, last2 <= high2,
         IsAsk(x) => high < x.q /\ x.q <= high2,
         x.kind = "cancel" => last2 = high
  PROVE  Queue(Append(box, x), frames, now, high2, last2)
<1>. DEFINE more == Append(box, x)
            n == Len(box) + 1
<1>1. /\ DOMAIN more = 1..n /\ more[n] = x /\ Len(box) \in Nat
      /\ \A k \in 1..Len(box) : more[k] = box[k]
      /\ DOMAIN box = 1..Len(box)
  BY AppendKeeps
<1>2. \A k \in 1..n : k = n \/ k \in 1..Len(box)
  BY <1>1
<1>. HIDE DEF more
<1>3. IsAsk(x) => x.q \in Int
  BY InputTypes, SocketAssumption DEF Questions
<1>4. now <= high /\ last <= high
  BY DEF Queue
<1>5. ASSUME NEW k \in 1..Len(box), IsAsk(box[k])
      PROVE  box[k].q \in Int /\ now < box[k].q /\ box[k].q <= high
  BY <1>1, <1>5, Asked DEF Queue, AsksBetween
<1>6. AsksInOrder(more)
  <2>. SUFFICES ASSUME NEW j \in DOMAIN more, NEW k \in DOMAIN more, j < k, IsAsk(more[j]), IsAsk(more[k])
                PROVE  more[j].q < more[k].q
    BY DEF AsksInOrder
  <2>1. j \in 1..Len(box) /\ more[j] = box[j]
    BY <1>1
  <2>2. CASE k = n
    <3>1. more[k] = x
      BY <1>1, <2>2
    <3>2. IsAsk(x) /\ high < x.q /\ x.q \in Int
      BY <1>3, <3>1
    <3>3. box[j].q \in Int /\ box[j].q <= high
      BY <1>5, <2>1
    <3>4. box[j].q < x.q
      BY <3>2, <3>3
    <3>. QED BY <2>1, <3>1, <3>4
  <2>3. CASE k # n
    <3>1. k \in 1..Len(box)
      BY <1>1, <1>2, <2>3
    <3>. QED BY <1>1, <2>1, <3>1 DEF Queue, AsksInOrder
  <2>. QED BY <2>2, <2>3
<1>7. AsksBetween(more, now, high2)
  <2>. SUFFICES ASSUME NEW k \in DOMAIN more, IsAsk(more[k])
                PROVE  now < more[k].q /\ more[k].q <= high2
    BY DEF AsksBetween
  <2>1. CASE k = n
    <3>1. more[k] = x
      BY <1>1, <2>1
    <3>2. high < x.q /\ x.q <= high2 /\ x.q \in Int
      BY <1>3, <3>1
    <3>3. now < x.q
      BY <1>4, <3>2
    <3>. QED BY <3>1, <3>2, <3>3
  <2>2. CASE k # n
    <3>1. k \in 1..Len(box) /\ more[k] = box[k]
      BY <1>1, <1>2, <2>2
    <3>2. box[k].q \in Int /\ now < box[k].q /\ box[k].q <= high
      BY <1>5, <3>1
    <3>3. box[k].q <= high2
      BY <3>2
    <3>. QED BY <3>1, <3>2, <3>3
  <2>. QED BY <2>1, <2>2
<1>8. AsksAreNew(more, frames)
  <2>. SUFFICES ASSUME NEW k \in DOMAIN more, NEW j \in DOMAIN frames, IsAsk(more[k])
                PROVE  frames[j].q < more[k].q
    BY DEF AsksAreNew
  <2>1. CASE k = n
    <3>1. more[k] = x
      BY <1>1, <2>1
    <3>2. high < x.q /\ x.q \in Int
      BY <1>3, <3>1
    <3>3. frames[j].q <= high /\ frames[j].q \in Nat
      BY Shown DEF Queue, ShownWereAsked
    <3>4. frames[j].q < x.q
      BY <3>2, <3>3
    <3>. QED BY <3>1, <3>4
  <2>2. CASE k # n
    <3>1. k \in 1..Len(box) /\ more[k] = box[k]
      BY <1>1, <1>2, <2>2
    <3>. QED BY <1>1, <3>1 DEF Queue, AsksAreNew
  <2>. QED BY <2>1, <2>2
<1>9. CancelsReach(more, now, last2)
  <2>. SUFFICES ASSUME NEW k \in DOMAIN more, more[k].kind = "cancel"
                PROVE  now <= last2 /\ \A j \in 1..(k - 1) : IsAsk(more[j]) => more[j].q <= last2
    BY DEF CancelsReach
  <2>1. \A j \in 1..(k - 1) : j \in 1..Len(box) /\ more[j] = box[j]
    BY <1>1
  <2>2. CASE k = n
    <3>1. more[k] = x
      BY <1>1, <2>2
    <3>2. last2 = high
      BY <3>1
    <3>. QED BY <1>4, <1>5, <2>1, <3>2
  <2>3. CASE k # n
    <3>1. k \in 1..Len(box) /\ more[k] = box[k]
      BY <1>1, <1>2, <2>3
    <3>2. now <= last /\ \A j \in 1..(k - 1) : IsAsk(box[j]) => box[j].q <= last
      BY <1>1, <3>1 DEF Queue, CancelsReach
    <3>3. now <= last2
      BY <3>2
    <3>4. ASSUME NEW j \in 1..(k - 1), IsAsk(more[j]) PROVE more[j].q <= last2
      <4>1. IsAsk(box[j]) /\ more[j] = box[j] /\ j \in 1..Len(box)
        BY <2>1, <3>4
      <4>2. box[j].q <= last /\ box[j].q \in Int
        BY <1>5, <3>2, <4>1
      <4>. QED BY <4>1, <4>2
    <3>. QED BY <3>3, <3>4
  <2>. QED BY <2>2, <2>3
<1>10. ShownWereAsked(frames, high2)
  <2>. SUFFICES ASSUME NEW j \in DOMAIN frames PROVE frames[j].q <= high2
    BY DEF ShownWereAsked
  <2>1. frames[j].q <= high /\ frames[j].q \in Nat
    BY Shown DEF Queue, ShownWereAsked
  <2>. QED BY <2>1
<1>11. now <= high2
  BY <1>4
<1>12. Queue(more, frames, now, high2, last2)
  BY <1>6, <1>7, <1>8, <1>9, <1>10, <1>11 DEF Queue
<1>. QED BY <1>12 DEF more

-----------------------------------------------------------------------------
(* What one more frame does to the frames the client has                    *)

\* It is the last of its question, and leaves the last of the others.
LEMMA LastMoves ==
  ASSUME NEW frames \in Seq(ShownFrames), NEW f \in ShownFrames, NEW i
  PROVE  /\ \A kinds : f.q = i /\ f.kind \in kinds => LastIs(Append(frames, f), i, kinds)
         /\ \A kinds : f.q # i /\ LastIs(frames, i, kinds) => LastIs(Append(frames, f), i, kinds)
         /\ f.q # i /\ Unseen(frames, i) => Unseen(Append(frames, f), i)
         /\ f.q # i /\ NotOver(frames, i) => NotOver(Append(frames, f), i)
         /\ f.kind \notin {"done", "cancelled"} /\ NotOver(frames, i) => NotOver(Append(frames, f), i)
         /\ NotOver(Append(frames, f), i) => NotOver(frames, i)
         /\ f.q # i /\ NotDone(frames, i) => NotDone(Append(frames, f), i)
         /\ f.kind # "done" /\ NotDone(frames, i) => NotDone(Append(frames, f), i)
<1>. DEFINE more == Append(frames, f)
            n == Len(frames) + 1
<1>1. /\ DOMAIN more = 1..n /\ more[n] = f /\ Len(frames) \in Nat /\ Len(more) = n
      /\ \A k \in 1..Len(frames) : more[k] = frames[k]
      /\ DOMAIN frames = 1..Len(frames)
  BY AppendKeeps
<1>2. /\ \A k \in 1..n : k = n \/ k \in 1..Len(frames)
      /\ \A k \in 1..Len(frames) : k \in 1..n
      /\ n \in 1..n /\ \A k : k \notin (n + 1)..n
  BY <1>1
<1>. HIDE DEF more
<1>3. ASSUME NEW kinds, f.q = i, f.kind \in kinds PROVE LastIs(more, i, kinds)
  BY <1>1, <1>2, <1>3 DEF LastIs
<1>4. ASSUME NEW kinds, f.q # i, LastIs(frames, i, kinds) PROVE LastIs(more, i, kinds)
  <2>1. PICK a \in DOMAIN frames : /\ frames[a].q = i /\ frames[a].kind \in kinds
                                   /\ \A c \in (a + 1)..Len(frames) : frames[c].q # i
    BY <1>4 DEF LastIs
  <2>2. a \in DOMAIN more /\ more[a] = frames[a]
    BY <1>1, <1>2
  <2>3. ASSUME NEW c \in (a + 1)..n PROVE more[c].q # i
    <3>1. c = n \/ (c \in (a + 1)..Len(frames) /\ c \in 1..Len(frames))
      BY <1>1
    <3>. QED BY <1>1, <1>4, <2>1, <3>1
  <2>. QED BY <1>1, <2>1, <2>2, <2>3 DEF LastIs
<1>. HIDE DEF n
<1>5. f.q # i /\ Unseen(frames, i) => Unseen(more, i)
  BY <1>1, <1>2 DEF Unseen
<1>6. f.q # i /\ NotOver(frames, i) => NotOver(more, i)
  BY <1>1, <1>2 DEF NotOver
<1>7. f.kind \notin {"done", "cancelled"} /\ NotOver(frames, i) => NotOver(more, i)
  BY <1>1, <1>2 DEF NotOver
<1>8. NotOver(more, i) => NotOver(frames, i)
  BY <1>1, <1>2 DEF NotOver
<1>9. f.q # i /\ NotDone(frames, i) => NotDone(more, i)
  BY <1>1, <1>2 DEF NotDone
<1>10. f.kind # "done" /\ NotDone(frames, i) => NotDone(more, i)
  BY <1>1, <1>2 DEF NotDone
<1>. QED BY <1>3, <1>4, <1>5, <1>6, <1>7, <1>8, <1>9, <1>10 DEF more

\* It ends its question, accepts it, or does neither.
LEMMA EndedMoves ==
  ASSUME NEW frames \in Seq(ShownFrames), NEW f \in ShownFrames, NEW S
  PROVE  /\ f.kind # "accepted" /\ AllEndedBut(frames, S) => AllEndedBut(Append(frames, f), S)
         /\ f.q \in S /\ AllEndedBut(frames, S) => AllEndedBut(Append(frames, f), S)
         /\ f.kind \in Ended /\ AllEndedBut(frames, {f.q}) => AllEndedBut(Append(frames, f), {})
<1>. DEFINE more == Append(frames, f)
            n == Len(frames) + 1
<1>1. /\ DOMAIN more = 1..n /\ more[n] = f /\ Len(frames) \in Nat /\ Len(more) = n
      /\ \A k \in 1..Len(frames) : more[k] = frames[k]
      /\ DOMAIN frames = 1..Len(frames)
  BY AppendKeeps
<1>. HIDE DEF more
<1>2. ASSUME NEW a \in 1..Len(frames),
             \E c \in (a + 1)..Len(frames) : frames[c].q = frames[a].q /\ frames[c].kind \in Ended
      PROVE  \E c \in (a + 1)..Len(more) : more[c].q = more[a].q /\ more[c].kind \in Ended
  <2>1. PICK c \in (a + 1)..Len(frames) : frames[c].q = frames[a].q /\ frames[c].kind \in Ended
    BY <1>2
  <2>2. c \in (a + 1)..n /\ c \in 1..Len(frames)
    BY <1>1
  <2>. QED BY <1>1, <2>1, <2>2
<1>3. ASSUME AllEndedBut(frames, S), f.kind # "accepted" \/ f.q \in S
      PROVE  AllEndedBut(more, S)
  <2>. SUFFICES ASSUME NEW a \in DOMAIN more, more[a].kind = "accepted", more[a].q \notin S
                PROVE  \E c \in (a + 1)..Len(more) : more[c].q = more[a].q /\ more[c].kind \in Ended
    BY DEF AllEndedBut
  <2>1. a # n
    BY <1>1, <1>3
  <2>2. a \in 1..Len(frames)
    BY <1>1, <2>1
  <2>3. \E c \in (a + 1)..Len(frames) : frames[c].q = frames[a].q /\ frames[c].kind \in Ended
    BY <1>1, <1>3, <2>2 DEF AllEndedBut
  <2>. QED BY <1>2, <2>2, <2>3
<1>4. ASSUME f.kind \in Ended, AllEndedBut(frames, {f.q}) PROVE AllEndedBut(more, {})
  <2>. SUFFICES ASSUME NEW a \in DOMAIN more, more[a].kind = "accepted"
                PROVE  \E c \in (a + 1)..Len(more) : more[c].q = more[a].q /\ more[c].kind \in Ended
    BY DEF AllEndedBut
  <2>1. a # n
    BY <1>1, <1>4 DEF Ended
  <2>2. a \in 1..Len(frames) /\ n \in (a + 1)..n
    BY <1>1, <2>1
  <2>3. CASE frames[a].q = f.q
    <3>1. more[n].q = more[a].q /\ more[n].kind \in Ended
      BY <1>1, <1>4, <2>2, <2>3
    <3>. QED BY <1>1, <2>2, <3>1
  <2>4. CASE frames[a].q # f.q
    <3>1. \E c \in (a + 1)..Len(frames) : frames[c].q = frames[a].q /\ frames[c].kind \in Ended
      BY <1>1, <1>4, <2>2, <2>4 DEF AllEndedBut
    <3>. QED BY <1>2, <2>2, <3>1
  <2>. QED BY <2>3, <2>4
<1>. QED BY <1>3, <1>4 DEF more

\* When a frame may come next: about no question; a refusal of one the client
\* has heard nothing of; or one of the question being answered.
MayCome(frames, f) ==
  \/ f.q = 0
  \/ f.kind = "busy" /\ Unseen(frames, f.q)
  \/ /\ AllEndedBut(frames, {f.q})
     /\ \/ f.kind \in {"error", "accepted"} /\ Unseen(frames, f.q)
        \/ \E kinds : LastIs(frames, f.q, kinds) /\ \A kind \in kinds : f.kind \in MayFollow(kind)

LEMMA ProtocolGoesOn ==
  ASSUME NEW frames \in Seq(ShownFrames), NEW f \in ShownFrames,
         FollowsProtocol(frames), MayCome(frames, f)
  PROVE  FollowsProtocol(Append(frames, f))
<1>. DEFINE more == Append(frames, f)
            n == Len(frames) + 1
            i == f.q
<1>1. /\ DOMAIN more = 1..n /\ more[n] = f /\ Len(frames) \in Nat /\ Len(more) = n
      /\ \A k \in 1..Len(frames) : more[k] = frames[k]
      /\ DOMAIN frames = 1..Len(frames)
  BY AppendKeeps
<1>. HIDE DEF more
<1>2. ASSUME NEW b \in 1..Len(frames), more[b].q # 0
      PROVE  /\ (\A c \in (0 + 1)..(b - 1) : more[c].q # more[b].q)
                   => more[b].kind \in {"busy", "error", "accepted"}
             /\ \A a \in 1..(b - 1) :
                  more[a].q = more[b].q /\ (\A c \in (a + 1)..(b - 1) : more[c].q # more[b].q)
                    => more[b].kind \in MayFollow(more[a].kind)
  <2>1. b \in DOMAIN frames /\ more[b] = frames[b] /\ frames[b].q # 0
    BY <1>1, <1>2
  <2>2. \A c \in 1..(b - 1) : more[c] = frames[c]
    BY <1>1
  <2>3. \A a \in 1..(b - 1) : \A c \in (a + 1)..(b - 1) : c \in 1..(b - 1)
    OBVIOUS
  <2>4. /\ (\A c \in (0 + 1)..(b - 1) : frames[c].q # frames[b].q)
             => frames[b].kind \in {"busy", "error", "accepted"}
        /\ \A a \in 1..(b - 1) :
             frames[a].q = frames[b].q /\ (\A c \in (a + 1)..(b - 1) : frames[c].q # frames[b].q)
               => frames[b].kind \in MayFollow(frames[a].kind)
    BY <2>1 DEF FollowsProtocol
  <2>5. (\A c \in (0 + 1)..(b - 1) : more[c].q # more[b].q)
          => more[b].kind \in {"busy", "error", "accepted"}
    BY <2>1, <2>2, <2>4
  <2>6. ASSUME NEW a \in 1..(b - 1), more[a].q = more[b].q,
               \A c \in (a + 1)..(b - 1) : more[c].q # more[b].q
        PROVE  more[b].kind \in MayFollow(more[a].kind)
    <3>1. frames[a].q = frames[b].q /\ more[a] = frames[a]
      BY <2>1, <2>2, <2>6
    <3>2. \A c \in (a + 1)..(b - 1) : frames[c].q # frames[b].q
      BY <2>1, <2>2, <2>3, <2>6
    <3>3. frames[b].kind \in MayFollow(frames[a].kind)
      BY <2>4, <3>1, <3>2
    <3>. QED BY <2>1, <3>1, <3>3
  <2>. QED BY <2>5, <2>6
<1>3. ASSUME i # 0, \A c \in (0 + 1)..(n - 1) : more[c].q # i
      PROVE  f.kind \in {"busy", "error", "accepted"}
  <2>1. \A c \in 1..Len(frames) : frames[c].q # i
    BY <1>1, <1>3
  <2>2. ~ LastIs(frames, i, {}) /\ \A kinds : ~ LastIs(frames, i, kinds)
    BY <1>1, <2>1 DEF LastIs
  <2>. QED BY <1>3, <2>2 DEF MayCome
<1>4. ASSUME i # 0, NEW a \in 1..(n - 1), more[a].q = i,
             \A c \in (a + 1)..(n - 1) : more[c].q # i
      PROVE  f.kind \in MayFollow(more[a].kind)
  <2>1. a \in 1..Len(frames) /\ more[a] = frames[a] /\ frames[a].q = i
    BY <1>1, <1>4
  <2>2. ~ Unseen(frames, i)
    BY <1>1, <2>1 DEF Unseen
  <2>3. PICK kinds : LastIs(frames, i, kinds) /\ \A kind \in kinds : f.kind \in MayFollow(kind)
    BY <1>4, <2>2 DEF MayCome
  <2>4. PICK d \in DOMAIN frames : /\ frames[d].q = i /\ frames[d].kind \in kinds
                                   /\ \A c \in (d + 1)..Len(frames) : frames[c].q # i
    BY <2>3 DEF LastIs
  <2>5. d = a
    <3>1. ~ (a < d)
      <4>1. a < d => d \in (a + 1)..(n - 1) /\ more[d] = frames[d]
        BY <1>1
      <4>. QED BY <1>4, <2>4, <4>1
    <3>2. ~ (d < a)
      <4>1. d < a => a \in (d + 1)..Len(frames)
        BY <1>1, <2>1
      <4>. QED BY <2>1, <2>4, <4>1
    <3>3. d \in Nat /\ a \in Nat
      BY <1>1
    <3>. QED BY <3>1, <3>2, <3>3
  <2>. QED BY <2>1, <2>3, <2>4, <2>5
<1>5. ASSUME NEW b \in 1..n, more[b].q # 0
      PROVE  /\ (\A c \in (0 + 1)..(b - 1) : more[c].q # more[b].q)
                   => more[b].kind \in {"busy", "error", "accepted"}
             /\ \A a \in 1..(b - 1) :
                  more[a].q = more[b].q /\ (\A c \in (a + 1)..(b - 1) : more[c].q # more[b].q)
                    => more[b].kind \in MayFollow(more[a].kind)
  <2>1. CASE b \in 1..Len(frames)
    BY <1>2, <1>5, <2>1
  <2>2. CASE b = n
    <3>. HIDE DEF n
    <3>1. more[b] = f /\ more[b].q = i
      BY <1>1, <2>2
    <3>2. i # 0
      BY <1>5, <3>1
    <3>. HIDE DEF i
    <3>. QED BY <1>3, <1>4, <2>2, <3>1, <3>2
  <2>. QED BY <1>1, <2>1, <2>2
<1>6. FollowsProtocol(more)
  <2>. HIDE DEF n
  <2>. QED BY <1>1, <1>5 DEF FollowsProtocol
<1>. QED BY <1>6 DEF more

LEMMA OneAtATimeGoesOn ==
  ASSUME NEW frames \in Seq(ShownFrames), NEW f \in ShownFrames,
         OneAtATime(frames), MayCome(frames, f)
  PROVE  OneAtATime(Append(frames, f))
<1>. DEFINE more == Append(frames, f)
            n == Len(frames) + 1
<1>1. /\ DOMAIN more = 1..n /\ more[n] = f /\ Len(frames) \in Nat /\ Len(more) = n
      /\ \A k \in 1..Len(frames) : more[k] = frames[k]
      /\ DOMAIN frames = 1..Len(frames)
  BY AppendKeeps
<1>. HIDE DEF more
<1>. SUFFICES ASSUME NEW a \in 1..n, NEW b \in 1..n, a < b, more[a].kind = "accepted",
                     more[b].q # 0, more[b].q # more[a].q, more[b].kind # "busy"
              PROVE  \E c \in (a + 1)..(b - 1) : more[c].q = more[a].q /\ more[c].kind \in Ended
  BY <1>1 DEF OneAtATime, more
<1>2. a \in 1..Len(frames) /\ more[a] = frames[a]
  BY <1>1
<1>3. \A c \in (a + 1)..(b - 1) : c \in 1..Len(frames) /\ more[c] = frames[c]
  BY <1>1
<1>4. \E c \in (a + 1)..(b - 1) : frames[c].q = frames[a].q /\ frames[c].kind \in Ended
  <2>1. CASE b = n
    <3>1. more[b] = f
      BY <1>1, <2>1
    <3>2. AllEndedBut(frames, {f.q})
      BY <3>1 DEF MayCome
    <3>3. frames[a].kind = "accepted" /\ frames[a].q \notin {f.q} /\ a \in DOMAIN frames
      BY <1>1, <1>2, <3>1
    <3>4. \E c \in (a + 1)..Len(frames) : frames[c].q = frames[a].q /\ frames[c].kind \in Ended
      BY <3>2, <3>3 DEF AllEndedBut
    <3>5. b - 1 = Len(frames)
      BY <1>1, <2>1
    <3>. QED BY <3>4, <3>5
  <2>2. CASE b # n
    <3>1. b \in DOMAIN frames /\ a \in DOMAIN frames /\ more[b] = frames[b]
      BY <1>1, <1>2, <2>2
    <3>. QED BY <1>2, <3>1 DEF OneAtATime
  <2>. QED BY <2>1, <2>2
<1>. QED BY <1>2, <1>3, <1>4

\* A frame that may come, and cancels no later question, leaves all in order.
LEMMA OrderGoesOn ==
  ASSUME NEW frames \in Seq(ShownFrames), NEW last, Orderly(frames, last),
         NEW f \in ShownFrames, MayCome(frames, f),
         f.kind \in {"done", "cancelled"} => f.q \in Questions,
         f.kind = "cancelled" => last >= f.q
  PROVE  Orderly(Append(frames, f), last)
<1>. DEFINE more == Append(frames, f)
            n == Len(frames) + 1
<1>1. /\ DOMAIN more = 1..n /\ more[n] = f /\ Len(frames) \in Nat
      /\ \A k \in 1..Len(frames) : more[k] = frames[k]
      /\ DOMAIN frames = 1..Len(frames)
      /\ \A k \in 1..n : k = n \/ k \in 1..Len(frames)
  BY AppendKeeps
<1>2. FollowsProtocol(more) /\ OneAtATime(more)
  BY ProtocolGoesOn, OneAtATimeGoesOn DEF Orderly
<1>. HIDE DEF more, n
<1>3. EndsNameQuestions(more)
  BY <1>1 DEF Orderly, EndsNameQuestions
<1>4. CancelledBy(more, last)
  BY <1>1 DEF Orderly, CancelledBy
<1>5. Orderly(more, last)
  BY <1>2, <1>3, <1>4 DEF Orderly
<1>. QED BY <1>5 DEF more

\* A later cancel takes nothing back.
LEMMA OrderOutlivesCancels ==
  ASSUME NEW frames \in Seq(ShownFrames), NEW last \in Nat, NEW last2 \in Nat, last <= last2,
         Orderly(frames, last)
  PROVE  Orderly(frames, last2)
<1>1. CancelledBy(frames, last2)
  <2>. SUFFICES ASSUME NEW k \in DOMAIN frames, frames[k].kind = "cancelled"
                PROVE  last2 >= frames[k].q
    BY DEF CancelledBy
  <2>1. last >= frames[k].q /\ frames[k].q \in Nat
    BY Shown DEF Orderly, CancelledBy
  <2>. QED BY <2>1
<1>. QED BY <1>1 DEF Orderly

-----------------------------------------------------------------------------
(* Types                                                                    *)

LEMMA AnswerTypes ==
  ASSUME Types, NEW i \in Questions
  PROVE  /\ IsText(answer[i])
         /\ Split(answer[i]) \in Seq(Nat \X Nat) /\ Len(Split(answer[i])) \in Nat
<1>2. IsText(answer[i])
  BY DEF Types
<1>3. Split(answer[i]) \in Seq(Nat \X Nat)
  BY <1>2, SplitIsSpans
<1>. QED BY <1>2, <1>3

LEMMA FramesAreFrames ==
  ASSUME NEW i \in 0..NumQuestions
  PROVE  /\ \A kind \in Kinds : /\ Frame(i, kind) \in ShownFrames
                                /\ Frame(i, kind).q = i /\ Frame(i, kind).kind = kind
         /\ \A text \in Nat \X Nat : /\ Delta(i, text) \in ShownFrames
                                     /\ Delta(i, text).q = i /\ Delta(i, text).kind = "delta"
                                     /\ Delta(i, text).text = text
<1>1. ASSUME NEW kind \in Kinds
      PROVE  Frame(i, kind) \in ShownFrames /\ Frame(i, kind).q = i /\ Frame(i, kind).kind = kind
  BY DEF Frame, ShownFrames, Spans
<1>2. ASSUME NEW text \in Nat \X Nat
      PROVE  /\ Delta(i, text) \in ShownFrames
             /\ Delta(i, text).q = i /\ Delta(i, text).kind = "delta" /\ Delta(i, text).text = text
  BY DEF Delta, ShownFrames, Spans, Kinds
<1>. QED BY <1>1, <1>2

\* What a send does: a frame more for a client that is there.
Says(f) == shown' = IF here THEN Append(shown, f) ELSE shown

LEMMA SendsOne ==
  ASSUME Types, NEW f \in ShownFrames, Send(<<f>>)
  PROVE  Says(f) /\ shown' \in Seq(ShownFrames)
<1>1. shown \o <<f>> = Append(shown, f) /\ Append(shown, f) \in Seq(ShownFrames) /\ shown \in Seq(ShownFrames)
  BY DEF Types
<1>. QED BY <1>1 DEF Send, Says

LEMMA SendsNone ==
  ASSUME Types, Send(<<>>)
  PROVE  shown' = shown
<1>1. shown \o <<>> = shown
  BY DEF Types
<1>. QED BY <1>1 DEF Send

\* A number that is one of the questions, or 0.
LEMMA QuestionTypes ==
  ASSUME NEW i \in Questions
  PROVE  i \in 0..NumQuestions /\ i \in Nat /\ i # 0
BY SocketAssumption DEF Questions

-----------------------------------------------------------------------------
(* The steps of the task, by what they say and where they lead              *)

\* One await to the next with a frame to send, and with none.
LEMMA StepSays ==
  ASSUME Types, NEW from, NEW to, NEW f \in ShownFrames, Step(from, <<f>>, to)
  PROVE  /\ task = from /\ task' = to /\ Says(f) /\ shown' \in Seq(ShownFrames)
         /\ UNCHANGED <<here, asked, others, lastCancel, inbox, conn, event, set, q>>
BY SendsOne DEF Step, clientvars

LEMMA StepIsQuiet ==
  ASSUME Types, NEW from, NEW to, Step(from, <<>>, to)
  PROVE  /\ task = from /\ task' = to /\ shown' = shown
         /\ UNCHANGED <<here, asked, others, lastCancel, inbox, conn, event, set, q>>
BY SendsNone DEF Step, clientvars

\* What a frame of the question being answered is.
LEMMA TaskFrames ==
  ASSUME Types, task # "none", NEW kind \in Kinds
  PROVE  /\ q \in Questions /\ q \in 0..NumQuestions /\ Frame(q, kind) \in ShownFrames
         /\ Frame(q, kind).q = q /\ Frame(q, kind).kind = kind
<1>1. q \in Questions /\ q \in 0..NumQuestions
  BY DEF Types
<1>. QED BY <1>1, FramesAreFrames

\* The stages that a frame tells of: <<from, kind, to>>.
Stages == {<<"invalid", "error", "ending">>, <<"new", "accepted", "accepted">>,
           <<"accepted", "retrieving", "planning">>, <<"planning", "error", "ending">>,
           <<"planning", "citations", "planned">>, <<"planning", "citations", "grounded">>,
           <<"grounded", "generating", "generating">>, <<"generating", "error", "ending">>}
\* Those that none tells of: <<from, to>>.
Silent == {<<"planning", "planned">>, <<"planned", "generating">>, <<"ending", "none">>}

Still == UNCHANGED <<here, asked, others, lastCancel, inbox, conn, event, set, q>>
Rest  == UNCHANGED <<answer, delivered, stopped, writing, stored, refused>>

StageStep ==
  \E x \in Stages : task = x[1] /\ task' = x[3] /\ Says(Frame(q, x[2])) /\ Still /\ Rest
SilentStep ==
  \E x \in Silent : task = x[1] /\ task' = x[2] /\ shown' = shown /\ Still /\ Rest

\* Every step of the task that touches neither the answer nor the history is
\* one of these.
LEMMA StageSteps ==
  ASSUME Types,
         RejectAsk \/ AcceptAsk \/ PlanFails \/ PlanReturns \/ StartAnswer \/ CompleteFails \/ TaskEnds
  PROVE  (StageStep \/ SilentStep) /\ (task # "none" => q \in Questions) /\ shown' \in Seq(ShownFrames)
<1>0. shown \in Seq(ShownFrames) /\ (task # "none" => q \in Questions)
  BY DEF Types
<1>1. ASSUME NEW x \in Stages, Step(x[1], <<Frame(q, x[2])>>, x[3]),
             UNCHANGED <<answer, delivered, stopped, storevars>>
      PROVE  StageStep /\ shown' \in Seq(ShownFrames)
  <2>1. x[1] # "none" /\ x[2] \in Kinds
    BY DEF Stages, Kinds
  <2>2. task = x[1]
    BY <1>1 DEF Step
  <2>3. Frame(q, x[2]) \in ShownFrames
    BY <2>1, <2>2, TaskFrames
  <2>4. /\ task = x[1] /\ task' = x[3] /\ Says(Frame(q, x[2])) /\ shown' \in Seq(ShownFrames) /\ Still
    BY <1>1, <2>3, StepSays DEF Still
  <2>5. Rest
    BY <1>1 DEF Rest, storevars
  <2>. QED BY <2>4, <2>5 DEF StageStep
<1>2. ASSUME NEW x \in Silent, Step(x[1], <<>>, x[2]), UNCHANGED <<answer, delivered, stopped, storevars>>
      PROVE  SilentStep /\ shown' \in Seq(ShownFrames)
  <2>1. task = x[1] /\ task' = x[2] /\ shown' = shown /\ Still
    BY <1>2, StepIsQuiet DEF Still
  <2>2. Rest
    BY <1>2 DEF Rest, storevars
  <2>. QED BY <1>0, <2>1, <2>2 DEF SilentStep
<1>3. ASSUME NEW from, NEW kind, NEW to, <<from, kind, to>> \in Stages,
             Step(from, <<Frame(q, kind)>>, to), UNCHANGED <<answer, delivered, stopped, storevars>>
      PROVE  StageStep /\ shown' \in Seq(ShownFrames)
  <2>. DEFINE x == <<from, kind, to>>
  <2>1. x[1] = from /\ x[2] = kind /\ x[3] = to
    OBVIOUS
  <2>. HIDE DEF x
  <2>2. x \in Stages /\ Step(x[1], <<Frame(q, x[2])>>, x[3])
    BY <1>3, <2>1 DEF x
  <2>. QED BY <1>1, <1>3, <2>2
<1>4. ASSUME NEW from, NEW to, <<from, to>> \in Silent,
             Step(from, <<>>, to), UNCHANGED <<answer, delivered, stopped, storevars>>
      PROVE  SilentStep /\ shown' \in Seq(ShownFrames)
  <2>. DEFINE x == <<from, to>>
  <2>1. x[1] = from /\ x[2] = to
    OBVIOUS
  <2>. HIDE DEF x
  <2>2. x \in Silent /\ Step(x[1], <<>>, x[2])
    BY <1>4, <2>1 DEF x
  <2>. QED BY <1>2, <1>4, <2>2
<1>5. CASE RejectAsk
  <2>1. <<"invalid", "error", "ending">> \in Stages
    BY DEF Stages
  <2>. QED BY <1>0, <1>3, <1>5, <2>1, Zenon DEF RejectAsk
<1>6. CASE AcceptAsk
  <2>1. <<"new", "accepted", "accepted">> \in Stages /\ <<"accepted", "retrieving", "planning">> \in Stages
    BY DEF Stages
  <2>. QED BY <1>0, <1>3, <1>6, <2>1, Zenon DEF AcceptAsk
<1>7. CASE PlanFails
  <2>1. <<"planning", "error", "ending">> \in Stages
    BY DEF Stages
  <2>. QED BY <1>0, <1>3, <1>7, <2>1, Zenon DEF PlanFails
<1>8. CASE PlanReturns
  <2>1. /\ <<"planning", "citations", "planned">> \in Stages
        /\ <<"planning", "citations", "grounded">> \in Stages
        /\ <<"planning", "planned">> \in Silent
    BY DEF Stages, Silent
  <2>2. \A next \in {"planned", "grounded"} : <<"planning", "citations", next>> \in Stages
    BY <2>1
  <2>. QED BY <1>0, <1>3, <1>4, <1>8, <2>1, <2>2, Zenon DEF PlanReturns
<1>9. CASE StartAnswer
  <2>1. <<"planned", "generating">> \in Silent /\ <<"grounded", "generating", "generating">> \in Stages
    BY DEF Stages, Silent
  <2>. QED BY <1>0, <1>3, <1>4, <1>9, <2>1, Zenon DEF StartAnswer
<1>10. CASE CompleteFails
  <2>1. <<"generating", "error", "ending">> \in Stages
    BY DEF Stages
  <2>. QED BY <1>0, <1>3, <1>10, <2>1, Zenon DEF CompleteFails
<1>11. CASE TaskEnds
  <2>1. <<"ending", "none">> \in Silent
    BY DEF Silent
  <2>. QED BY <1>0, <1>4, <1>11, <2>1, Zenon DEF TaskEnds
<1>. QED BY <1>5, <1>6, <1>7, <1>8, <1>9, <1>10, <1>11

-----------------------------------------------------------------------------
(* The types are kept                                                       *)

LEMMA InitIInv == Init => IInv
<1>. SUFFICES ASSUME Init PROVE IInv
  OBVIOUS
<1>1. 0 \in 0..NumQuestions /\ 0 \in 0..MaxOthers /\ NumQuestions \in Nat
  BY SocketAssumption
<1>2. Types
  <2>1. IsText(NoText)
    BY DEF NoText, IsText
  <2>2. answer = [i \in Questions |-> NoText] /\ stored = [i \in Questions |-> <<>>]
    BY DEF Init
  <2>3. answer = [i \in Questions |-> answer[i]] /\ \A i \in Questions : IsText(answer[i])
    BY <2>1, <2>2
  <2>4. stored \in [Questions -> Seq(Nat \X Nat)]
    BY <2>2
  <2>5. shown \in Seq(ShownFrames) /\ inbox \in Seq(Inputs)
    BY DEF Init
  <2>. QED BY <1>1, <2>3, <2>4, <2>5 DEF Init, Types
<1>3. Queue(inbox, shown, q, asked, lastCancel)
  BY DEF Init, Queue, AsksInOrder, AsksBetween, AsksAreNew, CancelsReach, ShownWereAsked
<1>4. Cancels(set, q, lastCancel, here, stopped)
  BY DEF Init, Cancels
<1>5. Place
  BY DEF Init, Place, Busy, Early, Late
<1>6. Screen
  <2>1. shown = <<>> /\ here /\ task = "none" /\ q = 0 /\ writing = {} /\ DOMAIN shown = {} /\ Len(shown) = 0
    BY DEF Init
  <2>2. Orderly(shown, lastCancel)
    BY <2>1 DEF Orderly, FollowsProtocol, OneAtATime, EndsNameQuestions, CancelledBy
  <2>3. Showing(shown, task, q)
    BY <2>1 DEF Showing, AllEndedBut, Busy, Early, Late
  <2>4. \A i \in Questions : NotOver(shown, i) /\ NotDone(shown, i) /\ Collected(shown, i) = <<>>
    BY <2>1, CollectedNothing DEF NotOver, NotDone
  <2>5. task \notin Busy
    BY <2>1 DEF Busy, Early, Late
  <2>. QED BY <2>1, <2>2, <2>3, <2>4, <2>5 DEF Screen, About, NothingYet, Keeps, Whole
<1>. QED BY <1>2, <1>3, <1>4, <1>5, <1>6 DEF IInv

LEMMA ClientTypes == Types /\ Client => Types'
<1>. SUFFICES ASSUME Types, Client PROVE Types'
  OBVIOUS
<1>. USE DEF clientvars, taskvars, storevars
<1>0. NumQuestions \in Nat /\ MaxOthers \in Nat
  BY SocketAssumption
<1>1. CASE ClientAuthenticates
  <2>1. PICK kind \in {"auth", "other"} : inbox' = <<[kind |-> kind]>>
    BY <1>1 DEF ClientAuthenticates
  <2>2. [kind |-> kind] \in Inputs
    BY DEF Inputs, Plain
  <2>3. inbox' \in Seq(Inputs)
    BY <2>1, <2>2
  <2>. QED BY <1>1, <2>3 DEF ClientAuthenticates, Types
<1>2. CASE ClientAsks
  <2>1. PICK kind \in {"ask", "badask"} : inbox' = Append(inbox, [kind |-> kind, q |-> asked + 1])
    BY <1>2 DEF ClientAsks
  <2>2. asked + 1 \in Questions /\ asked + 1 \in 0..NumQuestions
    BY <1>0, <1>2 DEF ClientAsks, Types, Questions
  <2>3. [kind |-> kind, q |-> asked + 1] \in Inputs
    BY <2>2 DEF Inputs, Asks
  <2>4. inbox' \in Seq(Inputs)
    BY <2>1, <2>3 DEF Types
  <2>. QED BY <1>2, <2>2, <2>4 DEF ClientAsks, Types
<1>3. CASE ClientCancels
  <2>1. [kind |-> "cancel"] \in Inputs
    BY DEF Inputs, Plain
  <2>2. inbox' \in Seq(Inputs)
    BY <1>3, <2>1 DEF ClientCancels, Types
  <2>3. others' \in 0..MaxOthers
    BY <1>0, <1>3 DEF ClientCancels, Types
  <2>. QED BY <1>3, <2>2, <2>3 DEF ClientCancels, Types
<1>4. CASE ClientSendsOther
  <2>1. [kind |-> "other"] \in Inputs
    BY DEF Inputs, Plain
  <2>2. inbox' \in Seq(Inputs)
    BY <1>4, <2>1 DEF ClientSendsOther, Types
  <2>3. others' \in 0..MaxOthers
    BY <1>0, <1>4 DEF ClientSendsOther, Types
  <2>. QED BY <1>4, <2>2, <2>3 DEF ClientSendsOther, Types
<1>5. CASE ClientLeaves
  BY <1>5 DEF ClientLeaves, Types
<1>. QED BY <1>1, <1>2, <1>3, <1>4, <1>5 DEF Client

\* What the connection says outside of an answer.
LEMMA OtherFrames ==
  /\ Frame(0, "error") \in ShownFrames /\ Frame(0, "error").q = 0
  /\ Frame(0, "ready") \in ShownFrames /\ Frame(0, "ready").q = 0
  /\ Frame(0, "reply") \in ShownFrames /\ Frame(0, "reply").q = 0
  /\ Frame(0, "error").kind = "error" /\ Frame(0, "ready").kind = "ready" /\ Frame(0, "reply").kind = "reply"
<1>1. 0 \in 0..NumQuestions /\ {"error", "ready", "reply"} \subseteq Kinds
  BY SocketAssumption DEF Kinds
<1>. QED BY <1>1, FramesAreFrames

\* An opening step, and a ping, say at most one frame about no question.
SaysNothing == shown' = shown \/ \E f \in ShownFrames : Says(f) /\ f.q = 0 /\ f.kind \in {"error", "ready", "reply"}

LEMMA OpeningTypes ==
  ASSUME Types, Opening \/ ReceiveOther
  PROVE  /\ Types' /\ SaysNothing
         /\ UNCHANGED <<here, asked, others, lastCancel, set, task, q, answer, delivered, stopped,
                        writing, stored, refused>>
         /\ inbox' = inbox \/ (inbox # <<>> /\ inbox' = Tail(inbox))
         /\ conn' = conn \/ (conn # "open" /\ conn # "closed")
<1>. USE DEF clientvars, taskvars, storevars
<1>1. shown' \in Seq(ShownFrames) /\ SaysNothing
  <2>0. shown \in Seq(ShownFrames)
    BY DEF Types
  <2>1. CASE ReadAuth
    <3>1. CASE Head(inbox).kind = "auth"
      <4>1. Send(<<>>)
        BY <2>1, <3>1 DEF ReadAuth
      <4>. QED BY <2>0, <4>1, SendsNone DEF SaysNothing
    <3>2. CASE Head(inbox).kind # "auth"
      <4>1. Send(<<Frame(0, "error")>>)
        BY <2>1, <3>2 DEF ReadAuth
      <4>. QED BY <4>1, SendsOne, OtherFrames DEF SaysNothing
    <3>. QED BY <3>1, <3>2
  <2>2. CASE AuthTimesOut
    BY <2>0, <2>2 DEF AuthTimesOut, SaysNothing
  <2>3. CASE Authorized
    <3>1. Send(<<Frame(0, "ready")>>)
      BY <2>3 DEF Authorized
    <3>. QED BY <3>1, SendsOne, OtherFrames DEF SaysNothing
  <2>4. CASE Unauthorized
    <3>1. Send(<<>>) \/ Send(<<Frame(0, "error")>>)
      BY <2>4 DEF Unauthorized
    <3>. QED BY <2>0, <3>1, SendsNone, SendsOne, OtherFrames DEF SaysNothing
  <2>5. CASE ReceiveOther
    <3>1. Send(<<Frame(0, "reply")>>)
      BY <2>5 DEF ReceiveOther
    <3>. QED BY <3>1, SendsOne, OtherFrames DEF SaysNothing
  <2>. QED BY <2>1, <2>2, <2>3, <2>4, <2>5 DEF Opening
<1>2. /\ UNCHANGED <<here, asked, others, lastCancel, event, set, task, q, answer, delivered, stopped,
                     writing, stored, refused>>
      /\ inbox' = inbox \/ (inbox # <<>> /\ inbox' = Tail(inbox))
      /\ conn' = conn \/ (conn # "open" /\ conn # "closed")
      /\ conn' \in {"accepted", "authorizing", "open", "closed"}
  BY DEF Opening, ReadAuth, AuthTimesOut, Authorized, Unauthorized, ReceiveOther, Receive, Types
<1>3. inbox' \in Seq(Inputs)
  <2>1. inbox \in Seq(Inputs)
    BY DEF Types
  <2>2. inbox # <<>> => Tail(inbox) \in Seq(Inputs)
    BY <2>1, TailKeeps
  <2>. QED BY <1>2, <2>1, <2>2
<1>. QED BY <1>1, <1>2, <1>3 DEF Types

-----------------------------------------------------------------------------
(* What a frame of each kind leaves of what the client has                  *)

LEMMA CollectedSame ==
  ASSUME NEW frames \in Seq(ShownFrames), NEW f \in ShownFrames, NEW i, f.q # i \/ f.kind # "delta"
  PROVE  Collected(Append(frames, f), i) = Collected(frames, i)
BY CollectedOneMore DEF IsDelta

LEMMA CollectedDelta ==
  ASSUME NEW frames \in Seq(ShownFrames), NEW f \in ShownFrames, f.kind = "delta"
  PROVE  Collected(Append(frames, f), f.q) = Append(Collected(frames, f.q), f.text)
BY CollectedOneMore DEF IsDelta

\* A frame that ends no answer, and gives some of one only while it goes on.
LEMMA AboutGoesOn ==
  ASSUME NEW frames \in Seq(ShownFrames), NEW f \in ShownFrames,
         NEW i \in Questions, NEW now \in Nat, NEW text, NEW turn, NEW lost,
         About(frames, i, now, text, turn, lost),
         f.kind \notin {"done", "cancelled"},
         f.kind = "delta" => f.q = now /\ NotOver(frames, now)
  PROVE  About(Append(frames, f), i, now, text, turn, lost)
<1>. DEFINE more == Append(frames, f)
<1>1. NotOver(frames, i) => NotOver(more, i)
  BY LastMoves
<1>2. NotDone(frames, i) => NotDone(more, i)
  <2>1. f.kind # "done"
    OBVIOUS
  <2>. QED BY <2>1, LastMoves
<1>3. f.q # i \/ f.kind # "delta" => Collected(more, i) = Collected(frames, i)
  BY CollectedSame
<1>. HIDE DEF more
<1>4. NotOver(frames, i) => NotDone(frames, i)
  BY DEF NotOver, NotDone
<1>5. i \in Nat
  BY QuestionTypes
<1>6. CASE f.q # i \/ f.kind # "delta"
  <2>1. About(more, i, now, text, turn, lost)
    BY <1>1, <1>2, <1>3, <1>6 DEF About, NothingYet, Keeps, Whole
  <2>. QED BY <2>1 DEF more
<1>7. CASE f.q = i /\ f.kind = "delta"
  <2>1. NotOver(more, i) /\ NotDone(more, i) /\ now = i
    BY <1>1, <1>2, <1>4, <1>7
  <2>2. ~ (i > now)
    BY <1>5, <2>1
  <2>3. About(more, i, now, text, turn, lost)
    BY <2>1, <2>2 DEF About, NothingYet, Keeps, Whole
  <2>. QED BY <2>3 DEF more
<1>. QED BY <1>6, <1>7

\* A frame that ends the answer: the history has what was received, and "done"
\* is only said of a whole one.
LEMMA AboutEnds ==
  ASSUME NEW frames \in Seq(ShownFrames), NEW f \in ShownFrames,
         NEW i \in Questions, NEW now \in Nat, NEW text, NEW turn, NEW lost,
         About(frames, i, now, text, turn, lost),
         f.kind \in {"done", "cancelled"}, f.q = now,
         i = now => /\ NotOver(frames, i)
                    /\ i \in lost \/ turn = Trim(text, Collected(frames, i))
                    /\ f.kind = "done" => Exact(text, Collected(frames, i))
  PROVE  About(Append(frames, f), i, now, text, turn, lost)
<1>. DEFINE more == Append(frames, f)
<1>1. f.q # i => (NotOver(frames, i) => NotOver(more, i)) /\ (NotDone(frames, i) => NotDone(more, i))
  BY LastMoves
<1>2. f.kind # "done" => (NotDone(frames, i) => NotDone(more, i))
  BY LastMoves
<1>3. Collected(more, i) = Collected(frames, i)
  BY CollectedSame
<1>. HIDE DEF more
<1>4. NotOver(frames, i) => NotDone(frames, i)
  BY DEF NotOver, NotDone
<1>5. CASE i # now
  <2>1. About(more, i, now, text, turn, lost)
    BY <1>1, <1>3, <1>5 DEF About, NothingYet, Keeps, Whole
  <2>. QED BY <2>1 DEF more
<1>6. CASE i = now
  <2>1. NothingYet(more, i, now)
    BY <1>3 DEF About, NothingYet
  <2>2. i \in lost \/ Keeps(more, i, text, turn)
    BY <1>3, <1>6 DEF Keeps
  <2>3. Whole(more, i, text)
    BY <1>2, <1>3, <1>4, <1>6 DEF Whole
  <2>4. About(more, i, now, text, turn, lost)
    BY <2>1, <2>2, <2>3 DEF About
  <2>. QED BY <2>4 DEF more
<1>. QED BY <1>5, <1>6

\* The answer of a question that is not over may change, and what is stored.
LEMMA AboutChanges ==
  ASSUME NEW frames, NEW i, NEW now, NEW text, NEW turn, NEW lost,
         About(frames, i, now, text, turn, lost),
         NEW text2, NEW turn2, NEW lost2,
         NotOver(frames, i) \/ (text2 = text /\ turn2 = turn /\ lost \subseteq lost2)
  PROVE  About(frames, i, now, text2, turn2, lost2)
<1>1. NotOver(frames, i) => NotDone(frames, i)
  BY DEF NotOver, NotDone
<1>. QED BY <1>1 DEF About, Keeps, Whole

-----------------------------------------------------------------------------
(* The order of the stages                                                  *)

LEMMA FollowFacts ==
  /\ MayFollow("accepted") = {"retrieving"}
  /\ MayFollow("retrieving") = {"citations", "generating", "delta", "done", "cancelled", "error"}
  /\ MayFollow("citations") = {"generating", "delta", "done", "cancelled", "error"}
  /\ MayFollow("generating") = {"delta", "done", "cancelled", "error"}
  /\ MayFollow("delta") = {"delta", "done", "cancelled"}
BY DEF MayFollow

LEMMA PlaceFacts ==
  /\ LastKinds("accepted") = {"accepted"} /\ LastKinds("planning") = {"retrieving"}
  /\ LastKinds("planned") = {"retrieving", "citations"} /\ LastKinds("grounded") = {"citations"}
  /\ LastKinds("generating") = {"retrieving", "citations", "generating"}
  /\ \A at \in Late : LastKinds(at) = {"retrieving", "citations", "generating", "delta"}
BY DEF LastKinds, Late

LEMMA LastWidens ==
  ASSUME NEW frames, NEW i, NEW few, NEW many, LastIs(frames, i, few), few \subseteq many
  PROVE  LastIs(frames, i, many)
BY DEF LastIs

\* A stage's frame may come, and leaves what shows the next place of the task.
LEMMA StageShows ==
  ASSUME NEW frames \in Seq(ShownFrames), NEW f \in ShownFrames, NEW i \in Questions,
         NEW x \in Stages, f.q = i, f.kind = x[2], Showing(frames, x[1], i)
  PROVE  /\ MayCome(frames, f) /\ Showing(Append(frames, f), x[3], i)
         /\ f.kind \notin {"done", "cancelled", "delta"}
<1>. DEFINE more == Append(frames, f)
<1>1. /\ \A kinds : f.kind \in kinds => LastIs(more, i, kinds)
      /\ AllEndedBut(frames, {i}) => AllEndedBut(more, {i})
      /\ f.kind \in Ended /\ AllEndedBut(frames, {i}) => AllEndedBut(more, {})
  BY LastMoves, EndedMoves
<1>. HIDE DEF more
<1>2. x[1] \in Busy /\ AllEndedBut(frames, {i})
  BY DEF Stages, Busy, Early, Late, Showing
<1>3. ASSUME x[1] \in {"invalid", "new"}
      PROVE  MayCome(frames, f)
  <2>1. f.kind \in {"error", "accepted"} /\ Unseen(frames, i)
    BY <1>3 DEF Stages, Showing
  <2>. QED BY <1>2, <2>1 DEF MayCome
<1>4. ASSUME x[1] \notin {"invalid", "new"}
      PROVE  MayCome(frames, f)
  <2>1. LastIs(frames, i, LastKinds(x[1]))
    BY <1>2, <1>4 DEF Showing
  <2>2. \A kind \in LastKinds(x[1]) : f.kind \in MayFollow(kind)
    BY <1>4, FollowFacts, PlaceFacts DEF Stages
  <2>. QED BY <1>2, <2>1, <2>2 DEF MayCome
<1>5. ASSUME x[3] = "ending" PROVE Showing(more, x[3], i)
  <2>1. f.kind \in Ended
    BY <1>5 DEF Stages, Ended
  <2>. QED BY <1>1, <1>2, <1>5, <2>1 DEF Showing, Busy, Early, Late
<1>6. ASSUME x[3] # "ending" PROVE Showing(more, x[3], i)
  <2>1. x[3] \notin {"none", "ending", "invalid", "new"}
    BY <1>6 DEF Stages
  <2>2. f.kind \in LastKinds(x[3])
    BY <1>6, PlaceFacts DEF Stages
  <2>. QED BY <1>1, <1>2, <2>1, <2>2 DEF Showing
<1>7. f.kind \notin {"done", "cancelled", "delta"}
  BY DEF Stages
<1>. QED BY <1>3, <1>4, <1>5, <1>6, <1>7 DEF more

LEMMA SilentShows ==
  ASSUME NEW frames, NEW i, NEW x \in Silent, Showing(frames, x[1], i)
  PROVE  Showing(frames, x[2], i)
<1>1. CASE x[1] = "planning"
  <2>1. x[2] = "planned" /\ LastIs(frames, i, {"retrieving"}) /\ AllEndedBut(frames, {i})
    BY <1>1, PlaceFacts DEF Silent, Showing, Busy, Early, Late
  <2>2. LastIs(frames, i, LastKinds(x[2]))
    BY <2>1, LastWidens, PlaceFacts
  <2>. QED BY <2>1, <2>2 DEF Showing
<1>2. CASE x[1] = "planned"
  <2>1. x[2] = "generating" /\ LastIs(frames, i, {"retrieving", "citations"}) /\ AllEndedBut(frames, {i})
    BY <1>2, PlaceFacts DEF Silent, Showing, Busy, Early, Late
  <2>2. LastIs(frames, i, LastKinds(x[2]))
    BY <2>1, LastWidens, PlaceFacts
  <2>. QED BY <2>1, <2>2 DEF Showing
<1>3. CASE x[1] = "ending"
  BY <1>3 DEF Silent, Showing, Busy, Early, Late
<1>. QED BY <1>1, <1>2, <1>3 DEF Silent

-----------------------------------------------------------------------------
(* The client, the opening, and what is not about a question                *)

LEMMA Numbers ==
  ASSUME Types
  PROVE  /\ q \in Nat /\ asked \in Nat /\ lastCancel \in Nat
         /\ inbox \in Seq(Inputs) /\ shown \in Seq(ShownFrames)
BY SocketAssumption DEF Types

LEMMA ClientKeeps == IInv /\ Client => IInv'
<1>. SUFFICES ASSUME IInv, Client PROVE IInv'
  OBVIOUS
<1>. USE DEF clientvars, taskvars, storevars
<1>0. Types /\ Queue(inbox, shown, q, asked, lastCancel) /\ Cancels(set, q, lastCancel, here, stopped) /\ Place /\ Screen
  BY DEF IInv
<1>1. Types'
  BY <1>0, ClientTypes
<1>2. /\ UNCHANGED <<shown, event, set, task, q, answer, delivered, stopped, writing, stored, refused>>
      /\ conn' = conn /\ (here' => here)
  BY DEF Client, ClientAuthenticates, ClientAsks, ClientCancels, ClientSendsOther, ClientLeaves
<1>n. /\ q \in Nat /\ asked \in Nat /\ lastCancel \in Nat /\ lastCancel' \in Nat /\ asked' \in Nat
      /\ inbox \in Seq(Inputs) /\ shown \in Seq(ShownFrames) /\ inbox' \in Seq(Inputs)
  BY <1>0, <1>1, Numbers, SocketAssumption DEF Types
<1>q. q <= asked /\ lastCancel <= asked
  BY <1>0 DEF Queue
<1>3. Queue(inbox', shown, q, asked', lastCancel') /\ lastCancel <= lastCancel'
  <2>1. CASE ClientAuthenticates
    <3>1. inbox = <<>> /\ asked' = asked /\ lastCancel' = lastCancel
      BY <2>1 DEF ClientAuthenticates
    <3>2. PICK kind \in {"auth", "other"} : inbox' = <<[kind |-> kind]>>
      BY <2>1 DEF ClientAuthenticates
    <3>. DEFINE x == [kind |-> kind]
    <3>3. x \in Inputs /\ ~ IsAsk(x) /\ x.kind # "cancel"
      BY DEF Inputs, Plain, IsAsk
    <3>4. inbox' = Append(inbox, x)
      BY <3>1, <3>2
    <3>. HIDE DEF x
    <3>5. Queue(Append(inbox, x), shown, q, asked, lastCancel)
      BY <1>0, <1>n, <1>q, <3>3, QueueGrows
    <3>. QED BY <1>n, <3>1, <3>4, <3>5
  <2>2. CASE ClientAsks
    <3>1. asked' = asked + 1 /\ lastCancel' = lastCancel
      BY <2>2 DEF ClientAsks
    <3>2. PICK kind \in {"ask", "badask"} : inbox' = Append(inbox, [kind |-> kind, q |-> asked + 1])
      BY <2>2 DEF ClientAsks
    <3>. DEFINE x == [kind |-> kind, q |-> asked + 1]
    <3>3. asked + 1 \in Questions
      BY <1>0, <2>2, SocketAssumption DEF ClientAsks, Types, Questions
    <3>4. x \in Inputs /\ x.q = asked + 1 /\ x.kind # "cancel"
      BY <3>3 DEF Inputs, Asks
    <3>5. inbox' = Append(inbox, x)
      BY <3>2
    <3>. HIDE DEF x
    <3>. DEFINE high2 == asked + 1
    <3>6. high2 \in Nat /\ asked <= high2 /\ asked < x.q /\ x.q <= high2 /\ lastCancel <= high2
          /\ lastCancel <= lastCancel
      BY <1>n, <1>q, <3>4
    <3>. HIDE DEF high2
    <3>7. Queue(Append(inbox, x), shown, q, high2, lastCancel)
      BY <1>0, <1>n, <1>q, <3>4, <3>6, QueueGrows
    <3>. QED BY <1>n, <3>1, <3>5, <3>7 DEF high2
  <2>3. CASE ClientCancels
    <3>1. asked' = asked /\ lastCancel' = asked /\ inbox' = Append(inbox, [kind |-> "cancel"])
      BY <2>3 DEF ClientCancels
    <3>. DEFINE x == [kind |-> "cancel"]
    <3>2. x \in Inputs /\ ~ IsAsk(x)
      BY DEF Inputs, Plain, IsAsk
    <3>3. inbox' = Append(inbox, x)
      BY <3>1
    <3>. HIDE DEF x
    <3>4. Queue(Append(inbox, x), shown, q, asked, asked)
      <4>1. asked <= asked
        BY <1>n
      <4>. QED BY <1>0, <1>n, <1>q, <3>2, <4>1, QueueGrows
    <3>. QED BY <1>q, <3>1, <3>3, <3>4
  <2>4. CASE ClientSendsOther
    <3>1. asked' = asked /\ lastCancel' = lastCancel /\ inbox' = Append(inbox, [kind |-> "other"])
      BY <2>4 DEF ClientSendsOther
    <3>. DEFINE x == [kind |-> "other"]
    <3>2. x \in Inputs /\ ~ IsAsk(x) /\ x.kind # "cancel"
      BY DEF Inputs, Plain, IsAsk
    <3>3. inbox' = Append(inbox, x)
      BY <3>1
    <3>. HIDE DEF x
    <3>4. Queue(Append(inbox, x), shown, q, asked, lastCancel)
      <4>1. asked <= asked /\ lastCancel <= lastCancel
        BY <1>n
      <4>. QED BY <1>0, <1>n, <1>q, <3>2, <4>1, QueueGrows
    <3>. QED BY <1>n, <3>1, <3>3, <3>4
  <2>5. CASE ClientLeaves
    <3>1. asked' = asked /\ lastCancel' = lastCancel /\ inbox' = inbox
      BY <2>5 DEF ClientLeaves
    <3>. QED BY <1>0, <1>n, <3>1
  <2>. QED BY <2>1, <2>2, <2>3, <2>4, <2>5 DEF Client
<1>4. Cancels(set, q, lastCancel', here', stopped)
  <2>1. \A e \in set : e \in Nat /\ e <= lastCancel
    BY <1>0, SocketAssumption DEF Cancels, Types
  <2>2. \A e \in set : e <= lastCancel'
    BY <1>n, <1>3, <2>1
  <2>3. ASSUME stopped, here' PROVE q <= lastCancel'
    <3>1. q <= lastCancel
      BY <1>0, <1>2, <2>3 DEF Cancels
    <3>. QED BY <1>n, <1>3, <3>1
  <2>. QED BY <2>2, <2>3 DEF Cancels
<1>5. Place'
  BY <1>0, <1>2 DEF Place
<1>6. Screen'
  <2>1. Orderly(shown, lastCancel')
    BY <1>0, <1>n, <1>3, OrderOutlivesCancels DEF Screen
  <2>. QED BY <1>0, <1>2, <2>1 DEF Screen
<1>. QED BY <1>1, <1>2, <1>3, <1>4, <1>5, <1>6 DEF IInv

\* A frame that is about no question, or a refusal, leaves the screen right.
LEMMA AsideKeeps ==
  ASSUME NEW frames \in Seq(ShownFrames), NEW f \in ShownFrames, NEW i \in Nat, NEW at,
         f.q # i \/ at \notin Busy, f.q = 0 \/ (f.kind = "busy" /\ Unseen(frames, f.q)),
         f.kind \notin {"done", "cancelled", "delta", "accepted"}
  PROVE  /\ MayCome(frames, f)
         /\ Showing(frames, at, i) => Showing(Append(frames, f), at, i)
<1>1. MayCome(frames, f)
  BY DEF MayCome
<1>2. \A S : AllEndedBut(frames, S) => AllEndedBut(Append(frames, f), S)
  BY EndedMoves
<1>3. f.q # i => /\ Unseen(frames, i) => Unseen(Append(frames, f), i)
                 /\ \A kinds : LastIs(frames, i, kinds) => LastIs(Append(frames, f), i, kinds)
  BY LastMoves
<1>4. \A at2 \in {"invalid", "new"} : at2 \in Busy
  BY DEF Busy, Early
<1>. QED BY <1>1, <1>2, <1>3, <1>4 DEF Showing

\* The same of the whole screen.
LEMMA AsideScreen ==
  ASSUME Types, Screen, NEW f \in ShownFrames, Says(f), f.q # q \/ task \notin Busy,
         f.q = 0 \/ (f.kind = "busy" /\ Unseen(shown, f.q)),
         f.kind \notin {"done", "cancelled", "delta", "accepted"},
         UNCHANGED <<here, lastCancel, task, q, answer, delivered, writing, stored, refused>>
  PROVE  Screen'
<1>0. q \in Nat /\ shown \in Seq(ShownFrames)
  BY Numbers
<1>1. CASE ~ here
  <2>1. shown' = shown
    BY <1>1 DEF Says
  <2>. QED BY <2>1 DEF Screen
<1>2. CASE here
  <2>. DEFINE more == Append(shown, f)
  <2>1. shown' = more
    BY <1>2 DEF Says
  <2>2. MayCome(shown, f) /\ (Showing(shown, task, q) => Showing(more, task, q))
    BY <1>0, AsideKeeps
  <2>3. Orderly(more, lastCancel)
    BY <1>0, <2>2, OrderGoesOn DEF Screen
  <2>4. NotOver(shown, q) => NotOver(more, q)
    BY <1>0, LastMoves
  <2>5. Collected(more, q) = Collected(shown, q)
    BY <1>0, CollectedSame
  <2>6. \A i \in Questions : About(more, i, q, answer[i], stored[i], refused)
    BY <1>0, AboutGoesOn DEF Screen
  <2>. HIDE DEF more
  <2>. QED BY <2>1, <2>2, <2>3, <2>4, <2>5, <2>6 DEF Screen
<1>. QED BY <1>1, <1>2

LEMMA OpeningKeeps == IInv /\ (Opening \/ ReceiveOther) => IInv'
<1>. SUFFICES ASSUME IInv, Opening \/ ReceiveOther PROVE IInv'
  OBVIOUS
<1>0. Types /\ Queue(inbox, shown, q, asked, lastCancel) /\ Cancels(set, q, lastCancel, here, stopped) /\ Place /\ Screen
  BY DEF IInv
<1>1. /\ Types' /\ SaysNothing
      /\ UNCHANGED <<here, asked, others, lastCancel, set, task, q, answer, delivered, stopped,
                     writing, stored, refused>>
      /\ inbox' = inbox \/ (inbox # <<>> /\ inbox' = Tail(inbox))
      /\ conn' = conn \/ (conn # "open" /\ conn # "closed")
  BY <1>0, OpeningTypes
<1>n. q \in Nat /\ asked \in Nat /\ lastCancel \in Nat /\ inbox \in Seq(Inputs) /\ shown \in Seq(ShownFrames)
  BY <1>0, Numbers
<1>2. Queue(inbox', shown, q, asked, lastCancel)
  BY <1>0, <1>1, <1>n, QueueReads
<1>3. Queue(inbox', shown', q, asked, lastCancel)
  <2>1. CASE shown' = shown
    BY <1>2, <2>1
  <2>2. ASSUME NEW f \in ShownFrames, Says(f), f.q = 0 PROVE Queue(inbox', shown', q, asked, lastCancel)
    <3>1. inbox' \in Seq(Inputs) /\ f.q <= q
      BY <1>1, <1>n, <2>2 DEF Types
    <3>2. Queue(inbox', Append(shown, f), q, asked, lastCancel)
      BY <1>2, <1>n, <3>1, QueueShows
    <3>. QED BY <1>2, <2>2, <3>2 DEF Says
  <2>. QED BY <1>1, <2>1, <2>2 DEF SaysNothing
<1>4. Place'
  BY <1>0, <1>1 DEF Place
<1>5. Screen'
  <2>1. CASE shown' = shown
    BY <1>0, <1>1, <2>1 DEF Screen
  <2>2. ASSUME NEW f \in ShownFrames, Says(f), f.q = 0, f.kind \in {"error", "ready", "reply"} PROVE Screen'
    <3>1. f.q # q \/ task \notin Busy
      <4>1. task \in Busy => q \in Questions
        BY <1>0 DEF Types, Busy, Early, Late
      <4>. QED BY <2>2, <4>1, QuestionTypes
    <3>. QED BY <1>0, <1>1, <2>2, <3>1, AsideScreen
  <2>. QED BY <1>1, <2>1, <2>2 DEF SaysNothing
<1>. QED BY <1>0, <1>1, <1>3, <1>4, <1>5 DEF IInv

-----------------------------------------------------------------------------
(* The receive loop                                                         *)

LEMMA ReceiveCancelKeeps == IInv /\ ReceiveCancel => IInv'
<1>. SUFFICES ASSUME IInv, ReceiveCancel PROVE IInv'
  OBVIOUS
<1>. USE DEF clientvars, taskvars, storevars
<1>0. Types /\ Queue(inbox, shown, q, asked, lastCancel) /\ Cancels(set, q, lastCancel, here, stopped) /\ Place /\ Screen
  BY DEF IInv
<1>1. /\ inbox # <<>> /\ Head(inbox).kind = "cancel" /\ inbox' = Tail(inbox) /\ set' = set \cup {event}
      /\ UNCHANGED <<here, asked, others, lastCancel, shown, conn, event, task, q, answer, delivered,
                     stopped, writing, stored, refused>>
  BY DEF ReceiveCancel, Receive
<1>n. q \in Nat /\ asked \in Nat /\ lastCancel \in Nat /\ inbox \in Seq(Inputs) /\ shown \in Seq(ShownFrames)
  BY <1>0, Numbers
<1>2. Head(inbox) = inbox[1] /\ 1 \in DOMAIN inbox /\ Tail(inbox) \in Seq(Inputs)
  BY <1>1, <1>n, TailKeeps
<1>3. q <= lastCancel
  BY <1>0, <1>1, <1>2 DEF Queue, CancelsReach
<1>4. Types'
  <2>1. inbox' \in Seq(Inputs) /\ set' \in SUBSET (0..NumQuestions)
    BY <1>0, <1>1, <1>2 DEF Types
  <2>. QED BY <1>0, <1>1, <2>1 DEF Types
<1>5. Queue(inbox', shown, q, asked, lastCancel)
  BY <1>0, <1>1, <1>n, QueueReads
<1>6. Cancels(set', q, lastCancel, here, stopped)
  <2>1. event = q
    BY <1>0 DEF Types
  <2>. QED BY <1>0, <1>1, <1>3, <2>1 DEF Cancels
<1>7. Place' /\ Screen'
  BY <1>0, <1>1 DEF Place, Screen
<1>. QED BY <1>1, <1>4, <1>5, <1>6, <1>7 DEF IInv

LEMMA ReceiveAskBusyKeeps == IInv /\ ReceiveAskBusy => IInv'
<1>. SUFFICES ASSUME IInv, ReceiveAskBusy PROVE IInv'
  OBVIOUS
<1>. USE DEF clientvars, taskvars, storevars
<1>0. Types /\ Queue(inbox, shown, q, asked, lastCancel) /\ Cancels(set, q, lastCancel, here, stopped) /\ Place /\ Screen
  BY DEF IInv
<1>. DEFINE i == Head(inbox).q
            f == Frame(i, "busy")
<1>1. /\ inbox # <<>> /\ IsAsk(Head(inbox)) /\ inbox' = Tail(inbox) /\ Send(<<f>>) /\ task # "none"
      /\ UNCHANGED <<here, asked, others, lastCancel, conn, event, set, task, q, answer, delivered,
                     stopped, writing, stored, refused>>
  BY DEF ReceiveAskBusy, Receive, IsAsk
<1>n. q \in Nat /\ asked \in Nat /\ lastCancel \in Nat /\ inbox \in Seq(Inputs) /\ shown \in Seq(ShownFrames)
  BY <1>0, Numbers
<1>2. i \in Questions /\ q < i /\ Unseen(shown, i) /\ Tail(inbox) \in Seq(Inputs)
  BY <1>0, <1>1, <1>n, QueueAhead, TailKeeps
<1>3. f \in ShownFrames /\ f.q = i /\ f.kind = "busy"
  <2>1. i \in 0..NumQuestions /\ "busy" \in Kinds
    BY <1>2, QuestionTypes DEF Kinds
  <2>. HIDE DEF i
  <2>. QED BY <2>1, FramesAreFrames
<1>. HIDE DEF i, f
<1>4. Says(f) /\ shown' \in Seq(ShownFrames)
  BY <1>0, <1>1, <1>3, SendsOne
<1>5. Types'
  BY <1>0, <1>1, <1>2, <1>4 DEF Types
<1>6. Queue(inbox', shown', q, asked, lastCancel)
  <2>1. Queue(Tail(inbox), Append(shown, f), q, asked, lastCancel)
    BY <1>0, <1>1, <1>n, <1>3, QueueRefuses DEF i
  <2>2. Queue(Tail(inbox), shown, q, asked, lastCancel)
    BY <1>0, <1>1, <1>n, QueueReads
  <2>. QED BY <1>1, <1>4, <2>1, <2>2 DEF Says
<1>7. Place'
  BY <1>0, <1>1 DEF Place
<1>8. Screen'
  <2>1. f.q # q
    BY <1>2, <1>3, <1>n, QuestionTypes
  <2>. QED BY <1>0, <1>1, <1>2, <1>3, <1>4, <2>1, AsideScreen
<1>. QED BY <1>0, <1>1, <1>5, <1>6, <1>7, <1>8 DEF IInv

\* A question the client has heard nothing of starts with nothing said of it.
LEMMA StartShows ==
  ASSUME NEW frames \in Seq(ShownFrames), NEW i \in Questions, Unseen(frames, i)
  PROVE  /\ NotOver(frames, i)
         /\ \A at \in {"invalid", "new"} : Showing(frames, "none", i) => Showing(frames, at, i)
<1>1. NotOver(frames, i)
  BY DEF Unseen, NotOver
<1>2. AllEndedBut(frames, {}) => AllEndedBut(frames, {i})
  BY DEF AllEndedBut
<1>. QED BY <1>1, <1>2 DEF Showing, Busy, Early, Late

LEMMA ReceiveAskKeeps == IInv /\ ReceiveAsk => IInv'
<1>. SUFFICES ASSUME IInv, ReceiveAsk PROVE IInv'
  OBVIOUS
<1>. USE DEF clientvars, taskvars, storevars
<1>0. Types /\ Queue(inbox, shown, q, asked, lastCancel) /\ Cancels(set, q, lastCancel, here, stopped) /\ Place /\ Screen
  BY DEF IInv
<1>. DEFINE i == Head(inbox).q
<1>1. /\ inbox # <<>> /\ IsAsk(Head(inbox)) /\ inbox' = Tail(inbox) /\ task = "none" /\ conn = "open"
      /\ q' = i /\ event' = i /\ task' \in {"new", "invalid"} /\ delivered' = 0 /\ stopped' = FALSE
      /\ UNCHANGED <<here, asked, others, lastCancel, shown, conn, set, answer, writing, stored, refused>>
  BY DEF ReceiveAsk, Receive, IsAsk, SpawnTask
<1>n. q \in Nat /\ asked \in Nat /\ lastCancel \in Nat /\ inbox \in Seq(Inputs) /\ shown \in Seq(ShownFrames)
  BY <1>0, Numbers
<1>2. /\ i \in Questions /\ q < i /\ Unseen(shown, i) /\ Tail(inbox) \in Seq(Inputs)
      /\ Queue(Tail(inbox), shown, i, asked, lastCancel)
  BY <1>0, <1>1, <1>n, QueueAhead, QueueStarts, TailKeeps
<1>. HIDE DEF i
<1>3. i \in 0..NumQuestions /\ i \in Nat
  BY <1>2, QuestionTypes
<1>4. writing = {}
  BY <1>0, <1>1 DEF Place
<1>5. task' \in Early /\ task' \in Busy /\ task' \notin Late
  BY <1>1 DEF Early, Busy, Late
<1>6. Types'
  BY <1>0, <1>1, <1>2, <1>3, <1>4, <1>5 DEF Types
<1>7. Cancels(set, i, lastCancel, here, FALSE)
  BY <1>0 DEF Cancels
<1>8. stored[i] = <<>> /\ \A j \in Questions : j > i => stored[j] = <<>>
  <2>1. i > q
    BY <1>2, <1>3, <1>n
  <2>2. \A j \in Questions : j > i => j > q
    BY <1>3, <1>n, <2>1, QuestionTypes
  <2>. QED BY <1>0, <1>2, <2>1, <2>2 DEF Place
<1>9. Place'
  <2>1. task' \notin {"sending", "delivered", "storing"}
    BY <1>5 DEF Late
  <2>. QED BY <1>1, <1>4, <1>5, <1>8, <2>1 DEF Place
<1>10. Screen'
  <2>1. NotOver(shown, i) /\ (Showing(shown, "none", i) => Showing(shown, task', i))
    BY <1>1, <1>2, <1>n, StartShows
  <2>2. here => Showing(shown, "none", i)
    <3>1. here => Showing(shown, "none", q)
      BY <1>0, <1>1 DEF Screen
    <3>. QED BY <3>1 DEF Showing, Busy, Early, Late
  <2>3. ASSUME NEW j \in Questions PROVE About(shown, j, i, answer[j], stored[j], refused)
    <3>1. About(shown, j, q, answer[j], stored[j], refused)
      BY <1>0 DEF Screen
    <3>2. j > i => j > q
      BY <1>2, <1>3, <1>n, QuestionTypes
    <3>. QED BY <3>1, <3>2 DEF About, NothingYet
  <2>4. Collected(shown, i) = Sent(answer[i], 0)
    <3>1. About(shown, i, q, answer[i], stored[i], refused) /\ i > q
      BY <1>0, <1>2, <1>3, <1>n DEF Screen
    <3>2. Collected(shown, i) = <<>>
      BY <3>1 DEF About, NothingYet
    <3>3. Split(answer[i]) \in Seq(Nat \X Nat)
      BY <1>0, <1>2, AnswerTypes
    <3>4. Sent(answer[i], 0) = <<>>
      BY <3>3, NothingSent DEF Sent
    <3>. QED BY <3>2, <3>4
  <2>5. Orderly(shown, lastCancel)
    BY <1>0 DEF Screen
  <2>. QED BY <1>1, <2>1, <2>2, <2>3, <2>4, <2>5 DEF Screen
<1>. QED BY <1>1, <1>2, <1>6, <1>7, <1>9, <1>10 DEF IInv

LEMMA ReceiveNothingKeeps == IInv /\ ReceiveNothing => IInv'
<1>. SUFFICES ASSUME IInv, ReceiveNothing PROVE IInv'
  OBVIOUS
<1>. USE DEF clientvars, taskvars, storevars
<1>0. Types /\ Queue(inbox, shown, q, asked, lastCancel) /\ Cancels(set, q, lastCancel, here, stopped) /\ Place /\ Screen
  BY DEF IInv
<1>1. /\ ~ here /\ conn' = "closed" /\ task' = "none" /\ (writing' = writing \/ writing' = {})
      /\ UNCHANGED <<here, asked, others, lastCancel, shown, inbox, event, set, q, answer, delivered,
                     stopped, stored, refused>>
  BY DEF ReceiveNothing
<1>2. "none" \notin Busy
  BY DEF Busy, Early, Late
<1>3. Types'
  BY <1>0, <1>1 DEF Types
<1>4. Place'
  BY <1>0, <1>1, <1>2 DEF Place, Busy, Early, Late
<1>5. Screen'
  BY <1>0, <1>1, <1>2 DEF Screen
<1>. QED BY <1>0, <1>1, <1>3, <1>4, <1>5 DEF IInv

-----------------------------------------------------------------------------
(* The answer task                                                          *)

\* Whatever the task says is about its question.
LEMMA TaskQueue ==
  ASSUME IInv, Still, shown' = shown \/ \E f \in ShownFrames : Says(f) /\ f.q = q
  PROVE  /\ Queue(inbox', shown', q', asked', lastCancel')
         /\ UNCHANGED <<here, asked, others, lastCancel, inbox, conn, event, set, q>>
<1>0. Types /\ Queue(inbox, shown, q, asked, lastCancel)
  BY DEF IInv
<1>n. q \in Nat /\ asked \in Nat /\ lastCancel \in Nat /\ inbox \in Seq(Inputs) /\ shown \in Seq(ShownFrames)
  BY <1>0, Numbers
<1>1. UNCHANGED <<here, asked, others, lastCancel, inbox, conn, event, set, q>>
  BY DEF Still
<1>2. Queue(inbox, shown', q, asked, lastCancel)
  <2>1. CASE shown' = shown
    BY <1>0, <2>1
  <2>2. ASSUME NEW f \in ShownFrames, Says(f), f.q = q PROVE Queue(inbox, shown', q, asked, lastCancel)
    <3>1. f.q <= q
      BY <1>n, <2>2
    <3>2. Queue(inbox, Append(shown, f), q, asked, lastCancel)
      BY <1>0, <1>n, <3>1, QueueShows
    <3>. QED BY <1>0, <2>2, <3>2 DEF Says
  <2>. QED BY <2>1, <2>2
<1>. QED BY <1>1, <1>2

LEMMA StageStepKeeps ==
  ASSUME IInv, StageStep, shown' \in Seq(ShownFrames) PROVE IInv'
<1>0. Types /\ Cancels(set, q, lastCancel, here, stopped) /\ Place /\ Screen
  BY DEF IInv
<1>n. q \in Nat /\ shown \in Seq(ShownFrames)
  BY <1>0, Numbers
<1>1. PICK x \in Stages : task = x[1] /\ task' = x[3] /\ Says(Frame(q, x[2])) /\ Still /\ Rest
  BY DEF StageStep
<1>. DEFINE f == Frame(q, x[2])
<1>2. /\ x[1] \in Early /\ x[1] \in Busy /\ x[1] # "none" /\ x[2] \in Kinds
      /\ x[3] \in Early \cup {"ending"} /\ x[1] \notin Late /\ x[3] \notin Late /\ x[3] # "none"
      /\ x[3] \in Busy \cup {"none", "ending"}
  BY DEF Stages, Early, Late, Busy, Kinds
<1>3. q \in Questions /\ f \in ShownFrames /\ f.q = q /\ f.kind = x[2]
  BY <1>0, <1>1, <1>2, TaskFrames
<1>. HIDE DEF f
<1>4. Says(f)
  BY <1>1 DEF f
<1>5. /\ Queue(inbox', shown', q', asked', lastCancel')
      /\ UNCHANGED <<here, asked, others, lastCancel, inbox, conn, event, set, q>>
  BY <1>1, <1>3, <1>4, TaskQueue
<1>6. UNCHANGED <<answer, delivered, stopped, writing, stored, refused>>
  BY <1>1 DEF Rest
<1>7. Types'
  BY <1>0, <1>1, <1>2, <1>3, <1>5, <1>6 DEF Types
<1>8. Cancels(set', q', lastCancel', here', stopped')
  BY <1>0, <1>5, <1>6
<1>9. Place'
  <2>1. task \in Early /\ task \in Busy \ {"storing"} /\ task # "storing" /\ task # "none"
    BY <1>1, <1>2 DEF Late
  <2>2. task' \notin Late /\ task' \notin {"sending", "delivered", "storing"}
    BY <1>1, <1>2 DEF Late
  <2>. QED BY <1>0, <1>5, <1>6, <2>1, <2>2 DEF Place
<1>10. Screen'
  <2>1. NotOver(shown, q) /\ task \in Busy /\ Orderly(shown, lastCancel)
    BY <1>0, <1>1, <1>2 DEF Screen
  <2>2. CASE ~ here
    <3>1. shown' = shown
      BY <1>4, <2>2 DEF Says
    <3>. QED BY <1>0, <1>5, <1>6, <2>1, <2>2, <3>1 DEF Screen
  <2>3. CASE here
    <3>. DEFINE more == Append(shown, f)
    <3>1. shown' = more
      BY <1>4, <2>3 DEF Says
    <3>2. /\ MayCome(shown, f) /\ Showing(more, x[3], q)
          /\ f.kind \notin {"done", "cancelled", "delta"}
      BY <1>0, <1>1, <1>n, <1>3, <2>3, StageShows DEF Screen
    <3>3. Orderly(more, lastCancel)
      BY <1>n, <2>1, <1>3, <3>2, OrderGoesOn
    <3>4. NotOver(more, q)
      BY <1>n, <1>3, <2>1, <3>2, LastMoves
    <3>5. Collected(more, q) = Collected(shown, q)
      BY <1>n, <1>3, <3>2, CollectedSame
    <3>6. \A i \in Questions : About(more, i, q, answer[i], stored[i], refused)
      BY <1>0, <1>n, <1>3, <3>2, AboutGoesOn DEF Screen
    <3>7. Collected(shown, q) = Sent(answer[q], delivered)
      BY <1>0, <2>1, <2>3 DEF Screen
    <3>. HIDE DEF more
    <3>. QED BY <1>1, <1>5, <1>6, <3>1, <3>2, <3>3, <3>4, <3>5, <3>6, <3>7 DEF Screen
  <2>. QED BY <2>2, <2>3
<1>. QED BY <1>5, <1>7, <1>8, <1>9, <1>10 DEF IInv

LEMMA SilentStepKeeps ==
  ASSUME IInv, SilentStep PROVE IInv'
<1>0. Types /\ Cancels(set, q, lastCancel, here, stopped) /\ Place /\ Screen
  BY DEF IInv
<1>1. PICK x \in Silent : task = x[1] /\ task' = x[2] /\ shown' = shown /\ Still /\ Rest
  BY DEF SilentStep
<1>2. /\ Queue(inbox', shown', q', asked', lastCancel')
      /\ UNCHANGED <<here, asked, others, lastCancel, inbox, conn, event, set, q>>
  BY <1>1, TaskQueue
<1>3. UNCHANGED <<answer, delivered, stopped, writing, stored, refused>>
  BY <1>1 DEF Rest
<1>4. /\ x[1] # "none" /\ x[1] # "storing" /\ x[2] \notin Late /\ x[2] \in Busy \cup {"none", "ending"}
      /\ x[2] \in Busy => x[1] \in Busy
      /\ x[2] \in Early => x[1] \in Early
  BY DEF Silent, Early, Late, Busy
<1>5. Types'
  BY <1>0, <1>1, <1>2, <1>3, <1>4 DEF Types
<1>6. Cancels(set', q', lastCancel', here', stopped')
  BY <1>0, <1>2, <1>3
<1>7. Place'
  <2>1. task' \notin {"sending", "delivered", "storing"}
    BY <1>1, <1>4 DEF Late
  <2>2. task # "none" /\ task # "storing" /\ task' \notin Late /\ (task' \in Early => task \in Early)
        /\ (task' \in Busy => task \in Busy)
    BY <1>1, <1>4
  <2>. QED BY <1>0, <1>2, <1>3, <2>1, <2>2 DEF Place
<1>8. Screen'
  <2>1. here => Showing(shown, task', q)
    BY <1>0, <1>1, SilentShows DEF Screen
  <2>2. task' \in Busy => task \in Busy
    BY <1>1, <1>4
  <2>. QED BY <1>0, <1>1, <1>2, <1>3, <2>1, <2>2 DEF Screen
<1>. QED BY <1>2, <1>5, <1>6, <1>7, <1>8 DEF IInv

\* An ending frame may come while an answer is under way.
LEMMA EndShows ==
  ASSUME NEW frames \in Seq(ShownFrames), NEW f \in ShownFrames, NEW i \in Questions,
         NEW at \in {"planned", "grounded"} \cup Late,
         f.q = i, f.kind \in {"done", "cancelled"}, f.kind = "done" => at \in Late,
         Showing(frames, at, i)
  PROVE  MayCome(frames, f) /\ Showing(Append(frames, f), "ending", i)
<1>1. at \in Busy \ {"invalid", "new"}
  BY DEF Busy, Early, Late
<1>2. AllEndedBut(frames, {i}) /\ LastIs(frames, i, LastKinds(at))
  BY <1>1 DEF Showing
<1>3. \A kind \in LastKinds(at) : f.kind \in MayFollow(kind)
  <2>1. CASE at \in Late
    BY <2>1, FollowFacts, PlaceFacts
  <2>2. CASE at \notin Late
    BY <2>2, FollowFacts, PlaceFacts
  <2>. QED BY <2>1, <2>2
<1>4. MayCome(frames, f)
  BY <1>2, <1>3 DEF MayCome
<1>5. AllEndedBut(Append(frames, f), {})
  <2>1. f.kind \in Ended
    BY DEF Ended
  <2>. QED BY <1>2, <2>1, EndedMoves
<1>. QED BY <1>4, <1>5 DEF Showing, Busy, Early, Late

\* The screen after an ending frame.
LEMMA EndScreen ==
  ASSUME Types, Screen, q \in Questions, task \in {"planned", "grounded"} \cup Late, task' = "ending", writing = {},
         NEW f \in ShownFrames, f.q = q, f.kind \in {"done", "cancelled"}, Says(f),
         f.kind = "done" => task \in Late /\ delivered = Len(Split(answer[q])),
         f.kind = "cancelled" /\ here => q <= lastCancel,
         q \in refused \/ stored[q] = Trim(answer[q], Sent(answer[q], delivered)),
         UNCHANGED <<here, lastCancel, q, answer, delivered, writing, stored, refused>>
  PROVE  Screen'
<1>0. q \in Nat /\ shown \in Seq(ShownFrames) /\ lastCancel \in Nat
  BY Numbers
<1>1. task \in Busy /\ task' \notin Busy
  BY DEF Busy, Early, Late
<1>2. CASE ~ here
  <2>1. shown' = shown
    BY <1>2 DEF Says
  <2>. QED BY <1>1, <1>2, <2>1 DEF Screen
<1>3. CASE here
  <2>. DEFINE more == Append(shown, f)
  <2>1. shown' = more
    BY <1>3 DEF Says
  <2>2. MayCome(shown, f) /\ Showing(more, "ending", q)
    <3>1. Showing(shown, task, q)
      BY <1>3 DEF Screen
    <3>. QED BY <1>0, <3>1, EndShows
  <2>3. f.kind = "cancelled" => lastCancel >= f.q
    BY <1>0, <1>3
  <2>4. Orderly(more, lastCancel)
    <3>1. Orderly(shown, lastCancel)
      BY DEF Screen
    <3>. QED BY <1>0, <2>2, <2>3, <3>1, OrderGoesOn
  <2>5. NotOver(shown, q) /\ Collected(shown, q) = Sent(answer[q], delivered)
    BY <1>1, <1>3 DEF Screen
  <2>6. f.kind = "done" => Exact(answer[q], Collected(shown, q))
    <3>1. ASSUME f.kind = "done" PROVE Exact(answer[q], Collected(shown, q))
      <4>1. IsText(answer[q]) /\ Split(answer[q]) \in Seq(Nat \X Nat)
        BY AnswerTypes
      <4>2. Sent(answer[q], delivered) = Split(answer[q])
        BY <3>1, <4>1, AllSent DEF Sent
      <4>3. Exact(answer[q], Split(answer[q]))
        BY <4>1, SplitIsExact
      <4>. QED BY <2>5, <4>2, <4>3
    <3>. QED BY <3>1
  <2>7. ASSUME NEW i \in Questions PROVE About(more, i, q, answer[i], stored[i], refused)
    <3>1. About(shown, i, q, answer[i], stored[i], refused)
      BY DEF Screen
    <3>2. i = q => /\ NotOver(shown, i)
                   /\ i \in refused \/ stored[i] = Trim(answer[i], Collected(shown, i))
                   /\ f.kind = "done" => Exact(answer[i], Collected(shown, i))
      BY <2>5, <2>6
    <3>. DEFINE text == answer[i]
                turn == stored[i]
    <3>. HIDE DEF text, turn
    <3>3. About(more, i, q, text, turn, refused)
      BY <1>0, <3>1, <3>2, AboutEnds DEF text, turn
    <3>. QED BY <3>3 DEF text, turn
  <2>. HIDE DEF more
  <2>. QED BY <1>1, <2>1, <2>2, <2>4, <2>7 DEF Screen
<1>. QED BY <1>2, <1>3

LEMMA StopBeforeAnswerKeeps == IInv /\ StopBeforeAnswer => IInv'
<1>. SUFFICES ASSUME IInv, StopBeforeAnswer PROVE IInv'
  OBVIOUS
<1>0. Types /\ Cancels(set, q, lastCancel, here, stopped) /\ Place /\ Screen
  BY DEF IInv
<1>. DEFINE f == Frame(q, "cancelled")
<1>1. q \in set /\ \E from \in {"planned", "grounded"} : Step(from, <<f>>, "ending")
  BY DEF StopBeforeAnswer
<1>2. task \in {"planned", "grounded"} /\ "cancelled" \in Kinds
  BY <1>1 DEF Step, Kinds
<1>3. q \in Questions /\ f \in ShownFrames /\ f.q = q /\ f.kind = "cancelled"
  BY <1>0, <1>2, TaskFrames
<1>. HIDE DEF f
<1>4. task' = "ending" /\ Says(f) /\ shown' \in Seq(ShownFrames) /\ Still
  BY <1>0, <1>1, <1>3, StepSays DEF Still
<1>5. UNCHANGED <<answer, delivered, stopped, writing, stored, refused>>
  BY DEF StopBeforeAnswer, storevars
<1>6. /\ Queue(inbox', shown', q', asked', lastCancel')
      /\ UNCHANGED <<here, asked, others, lastCancel, inbox, conn, event, set, q>>
  BY <1>3, <1>4, TaskQueue
<1>7. Types'
  BY <1>0, <1>3, <1>4, <1>5, <1>6 DEF Types
<1>8. Cancels(set', q', lastCancel', here', stopped')
  BY <1>0, <1>5, <1>6
<1>p. /\ task # "none" /\ task \in Early /\ task \in Busy \ {"storing"} /\ task # "storing" /\ task' \notin Busy
      /\ task' \notin Late /\ task' \notin Early /\ task' \notin {"sending", "delivered", "storing"}
  BY <1>2, <1>4 DEF Early, Busy, Late
<1>9. Place'
  BY <1>0, <1>5, <1>6, <1>p DEF Place
<1>10. stored[q] = Trim(answer[q], Sent(answer[q], delivered))
  <2>1. stored[q] = <<>> /\ delivered = 0
    BY <1>0, <1>p DEF Place
  <2>2. Sent(answer[q], 0) = <<>>
    BY <1>0, <1>3, AnswerTypes, NothingSent DEF Sent
  <2>. QED BY <2>1, <2>2 DEF Trim
<1>11. q <= lastCancel
  BY <1>0, <1>1 DEF Cancels
<1>12. CASE writing = {}
  <2>1. Screen'
    BY <1>0, <1>2, <1>3, <1>4, <1>5, <1>6, <1>10, <1>11, <1>12, EndScreen
  <2>. QED BY <1>6, <1>7, <1>8, <1>9, <2>1 DEF IInv
<1>13. CASE writing # {}
  <2>1. conn = "closed" /\ conn = "open"
    BY <1>0, <1>2, <1>13, <1>p DEF Place
  <2>. QED BY <2>1
<1>. QED BY <1>12, <1>13

\* A step of the delivery that says nothing: the client sees no difference.
LEMMA DeliveryScreen ==
  ASSUME Types, Screen, task \in Late, task' \in Late, shown' = shown,
         UNCHANGED <<here, lastCancel, q, answer, delivered, stored, refused>>
  PROVE  Screen'
<1>1. task \in Busy /\ task \notin {"invalid", "new", "none", "ending"} /\ task' \in Busy
      /\ task' \notin {"invalid", "new", "none", "ending"}
  BY DEF Busy, Early, Late
<1>2. LastKinds(task) = LastKinds(task')
  BY PlaceFacts
<1>3. Showing(shown, task, q) => Showing(shown, task', q)
  BY <1>1, <1>2 DEF Showing
<1>. QED BY <1>1, <1>3 DEF Screen

LEMMA CompleteReturnsKeeps == IInv /\ CompleteReturns => IInv'
<1>. SUFFICES ASSUME IInv, CompleteReturns PROVE IInv'
  OBVIOUS
<1>0. Types /\ Cancels(set, q, lastCancel, here, stopped) /\ Place /\ Screen
  BY DEF IInv
<1>1. task = "generating" /\ task' = "delivering" /\ shown' = shown /\ Still
  BY <1>0, StepIsQuiet DEF CompleteReturns, Still
<1>2. PICK text \in Answers[q] : answer' = [answer EXCEPT ![q] = text]
  BY DEF CompleteReturns
<1>3. UNCHANGED <<delivered, stopped, writing, stored, refused>>
  BY DEF CompleteReturns, storevars
<1>4. /\ Queue(inbox', shown', q', asked', lastCancel')
      /\ UNCHANGED <<here, asked, others, lastCancel, inbox, conn, event, set, q>>
  BY <1>1, TaskQueue
<1>5. q \in Questions /\ IsText(text)
  <2>1. q \in Questions
    BY <1>0, <1>1 DEF Types
  <2>. QED BY <2>1, AnswersAssumption
<1>p. /\ task \in Busy \ {"storing"} /\ task \in Busy /\ task # "storing" /\ task # "none" /\ task \in Early
      /\ task' \in Busy \ {"storing"} /\ task' \notin Early /\ task' \notin {"sending", "delivered", "storing"}
      /\ task' \in Late /\ task' \in Busy \cup {"none", "ending"}
  BY <1>1 DEF Early, Busy, Late
<1>6. /\ answer' = [i \in Questions |-> answer'[i]] /\ \A i \in Questions : IsText(answer'[i])
      /\ answer'[q] = text /\ \A i \in Questions : i # q => answer'[i] = answer[i]
  <2>. DEFINE old == answer
  <2>1. old = [i \in Questions |-> old[i]] /\ \A i \in Questions : IsText(old[i])
    BY <1>0 DEF Types
  <2>2. answer' = [old EXCEPT ![q] = text]
    BY <1>2
  <2>. HIDE DEF old
  <2>3. answer' = [i \in Questions |-> IF i = q THEN text ELSE old[i]]
    BY <2>1, <2>2
  <2>4. answer' = [i \in Questions |-> answer'[i]]
    BY <2>3
  <2>5. \A i \in Questions : answer'[i] = IF i = q THEN text ELSE old[i]
    BY <2>3
  <2>. QED BY <1>5, <2>1, <2>4, <2>5 DEF old
<1>7. Types'
  BY <1>0, <1>1, <1>3, <1>4, <1>5, <1>6, <1>p DEF Types
<1>8. Cancels(set', q', lastCancel', here', stopped')
  BY <1>0, <1>3, <1>4
<1>9. delivered = 0 /\ Split(text) \in Seq(Nat \X Nat) /\ Len(Split(text)) \in Nat /\ 0 <= Len(Split(text))
  <2>1. delivered = 0
    BY <1>0, <1>p DEF Place
  <2>2. Split(text) \in Seq(Nat \X Nat)
    BY <1>5, SplitIsSpans
  <2>. QED BY <2>1, <2>2
<1>10. Place'
  BY <1>0, <1>3, <1>4, <1>6, <1>9, <1>p DEF Place
<1>11. Screen'
  <2>1. here => Showing(shown, task', q)
    <3>1. here => AllEndedBut(shown, {q}) /\ LastIs(shown, q, {"retrieving", "citations", "generating"})
      BY <1>0, <1>1, <1>p, PlaceFacts DEF Screen, Showing
    <3>2. here => LastIs(shown, q, {"retrieving", "citations", "generating", "delta"})
      BY <3>1, LastWidens
    <3>3. task' \notin {"none", "ending", "invalid", "new"} /\ LastKinds(task') = {"retrieving", "citations", "generating", "delta"}
      BY <1>1, <1>p, PlaceFacts
    <3>. QED BY <3>1, <3>2, <3>3 DEF Showing
  <2>2. NotOver(shown, q)
    BY <1>0, <1>p DEF Screen
  <2>3. here => Collected(shown, q) = Sent(text, 0)
    <3>1. here => Collected(shown, q) = Sent(answer[q], 0)
      BY <1>0, <1>9, <1>p DEF Screen
    <3>2. Sent(answer[q], 0) = <<>> /\ Sent(text, 0) = <<>>
      BY <1>0, <1>5, <1>9, AnswerTypes, NothingSent DEF Sent
    <3>. QED BY <3>1, <3>2
  <2>4. ASSUME NEW i \in Questions PROVE About(shown, i, q, answer'[i], stored[i], refused)
    <3>1. About(shown, i, q, answer[i], stored[i], refused)
      BY <1>0 DEF Screen
    <3>2. NotOver(shown, i) \/ answer'[i] = answer[i]
      BY <1>6, <2>2
    <3>. DEFINE t1 == answer[i]
                t2 == answer'[i]
                turn == stored[i]
    <3>. HIDE DEF t1, t2, turn
    <3>3. About(shown, i, q, t2, turn, refused)
      <4>1. About(shown, i, q, t1, turn, refused)
        BY <3>1 DEF t1, turn
      <4>2. NotOver(shown, i) \/ (t2 = t1 /\ turn = turn /\ refused \subseteq refused)
        BY <3>2 DEF t1, t2
      <4>. QED BY <4>1, <4>2, AboutChanges
    <3>. QED BY <3>3 DEF t2, turn
  <2>5. Orderly(shown, lastCancel)
    BY <1>0 DEF Screen
  <2>. QED BY <1>1, <1>3, <1>4, <1>6, <1>9, <2>1, <2>2, <2>3, <2>4, <2>5 DEF Screen
<1>. QED BY <1>4, <1>7, <1>8, <1>10, <1>11 DEF IInv

\* The steps between deliveries: the loop is stopped, goes on, or is through.
LEMMA DeliveryKeeps ==
  ASSUME IInv, StopDelivery \/ PrepareDelta \/ SendFails \/ FinishDelivery
  PROVE  IInv'
<1>0. Types /\ Cancels(set, q, lastCancel, here, stopped) /\ Place /\ Screen
  BY DEF IInv
<1>1. task \in {"delivering", "sending"} /\ task' \in {"sending", "delivered"} /\ shown' = shown /\ Still
  BY <1>0, StepIsQuiet DEF StopDelivery, PrepareDelta, SendFails, FinishDelivery, Still
<1>2. UNCHANGED <<answer, delivered, writing, stored, refused>>
  BY DEF StopDelivery, PrepareDelta, SendFails, FinishDelivery, storevars
<1>3. /\ task' = "sending" => delivered < Len(Split(answer[q]))
      /\ task' = "delivered" /\ ~stopped' => delivered = Len(Split(answer[q]))
      /\ stopped' \in BOOLEAN
  <2>1. CASE StopDelivery
    BY <2>1 DEF StopDelivery, Step
  <2>2. CASE PrepareDelta
    BY <1>0, <2>2 DEF PrepareDelta, Step, Deltas, Types
  <2>3. CASE SendFails
    BY <2>3 DEF SendFails, Step
  <2>4. CASE FinishDelivery
    BY <1>0, <2>4 DEF FinishDelivery, Step, Deltas, Types
  <2>. QED BY <2>1, <2>2, <2>3, <2>4
<1>4. /\ Queue(inbox', shown', q', asked', lastCancel')
      /\ UNCHANGED <<here, asked, others, lastCancel, inbox, conn, event, set, q>>
  BY <1>1, TaskQueue
<1>p. /\ task \in Late /\ task # "storing" /\ task # "none" /\ task \in Busy \ {"storing"}
      /\ task' \in Late /\ task' \notin Early /\ task' # "storing" /\ task' # "none"
      /\ task' \in Busy \cup {"none", "ending"}
  BY <1>1 DEF Late, Early, Busy
<1>5. Types'
  <2>1. q \in Questions
    BY <1>0, <1>p DEF Types
  <2>. QED BY <1>0, <1>1, <1>2, <1>3, <1>4, <1>p, <2>1 DEF Types
<1>6. Cancels(set, q, lastCancel, here, stopped')
  <2>1. stopped' /\ here => stopped \/ q \in set
    BY DEF StopDelivery, PrepareDelta, SendFails, FinishDelivery
  <2>. QED BY <1>0, <2>1 DEF Cancels
<1>7. Place'
  BY <1>0, <1>1, <1>2, <1>3, <1>4, <1>p DEF Place
<1>8. Screen'
  BY <1>0, <1>1, <1>2, <1>4, <1>p, DeliveryScreen
<1>. QED BY <1>4, <1>5, <1>6, <1>7, <1>8 DEF IInv

LEMMA SendDeltaKeeps == IInv /\ SendDelta => IInv'
<1>. SUFFICES ASSUME IInv, SendDelta PROVE IInv'
  OBVIOUS
<1>0. Types /\ Cancels(set, q, lastCancel, here, stopped) /\ Place /\ Screen
  BY DEF IInv
<1>. DEFINE d == Split(answer[q])
            f == Delta(q, d[delivered + 1])
<1>1. task = "sending" /\ Step("sending", <<f>>, "delivering") /\ delivered' = delivered + 1
  BY DEF SendDelta, Deltas
<1>2. q \in Questions
  BY <1>0, <1>1 DEF Types
<1>3. d \in Seq(Nat \X Nat) /\ delivered \in Nat /\ delivered < Len(d) /\ Len(d) \in Nat
  BY <1>0, <1>1, <1>2, AnswerTypes DEF Place, Types
<1>4. d[delivered + 1] \in Nat \X Nat
  <2>. HIDE DEF d
  <2>1. delivered + 1 \in 1..Len(d)
    BY <1>3
  <2>. QED BY <1>3, <2>1
<1>5. f \in ShownFrames /\ f.q = q /\ f.kind = "delta" /\ f.text = d[delivered + 1]
  <2>. HIDE DEF d
  <2>. QED BY <1>2, <1>4, QuestionTypes, FramesAreFrames
<1>. HIDE DEF f
<1>6. task' = "delivering" /\ Says(f) /\ shown' \in Seq(ShownFrames) /\ Still
  BY <1>0, <1>1, <1>5, StepSays DEF Still
<1>7. UNCHANGED <<answer, stopped, writing, stored, refused>>
  BY DEF SendDelta, storevars
<1>8. /\ Queue(inbox', shown', q', asked', lastCancel')
      /\ UNCHANGED <<here, asked, others, lastCancel, inbox, conn, event, set, q>>
  BY <1>5, <1>6, TaskQueue
<1>p. /\ task \in Late /\ task # "storing" /\ task # "none" /\ task \in Busy \ {"storing"} /\ task \in Busy
      /\ task' \in Late /\ task' \notin Early /\ task' \notin {"sending", "delivered", "storing"}
      /\ task' \in Busy /\ task' \notin {"invalid", "new", "none", "ending"}
      /\ task \notin {"invalid", "new", "none", "ending"}
  BY <1>1, <1>6 DEF Late, Early, Busy
<1>9. Types'
  <2>1. delivered' \in Nat
    BY <1>1, <1>3
  <2>. QED BY <1>0, <1>2, <1>6, <1>7, <1>8, <1>p, <2>1 DEF Types
<1>10. Cancels(set', q', lastCancel', here', stopped')
  BY <1>0, <1>7, <1>8
<1>11. Place'
  <2>1. delivered' <= Len(d)
    <3>. HIDE DEF d
    <3>. QED BY <1>1, <1>3
  <2>. QED BY <1>0, <1>7, <1>8, <1>p, <2>1 DEF Place
<1>12. Screen'
  <2>1. NotOver(shown, q) /\ Orderly(shown, lastCancel)
    BY <1>0, <1>p DEF Screen
  <2>2. CASE ~ here
    <3>1. shown' = shown
      BY <1>6, <2>2 DEF Says
    <3>. QED BY <1>0, <1>7, <1>8, <1>p, <2>1, <2>2, <3>1 DEF Screen
  <2>3. CASE here
    <3>. DEFINE more == Append(shown, f)
    <3>1. shown' = more
      BY <1>6, <2>3 DEF Says
    <3>n. shown \in Seq(ShownFrames) /\ q \in Nat
      BY <1>0, Numbers
    <3>2. AllEndedBut(shown, {q}) /\ LastIs(shown, q, LastKinds(task))
      BY <1>0, <1>p, <2>3 DEF Screen, Showing
    <3>3. \A kind \in LastKinds(task) : f.kind \in MayFollow(kind)
      BY <1>5, <1>p, FollowFacts, PlaceFacts
    <3>4. MayCome(shown, f)
      BY <1>5, <3>2, <3>3 DEF MayCome
    <3>5. Orderly(more, lastCancel)
      BY <1>5, <2>1, <3>n, <3>4, OrderGoesOn
    <3>6. NotOver(more, q)
      BY <1>5, <2>1, <3>n, LastMoves
    <3>7. Showing(more, task', q)
      <4>1. LastIs(more, q, LastKinds(task'))
        <5>1. f.kind \in LastKinds(task')
          BY <1>5, <1>p, PlaceFacts
        <5>. QED BY <1>5, <3>n, <5>1, LastMoves
      <4>2. AllEndedBut(more, {q})
        BY <1>5, <3>n, <3>2, EndedMoves
      <4>. QED BY <1>p, <4>1, <4>2 DEF Showing
    <3>8. Collected(more, q) = Sent(answer[q], delivered + 1)
      <4>1. Collected(shown, q) = SubSeq(d, 1, delivered)
        BY <1>0, <1>p, <2>3 DEF Screen, Sent
      <4>2. Collected(more, q) = Append(Collected(shown, q), f.text)
        BY <1>5, <3>n, CollectedDelta
      <4>3. SubSeq(d, 1, delivered + 1) = Append(SubSeq(d, 1, delivered), d[delivered + 1])
        <5>. HIDE DEF d
        <5>. QED BY <1>3, OneMore
      <4>. QED BY <1>5, <4>1, <4>2, <4>3 DEF Sent
    <3>9. \A i \in Questions : About(more, i, q, answer[i], stored[i], refused)
      BY <1>0, <1>5, <2>1, <3>n, AboutGoesOn DEF Screen
    <3>. HIDE DEF more, d
    <3>. QED BY <1>1, <1>7, <1>8, <3>1, <3>5, <3>6, <3>7, <3>8, <3>9 DEF Screen
  <2>. QED BY <2>2, <2>3
<1>. QED BY <1>8, <1>9, <1>10, <1>11, <1>12 DEF IInv

LEMMA StartStoringKeeps == IInv /\ StartStoring => IInv'
<1>. SUFFICES ASSUME IInv, StartStoring PROVE IInv'
  OBVIOUS
<1>0. Types /\ Cancels(set, q, lastCancel, here, stopped) /\ Place /\ Screen
  BY DEF IInv
<1>1. task = "delivered" /\ task' = "storing" /\ shown' = shown /\ Still
  BY <1>0, StepIsQuiet DEF StartStoring, Still
<1>2. UNCHANGED <<answer, delivered, stopped, stored, refused>> /\ writing' = {q}
  BY DEF StartStoring
<1>3. /\ Queue(inbox', shown', q', asked', lastCancel')
      /\ UNCHANGED <<here, asked, others, lastCancel, inbox, conn, event, set, q>>
  BY <1>1, TaskQueue
<1>p. task \in Late /\ task' \in Late /\ task \in Busy \ {"storing"} /\ task' \notin Early
      /\ task' \in Busy \cup {"none", "ending"}
  BY <1>1 DEF Late, Early, Busy
<1>4. Types'
  BY <1>0, <1>1, <1>2, <1>3, <1>p DEF Types
<1>5. Cancels(set', q', lastCancel', here', stopped')
  BY <1>0, <1>2, <1>3
<1>6. Place'
  BY <1>0, <1>1, <1>2, <1>3, <1>p DEF Place
<1>7. Screen'
  BY <1>0, <1>1, <1>2, <1>3, <1>p, DeliveryScreen
<1>. QED BY <1>3, <1>4, <1>5, <1>6, <1>7 DEF IInv

LEMMA SendTerminalKeeps == IInv /\ SendTerminal => IInv'
<1>. SUFFICES ASSUME IInv, SendTerminal PROVE IInv'
  OBVIOUS
<1>0. Types /\ Cancels(set, q, lastCancel, here, stopped) /\ Place /\ Screen
  BY DEF IInv
<1>. DEFINE f == Frame(q, Terminal)
<1>1. writing = {} /\ Step("storing", <<f>>, "ending")
  BY DEF SendTerminal
<1>2. task = "storing"
  BY <1>1 DEF Step
<1>t. Terminal \in Kinds /\ Terminal \in {"done", "cancelled"} /\ (Terminal = "done" <=> ~stopped)
  BY <1>0 DEF Terminal, Kinds, Types
<1>3. q \in Questions /\ f \in ShownFrames /\ f.q = q /\ f.kind = Terminal
  BY <1>0, <1>2, <1>t, TaskFrames
<1>. HIDE DEF f
<1>4. task' = "ending" /\ Says(f) /\ shown' \in Seq(ShownFrames) /\ Still
  BY <1>0, <1>1, <1>3, StepSays DEF Still
<1>5. UNCHANGED <<answer, delivered, stopped, writing, stored, refused>>
  BY DEF SendTerminal, storevars
<1>6. /\ Queue(inbox', shown', q', asked', lastCancel')
      /\ UNCHANGED <<here, asked, others, lastCancel, inbox, conn, event, set, q>>
  BY <1>3, <1>4, TaskQueue
<1>p. /\ task \in Late /\ task # "none" /\ task' \notin Busy /\ task' \notin Late /\ task' \notin Early
      /\ task' \notin {"sending", "delivered", "storing"}
  BY <1>2, <1>4 DEF Busy, Early, Late
<1>7. Types'
  BY <1>0, <1>3, <1>4, <1>5, <1>6 DEF Types
<1>8. Cancels(set', q', lastCancel', here', stopped')
  BY <1>0, <1>5, <1>6
<1>9. Place'
  BY <1>0, <1>1, <1>5, <1>6, <1>p DEF Place
<1>10. q \in refused \/ stored[q] = Trim(answer[q], Sent(answer[q], delivered))
  BY <1>0, <1>1, <1>2 DEF Place
<1>11. f.kind = "done" => task \in Late /\ delivered = Len(Split(answer[q]))
  BY <1>0, <1>2, <1>3, <1>p, <1>t DEF Place
<1>12. f.kind = "cancelled" /\ here => q <= lastCancel
  BY <1>0, <1>3, <1>t DEF Cancels
<1>13. Screen'
  BY <1>0, <1>1, <1>3, <1>4, <1>5, <1>6, <1>10, <1>11, <1>12, <1>p, <1>t, EndScreen
<1>. QED BY <1>6, <1>7, <1>8, <1>9, <1>13 DEF IInv

-----------------------------------------------------------------------------
(* The history, and every step together                                     *)

LEMMA StoreKeeps == IInv /\ Store => IInv'
<1>. SUFFICES ASSUME IInv, Store PROVE IInv'
  OBVIOUS
<1>0. /\ Types /\ Queue(inbox, shown, q, asked, lastCancel)
      /\ Cancels(set, q, lastCancel, here, stopped) /\ Place /\ Screen
  BY DEF IInv
<1>. DEFINE text == answer[q]
            turn == Sent(text, delivered)
<1>1. /\ writing # {} /\ writing' = {}
      /\ UNCHANGED <<here, asked, others, lastCancel, shown, inbox, conn, event, set,
                     task, q, answer, delivered, stopped>>
  BY DEF Store, clientvars, taskvars
<1>2. \/ Blank(text, turn) /\ stored' = stored /\ refused' = refused
      \/ ~ Blank(text, turn) /\ stored' = [stored EXCEPT ![q] = turn] /\ refused' = refused
      \/ stored' = stored /\ refused' = refused \cup {q}
  BY DEF Store, Deltas, Sent
<1>3. q \in Questions /\ stored[q] = <<>> /\ NotOver(shown, q) /\ (task = "storing" \/ task = "none")
  BY <1>0, <1>1 DEF Types, Place, Screen
<1>4. turn \in Seq(Nat \X Nat)
  <2>1. Split(answer[q]) \in Seq(Nat \X Nat) /\ Len(Split(answer[q])) \in Nat /\ delivered \in Nat
    BY <1>0, <1>3, AnswerTypes DEF Types
  <2>. DEFINE d == Split(answer[q])
  <2>2. d \in Seq(Nat \X Nat)
    BY <2>1
  <2>3. turn = SubSeq(d, 1, delivered)
    BY DEF Sent
  <2>4. delivered <= Len(d)
    BY <1>0, <1>1 DEF Place
  <2>. HIDE DEF d, turn
  <2>. QED BY <2>1, <2>2, <2>3, <2>4, SubSeqProperties
<1>. HIDE DEF text, turn
<1>5. /\ stored' \in [Questions -> Seq(Nat \X Nat)] /\ refused' \in SUBSET Questions
      /\ \A i \in Questions : i # q => stored'[i] = stored[i]
      /\ refused \subseteq refused' /\ (q \in refused' \/ stored'[q] = Trim(text, turn))
  <2>1. stored \in [Questions -> Seq(Nat \X Nat)] /\ refused \in SUBSET Questions
    BY <1>0 DEF Types
  <2>2. CASE Blank(text, turn) /\ stored' = stored /\ refused' = refused
    BY <1>3, <2>1, <2>2 DEF Trim
  <2>3. CASE ~ Blank(text, turn) /\ stored' = [stored EXCEPT ![q] = turn] /\ refused' = refused
    <3>. DEFINE new == [stored EXCEPT ![q] = turn]
    <3>1. new \in [Questions -> Seq(Nat \X Nat)] /\ new[q] = turn
          /\ \A i \in Questions : i # q => new[i] = stored[i]
      BY <1>3, <1>4, <2>1
    <3>2. Trim(text, turn) = turn
      BY <2>3 DEF Trim
    <3>3. stored' = new /\ refused' = refused
      BY <2>3
    <3>. HIDE DEF new
    <3>. QED BY <2>1, <3>1, <3>2, <3>3
  <2>4. CASE stored' = stored /\ refused' = refused \cup {q}
    BY <1>3, <2>1, <2>4
  <2>. QED BY <1>2, <2>2, <2>3, <2>4
<1>6. Types'
  BY <1>0, <1>1, <1>3, <1>5 DEF Types
<1>7. Place'
  <2>1. task \notin Busy \ {"storing"}
    BY <1>3 DEF Busy, Early, Late
  <2>2. \A i \in Questions : i > q => i # q
    BY <1>3, QuestionTypes
  <2>3. \A i \in Questions : i > q => stored'[i] = <<>>
    BY <1>0, <1>5, <2>2 DEF Place
  <2>4. q \notin refused' => stored'[q] = Trim(answer[q], Sent(answer[q], delivered))
    BY <1>5 DEF text, turn
  <2>. QED BY <1>0, <1>1, <2>1, <2>3, <2>4 DEF Place
<1>8. Screen'
  <2>1. ASSUME NEW i \in Questions PROVE About(shown, i, q, answer[i], stored'[i], refused')
    <3>1. About(shown, i, q, answer[i], stored[i], refused)
      BY <1>0 DEF Screen
    <3>2. NotOver(shown, i) \/ (stored'[i] = stored[i] /\ refused \subseteq refused')
      BY <1>3, <1>5
    <3>. DEFINE t == answer[i]
                t1 == stored[i]
                t2 == stored'[i]
                r2 == refused'
    <3>3. About(shown, i, q, t, t1, refused)
      BY <3>1
    <3>4. NotOver(shown, i) \/ (t = t /\ t2 = t1 /\ refused \subseteq r2)
      BY <3>2
    <3>. HIDE DEF t, t1, t2, r2
    <3>5. About(shown, i, q, t, t2, r2)
      BY <3>3, <3>4, AboutChanges
    <3>. QED BY <3>5 DEF t, t2, r2
  <2>. QED BY <1>0, <1>1, <2>1 DEF Screen
<1>. QED BY <1>0, <1>1, <1>6, <1>7, <1>8 DEF IInv

LEMMA NextKeeps == IInv /\ [Next]_vars => IInv'
<1>. SUFFICES ASSUME IInv, [Next]_vars PROVE IInv'
  OBVIOUS
<1>0. Types
  BY DEF IInv
<1>1. CASE Client
  BY <1>1, ClientKeeps
<1>2. CASE Opening
  BY <1>2, OpeningKeeps
<1>3. CASE Loop
  BY <1>3, ReceiveCancelKeeps, OpeningKeeps, ReceiveAskBusyKeeps, ReceiveAskKeeps, ReceiveNothingKeeps DEF Loop
<1>4. CASE RejectAsk \/ AcceptAsk \/ PlanFails \/ PlanReturns \/ StartAnswer \/ CompleteFails \/ TaskEnds
  <2>1. (StageStep \/ SilentStep) /\ shown' \in Seq(ShownFrames)
    BY <1>0, <1>4, StageSteps
  <2>. QED BY <2>1, StageStepKeeps, SilentStepKeeps
<1>5. CASE StopDelivery \/ PrepareDelta \/ SendFails \/ FinishDelivery
  BY <1>5, DeliveryKeeps
<1>6. CASE StopBeforeAnswer \/ CompleteReturns \/ SendDelta \/ StartStoring \/ SendTerminal
  BY <1>6, StopBeforeAnswerKeeps, CompleteReturnsKeeps, SendDeltaKeeps, StartStoringKeeps, SendTerminalKeeps
<1>7. CASE Store
  BY <1>7, StoreKeeps
<1>8. CASE UNCHANGED vars
  BY <1>8 DEF vars, IInv, Types, Place, Screen
<1>. QED BY <1>1, <1>2, <1>3, <1>4, <1>5, <1>6, <1>7, <1>8 DEF Next, Task

LEMMA Invariance == Spec => []IInv
BY InitIInv, NextKeeps, PTL DEF Spec

-----------------------------------------------------------------------------
(* The theorems                                                             *)

\* The state has its types; in particular what was delivered is never more
\* than the answer has frames, and the thread that stores writes the turn of
\* the current question or none.
THEOREM TypeCorrect == Spec => []TypeOK
<1>1. IInv => TypeOK
  <2>. SUFFICES ASSUME IInv PROVE TypeOK
    OBVIOUS
  <2>0. Types /\ Place
    BY DEF IInv
  <2>1. \A k \in DOMAIN shown : shown[k].q \in 0..NumQuestions /\ shown[k].kind \in Kinds
    <3>1. shown \in Seq(ShownFrames)
      BY <2>0 DEF Types
    <3>2. \A k \in DOMAIN shown : shown[k] \in ShownFrames
      BY <3>1
    <3>. QED BY <3>2, FrameTypes
  <2>2. \A k \in DOMAIN inbox : inbox[k].kind \in {"auth", "ask", "badask", "cancel", "other"}
    <3>1. inbox \in Seq(Inputs)
      BY <2>0 DEF Types
    <3>2. \A k \in DOMAIN inbox : inbox[k] \in Inputs
      BY <3>1
    <3>. QED BY <3>2, InputTypes
  <2>3. task \in Late => delivered \in 0..Len(Deltas)
    <3>. SUFFICES ASSUME task \in Late PROVE delivered \in 0..Len(Deltas)
      OBVIOUS
    <3>1. q \in Questions
      BY <2>0 DEF Types, Late
    <3>2. Len(Split(answer[q])) \in Nat /\ delivered \in Nat
      BY <2>0, <3>1, AnswerTypes DEF Types
    <3>3. delivered <= Len(Split(answer[q]))
      BY <2>0 DEF Place
    <3>. QED BY <3>2, <3>3 DEF Deltas
  <2>. QED BY <2>0, <2>1, <2>2, <2>3 DEF TypeOK, Types, Busy, Early, Late
<1>. QED BY <1>1, Invariance, PTL

\* The frames of a question follow the stages the protocol documents, and
\* nothing comes after the one that ends it (_handle_ask).
THEOREM StagesAreFollowed == Spec => []FramesFollowTheProtocol
<1>1. IInv => FramesFollowTheProtocol
  BY DEF IInv, Screen, Orderly, FollowsProtocol, FramesFollowTheProtocol
<1>. QED BY <1>1, Invariance, PTL

\* From a question's acceptance to its end no other one gets more than a
\* refusal, however many are asked at once (chat_socket).
THEOREM AnswersNeverMix == Spec => []OneAnswerAtATime
<1>1. IInv => OneAnswerAtATime
  BY DEF IInv, Screen, Orderly, OneAtATime, OneAnswerAtATime
<1>. QED BY <1>1, Invariance, PTL

\* A cancel frame never stops a question asked after it was sent: every
\* question has an Event of its own (chat_socket).
THEOREM CancelsDoNotLatch == Spec => []CancelStopsNoLaterQuestion
<1>1. IInv => CancelStopsNoLaterQuestion
  BY DEF IInv, Screen, Orderly, CancelledBy, CancelStopsNoLaterQuestion
<1>. QED BY <1>1, Invariance, PTL

\* When the client is told that an answer ended, the history holds just what it
\* received, or the database refused the write (_handle_ask, persist_chat_turn).
THEOREM TheEndIsStored == Spec => []EndedMeansStored
<1>1. IInv => EndedMeansStored
  <2>. SUFFICES ASSUME IInv, NEW k \in DOMAIN shown, shown[k].kind \in {"done", "cancelled"},
                       shown[k].q \notin refused
                PROVE  stored[shown[k].q] = IF Blank(answer[shown[k].q], Received(shown[k].q)) THEN <<>>
                                            ELSE Received(shown[k].q)
    BY DEF EndedMeansStored
  <2>. DEFINE i == shown[k].q
  <2>1. i \in Questions
    BY DEF IInv, Screen, Orderly, EndsNameQuestions
  <2>2. ~ NotOver(shown, i)
    BY DEF NotOver
  <2>3. About(shown, i, q, answer[i], stored[i], refused)
    BY <2>1 DEF IInv, Screen
  <2>4. stored[i] = Trim(answer[i], Collected(shown, i))
    BY <2>2, <2>3 DEF About, Keeps
  <2>. QED BY <2>4 DEF Trim, Received
<1>. QED BY <1>1, Invariance, PTL

\* "done" is said only of an answer the client has in full: its frames put
\* together are the text, character for character (_handle_ask).
THEOREM DoneMeansAll == Spec => []DoneIsTheWholeAnswer
<1>1. IInv => DoneIsTheWholeAnswer
  <2>. SUFFICES ASSUME IInv, NEW k \in DOMAIN shown, shown[k].kind = "done"
                PROVE  Exact(answer[shown[k].q], Received(shown[k].q))
    BY DEF DoneIsTheWholeAnswer
  <2>. DEFINE i == shown[k].q
  <2>1. i \in Questions
    BY DEF IInv, Screen, Orderly, EndsNameQuestions
  <2>2. ~ NotDone(shown, i)
    BY DEF NotDone
  <2>3. About(shown, i, q, answer[i], stored[i], refused)
    BY <2>1 DEF IInv, Screen
  <2>. QED BY <2>2, <2>3 DEF About, Whole, Received
<1>. QED BY <1>1, Invariance, PTL

=============================================================================
