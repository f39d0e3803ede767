----------------------------- MODULE DeltaSplit -----------------------------
(***************************************************************************)
(* How a finished answer is cut into the frames it is delivered in         *)
(* (split_into_deltas of controllers/chat_ws_controller.py).  All the      *)
(* algorithm sees of a text is its length and where its spaces are; a      *)
(* frame is the pair of positions <<from, to>> it covers, to exclusive.    *)
(***************************************************************************)
EXTENDS Integers, Sequences, FiniteSetsExt

CONSTANTS
  MaxDeltas,      \* MAX_DELTAS
  TargetChars     \* DELTA_TARGET_CHARS

ASSUME DeltasAssumption == MaxDeltas \in Nat \ {0} /\ TargetChars \in Nat \ {0}

\* A text, as far as the algorithm sees it; the texts of a given length, and
\* those of at most a given length.
IsText(text) == /\ text = [len |-> text.len, spaces |-> text.spaces]
                /\ text.len \in Nat /\ text.spaces \subseteq 0..(text.len - 1)
TextsOfLength(n) == {[len |-> n, spaces |-> s] : s \in SUBSET (0..(n - 1))}
TextsUpTo(n) == UNION {TextsOfLength(k) : k \in 0..n}

CeilDiv(a, b) == (a + b - 1) \div b

\* The number of frames the text is cut into at most, decided up front.
Frames(text) == Min({MaxDeltas, Max({1, CeilDiv(text.len, TargetChars)})})

\* Where a frame ends: after an even share of the rest, or else just after the
\* last space that is past the frame's first character and not past that share.
FrameEnd(text, from, remaining) ==
  LET even == Min({from + CeilDiv(text.len - from, remaining), text.len})
      breaks == {i \in text.spaces : from < i /\ i <= even}
  IN  IF even < text.len /\ breaks # {} THEN Max(breaks) + 1 ELSE even

\* Where the loop stands after each of its turns, if it takes as many as were
\* decided; it starts at 0.
Ends(text) ==
  LET n == Frames(text)
      end[k \in 0..n] ==
        IF k = 0 THEN 0
        ELSE LET next[from \in 0..text.len] ==
                   IF from >= text.len THEN text.len ELSE FrameEnd(text, from, n - k + 1)
             IN  next[end[k - 1]]
  IN  end

\* The turns it takes, and the frames: one from each place to the next.
Turns(text) == LET n == Frames(text)
                   end == Ends(text)
               IN  CHOOSE k \in 0..n : /\ k = n \/ end[k] >= text.len
                                       /\ \A j \in 0..(k - 1) : end[j] < text.len
Split(text) == LET end == Ends(text) IN [k \in 1..Turns(text) |-> <<end[k - 1], end[k]>>]

\* The frames put together are the text, none is empty, and they are at most
\* MaxDeltas ("Joining the result must reproduce `text` exactly").
Exact(text, frames) ==
  /\ Len(frames) <= MaxDeltas
  /\ \A k \in DOMAIN frames : frames[k][1] < frames[k][2]
  /\ \A k \in DOMAIN frames : frames[k][1] = IF k = 1 THEN 0 ELSE frames[k - 1][2]
  /\ text.len > 0 => frames # <<>> /\ frames[Len(frames)][2] = text.len
  /\ text.len = 0 => frames = <<>>

\* The text of frames is nothing but white space.
Blank(text, frames) ==
  \A k \in DOMAIN frames : frames[k][1]..(frames[k][2] - 1) \subseteq text.spaces
=============================================================================
