------------------------------ MODULE Chunking ------------------------------
(***************************************************************************)
(* How a document's normalized text becomes passages: src/rag/chunking.py, *)
(* with the page map and the paragraph breaks of src/rag/service.py. A     *)
(* text is a sequence of letters, sentence ends and single spaces; an      *)
(* offset counts from 0 and a span is half-open, as in the code. Each      *)
(* action is one turn of a splitting loop.                                 *)
(***************************************************************************)
EXTENDS Orders, Sequences, SequencesExt

CONSTANTS MinSize, MaxSize,   \* MIN_CHUNK_SIZE and MAX_CHUNK_SIZE
          RawSizes,           \* sizes a client may send
          RawOverlaps,        \* overlaps a client may send
          Texts               \* the normalized texts examined

\* A size of 1 or 2 with the overlap clamped to half of it would let a window begin at
\* the space before the letter the last one began with; MIN_CHUNK_SIZE is 200.
ASSUME ChunkingAssumption ==
  /\ MinSize \in Nat /\ MaxSize \in Nat /\ 3 <= MinSize /\ MinSize <= MaxSize
  /\ RawSizes \subseteq Int /\ RawOverlaps \subseteq Int

\* The one kind of white space a normalized text has.
Blank == " "

\* What _normalize_whitespace leaves: something, without a space at either end or two in a row.
ASSUME TextsAssumption ==
  \A t \in Texts : /\ Len(t) \in Nat \ {0} /\ t[1] # Blank /\ t[Len(t)] # Blank
                   /\ \A i \in 1 .. (Len(t) - 1) : t[i] # Blank \/ t[i + 1] # Blank

VARIABLES text,      \* the document
          config,    \* its normalized IndexingConfig
          breaks,    \* offsets at which its pages or paragraphs begin, 0 left out
          paged,     \* whether those are pages (a PDF) or paragraphs
          spans,     \* the spans made so far
          at,        \* the next unit or page, from 1
          cut        \* the region being split by characters, NoCut outside that loop

chunkVars == <<text, config, breaks, paged, spans, at, cut>>

Strategies == {"character", "sentence", "paragraph", "page"}
NoCut == [from |-> 0, to |-> 0, next |-> -1]

\* normalize_config and _clamp_int: numbers are clamped, never refused.
Clamp(n, low, high) == IF n < low THEN low ELSE IF n > high THEN high ELSE n
NormalizedConfig(strategy, size, overlap) ==
  LET fit == Clamp(size, MinSize, MaxSize)
  IN  [strategy |-> strategy, size |-> fit, overlap |-> Clamp(overlap, 0, fit \div 2)]
Configs == {NormalizedConfig(s, n, o) : s \in Strategies, n \in RawSizes, o \in RawOverlaps}

\* str[i] of the code, and what str.strip() leaves of a region.
Size == Len(text)
Char(i) == text[i + 1]
Solid(from, to) == {i \in from .. (to - 1) : Char(i) # Blank}
Stripped(from, to) == <<Min(Solid(from, to)), Max(Solid(from, to)) + 1>>
WithSpan(from, to) ==
  IF Solid(from, to) = {} THEN spans ELSE Append(spans, Stripped(from, to))

\* _join_pages: one space between two pages, so a page ends before the break's space.
\* Blank pages have no span.
Starts == Ascending({0} \cup breaks)
Regions(gap) == [k \in DOMAIN Starts |->
                   <<Starts[k], IF k = Len(Starts) THEN Size ELSE Starts[k + 1] - gap>>]
Pages == IF paged THEN Regions(1) ELSE << >>

\* _paragraph_units: the recorded breaks or the page starts; without any, no units.
ParagraphUnits == IF breaks = {} THEN << >> ELSE Regions(0)

\* Mutant: what follows the last full stop is lost.
UnitsUpToLastStop ==
  LET ends == {i \in 1 .. Size : Char(i - 1) = "." /\ (i = Size \/ Char(i) = Blank)}
  IN  LET stops == Ascending(ends)
      IN  [k \in DOMAIN stops |-> <<IF k = 1 THEN 0 ELSE stops[k - 1] + 1, stops[k]>>]

\* _sentence_units: a unit ends with a run of stops before a space or the end, and
\* the next begins after the space. The tail without a stop is a unit of its own.
SentenceUnits ==
  LET ends  == {i \in 1 .. Size : Char(i - 1) = "." /\ (i = Size \/ Char(i) = Blank)}
      stops == Ascending(ends \cup {Size})
  IN  [k \in DOMAIN stops |-> <<IF k = 1 THEN 0 ELSE stops[k - 1] + 1, stops[k]>>]

\* split_spans: a strategy whose structure is not known gives way to one that needs none.
Effective ==
  IF config.strategy = "page" /\ ~paged THEN "character"
  ELSE IF config.strategy = "paragraph" /\ ParagraphUnits = << >> THEN "sentence"
  ELSE config.strategy
Units == IF Effective = "paragraph" THEN ParagraphUnits ELSE SentenceUnits

ChunkIdle == /\ text = << >> /\ config = NormalizedConfig("character", MinSize, 0) /\ breaks = {}
             /\ paged = FALSE /\ spans = << >> /\ at = 0 /\ cut = NoCut

\* Pages and paragraphs begin after a space.
ChunkInit ==
  /\ text \in Texts /\ config \in Configs /\ spans = << >> /\ at = 1
  /\ paged \in BOOLEAN
  /\ breaks \in SUBSET {i \in 1 .. (Len(text) - 1) : text[i] = Blank}
  \* structure a strategy does not read is left out
  /\ config.strategy \in {"character", "sentence"} => breaks = {} /\ ~paged
  /\ cut = IF Effective = "character" THEN [from |-> 0, to |-> Size, next |-> 0] ELSE NoCut

\* Where a window of _split_by_characters ends: at the last ". " past its middle, or
\* where the budget does.
WindowEnd(start, to) ==
  LET end   == Min({start + config.size, to})
      stops == {i \in start .. (end - 2) : Char(i) = "." /\ Char(i + 1) = Blank}
  IN  IF end < to /\ stops # {} /\ Max(stops) > start + config.size \div 2
      THEN Max(stops) + 1 ELSE end

\* One turn of _split_by_characters over its region; a region within the budget is one
\* chunk as it is.
CutWindow ==
  LET whole == cut.next = cut.from /\ cut.to - cut.from <= config.size
      end   == IF whole THEN cut.to ELSE WindowEnd(cut.next, cut.to)
  IN  /\ cut # NoCut
      /\ spans' = WithSpan(cut.next, end)
      /\ cut' = IF end >= cut.to THEN NoCut ELSE [cut EXCEPT !.next = Max({cut.from, end - config.overlap})]
      /\ UNCHANGED <<text, config, breaks, paged, at>>

\* A region that fits is a chunk; a longer one goes to the character splitter.
Emit(from, to) ==
  LET piece == Stripped(from, to)
  IN  IF Solid(from, to) # {} /\ piece[2] - piece[1] > config.size
      THEN /\ cut' = [from |-> piece[1], to |-> piece[2], next |-> piece[1]]
           /\ UNCHANGED spans
      ELSE /\ spans' = WithSpan(from, to)
           /\ UNCHANGED cut

\* One page of _split_by_pages.
SplitPage ==
  /\ Effective = "page" /\ cut = NoCut /\ at \in DOMAIN Pages
  /\ Emit(Pages[at][1], Pages[at][2])
  /\ at' = at + 1
  /\ UNCHANGED <<text, config, breaks, paged>>

\* The units _pack puts in the chunk that begins with unit k: as many as fit, one at least.
LastFitting(k) ==
  LET over == {j \in (k + 1) .. Len(Units) : Units[j][2] - Units[k][1] > config.size}
  IN  IF over = {} THEN Len(Units) ELSE Min(over) - 1

\* Where the next chunk begins: as many whole units back as the overlap asks for, and
\* always past the one this chunk began with.
NextUnit(k, last) ==
  LET enough == {j \in (k + 1) .. last : Units[last][2] - Units[j][1] >= config.overlap}
  IN  IF config.overlap = 0 \/ last = k THEN last + 1
      ELSE IF enough = {} THEN k + 1 ELSE Max(enough)

\* One turn of _pack.
PackUnits ==
  /\ Effective \in {"sentence", "paragraph"} /\ cut = NoCut /\ at \in DOMAIN Units
  /\ LET last == LastFitting(at)
     IN  /\ Emit(Units[at][1], Units[last][2])
         /\ at' = IF last = Len(Units) THEN last + 1 ELSE NextUnit(at, last)
  /\ UNCHANGED <<text, config, breaks, paged>>

ChunkNext == CutWindow \/ SplitPage \/ PackUnits
ChunkSpec == ChunkInit /\ [][ChunkNext]_chunkVars

Chunked ==
  /\ text # << >> /\ cut = NoCut
  /\ CASE Effective = "page" -> at > Len(Pages)
       [] Effective = "character" -> spans # << >>
       [] OTHER -> at > Len(Units)

\* _pages_for_span: the pages a span touches.
PagesOf(span) == {k \in DOMAIN Pages : Pages[k][1] < span[2] /\ Pages[k][2] > span[1]}

-----------------------------------------------------------------------------
\* Splitting loses nothing and can be located: every letter of the text is in a
\* passage once the loops have ended; every passage is a stripped slice of the text
\* within the size set, begins after the one before it (so the loops end), and a
\* passage made page by page lies on one page (src/rag/chunking.py:156-364).
ChunksCoverTheText ==
  /\ Chunked => Solid(0, Size) \subseteq UNION {span[1] .. (span[2] - 1) : span \in ToSet(spans)}
  /\ \A k \in DOMAIN spans :
       LET span == spans[k]
       IN  /\ 0 <= span[1] /\ span[1] < span[2] /\ span[2] <= Size
           /\ Char(span[1]) # Blank /\ Char(span[2] - 1) # Blank
           /\ span[2] - span[1] <= config.size
           /\ k > 1 => spans[k - 1][1] < span[1]
           /\ Effective = "page" => Cardinality(PagesOf(span)) = 1
=============================================================================
