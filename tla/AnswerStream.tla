---------------------------- MODULE AnswerStream ----------------------------
(***************************************************************************)
(* A planned answer on its way to an HTTP client: the provider request and *)
(* its retries, the provider's stream, the relay that strips it, the       *)
(* response body the client reads, and the turn stored when the body ends. *)
(* src/services/llm_provider.py, src/rag/service.py and                    *)
(* src/controllers/chat_controller.py. Generators run on demand: nothing   *)
(* moves unless the client's next read asks for it, and a client that goes *)
(* away leaves the body suspended until it is collected.                   *)
(***************************************************************************)
EXTENDS Integers, Sequences, SequencesExt

CONSTANTS MaxRetries,      \* llm_max_retries
          Backoff,         \* llm_retry_backoff_seconds
          SleepCap,        \* MAX_RETRY_SLEEP_SECONDS
          Hints,           \* numbers a provider may put in Retry-After
          Words,           \* the words a model writes
          Deltas,          \* the pieces of text a provider's stream may carry
          MaxEvents        \* bound on the events of one stream

\* One character stands for all whitespace.
Space == " "

\* The backoff is never negative (_retry_delay takes its maximum with 0); a piece
\* of text is never empty: a parser yields only text it found.
ASSUME StreamAssumption ==
  /\ MaxRetries \in Nat /\ SleepCap \in Nat /\ Backoff \in Nat /\ Hints \subseteq Int
  /\ \A delta \in Deltas : delta \in Seq(Words \cup {Space}) /\ delta # << >>

VARIABLES phase,     \* "start" .. "stored"
          tries,     \* requests made
          slept,     \* seconds waited between them
          said,      \* every character the provider's deltas carried
          events,    \* events read of the stream, at most MaxEvents
          held,      \* the relay's pending whitespace
          yielded,   \* the pieces the relay and the body have yielded, the body's list
          sent,      \* how many of them the client was given
          turn       \* what was stored, NoTurn before

streamVars == <<phase, tries, slept, said, events, held, yielded, sent, turn>>

NoTurn == <<"noTurn">>
\* Pieces the code writes itself.
Extract == <<"extract">>
ExtractAndNote == <<"extract", "noteNoModel">>
CutNote == <<"noteCutShort">>
ErrorNote == <<"noteServerError">>
Notes == {CutNote, ErrorNote}

\* What the model writes is told from the whitespace and from those pieces.
ASSUME WordsAssumption ==
  Words \cap {Space, "noTurn", "extract", "noteNoModel", "noteCutShort", "noteServerError"} = {}

NonSpace(text) == {i \in DOMAIN text : text[i] # Space}
LStrip(text) == IF NonSpace(text) = {} THEN << >>
                ELSE SubSeq(text, CHOOSE i \in NonSpace(text) : \A j \in NonSpace(text) : i <= j, Len(text))
RStrip(text) == IF NonSpace(text) = {} THEN << >>
                ELSE SubSeq(text, 1, CHOOSE i \in NonSpace(text) : \A j \in NonSpace(text) : i >= j)
Strip(text) == RStrip(LStrip(text))
Tail_(text, kept) == SubSeq(text, Len(kept) + 1, Len(text))

\* The first k pieces put together, and all of them.
Joined(pieces, k) ==
  LET upTo[n \in 0..Len(pieces)] == IF n = 0 THEN << >> ELSE upTo[n - 1] \o pieces[n]
  IN  upTo[k]
Join(pieces) == Joined(pieces, Len(pieces))

\* Mutant: a hint is taken as it comes.
Obeyed(hint) == hint

\* _retry_delay: a usable hint is clamped to 0 .. SleepCap; without one the wait
\* doubles with each attempt. "nan" and a date are unusable.
HintDelay(hint) == IF hint < 0 THEN 0 ELSE IF hint > SleepCap THEN SleepCap ELSE hint
Doublings[n \in 0..16] == IF n = 0 THEN Backoff ELSE 2 * Doublings[n - 1]
BackoffDelay(attempt) == LET wait == Doublings[IF attempt < 16 THEN attempt ELSE 16]
                         IN  IF wait > SleepCap THEN SleepCap ELSE wait
Delays(attempt) == {HintDelay(h) : h \in Hints} \cup {BackoffDelay(attempt)}

StreamIdle == /\ phase = "absent"
              /\ tries = 0 /\ slept = 0 /\ said = << >> /\ events = 0 /\ held = << >>
              /\ yielded = << >> /\ sent = 0 /\ turn = NoTurn

StreamInit == /\ phase = "start"
              /\ tries = 0 /\ slept = 0 /\ said = << >> /\ events = 0 /\ held = << >>
              /\ yielded = << >> /\ sent = 0 /\ turn = NoTurn

\* The relay handed the body its only piece.
Whole(piece) == phase' = "last" /\ yielded' = <<piece>>

\* A plan that needs no synthesis streams as one piece.
NothingToSynthesize ==
  /\ phase = "start" /\ Whole(Extract)
  /\ UNCHANGED <<tries, slept, said, events, held, sent, turn>>

\* Resolving the credential failed before any request.
ResolveFails ==
  /\ phase = "start" /\ Whole(ExtractAndNote)
  /\ UNCHANGED <<tries, slept, said, events, held, sent, turn>>

\* _open_with_retry. Every retry is made before a byte of a response is read.
OpenSucceeds ==
  /\ phase \in {"start", "retry"}
  /\ tries' = tries + 1 /\ phase' = "waiting"
  /\ UNCHANGED <<slept, said, events, held, yielded, sent, turn>>
OpenRetries ==
  /\ phase \in {"start", "retry"} /\ tries < MaxRetries
  /\ tries' = tries + 1 /\ phase' = "retry"
  /\ \E delay \in Delays(tries) : slept' = slept + delay
  /\ UNCHANGED <<said, events, held, yielded, sent, turn>>
\* A status that is no use retrying, or the last attempt: the error of this one.
OpenFails ==
  /\ phase \in {"start", "retry"}
  /\ tries' = tries + 1 /\ Whole(ExtractAndNote)
  /\ UNCHANGED <<slept, said, events, held, sent, turn>>

\* Before the response is committed the first delta is pulled. Keep-alives, events
\* without text and lines that do not parse are passed over.
Reading == phase \in {"waiting", "streaming"}
PassOver ==
  /\ Reading /\ events < MaxEvents
  /\ events' = events + 1
  /\ UNCHANGED <<phase, tries, slept, said, held, yielded, sent, turn>>

\* An error event, a stalled read, a reset, a malformed body, no token in time or
\* no text at all: nothing has been sent, so the extractive answer is given.
FirstDeltaFails ==
  /\ phase = "waiting" /\ Whole(ExtractAndNote)
  /\ UNCHANGED <<tries, slept, said, events, held, sent, turn>>

\* Mutant: the whitespace held back is never given out.
RelayForgets(delta) ==
  LET text == IF yielded = << >> THEN LStrip(delta) ELSE delta
      body == RStrip(text)
  IN  /\ yielded' = IF body = << >> THEN yielded ELSE Append(yielded, body)
      /\ held' = Tail_(text, body)

\* body() of stream_answer_question, for one delta: leading whitespace of the
\* answer is dropped, whitespace that may be trailing is held back.
Relay(delta) ==
  LET text == IF yielded = << >> THEN LStrip(delta) ELSE delta
      body == RStrip(text)
  IN  IF body = << >> THEN held' = (IF yielded = << >> THEN held ELSE held \o text) /\ UNCHANGED yielded
      ELSE yielded' = Append(yielded, held \o body) /\ held' = Tail_(text, body)

\* The provider's next delta goes through the relay when the client has taken what
\* was yielded before it.
NextDelta ==
  /\ Reading /\ sent = Len(yielded) /\ events < MaxEvents
  /\ \E delta \in Deltas : said' = said \o delta /\ Relay(delta)
  /\ events' = events + 1 /\ phase' = "streaming"
  /\ UNCHANGED <<tries, slept, sent, turn>>

StreamEnds ==
  /\ phase = "streaming" /\ sent = Len(yielded)
  /\ phase' = "ended"
  /\ UNCHANGED <<tries, slept, said, events, held, yielded, sent, turn>>

\* The guarded stream turns read errors and odd events into the provider error the
\* relay catches; anything else is caught by the body.
StreamBreaks ==
  /\ phase = "streaming" /\ sent = Len(yielded)
  /\ \E note \in Notes : yielded' = Append(yielded, note)
  /\ phase' = "last"
  /\ UNCHANGED <<tries, slept, said, events, held, sent, turn>>

ClientTakes ==
  /\ phase \in {"streaming", "last"} /\ sent < Len(yielded)
  /\ sent' = sent + 1
  /\ phase' = IF phase = "last" THEN "ended" ELSE phase
  /\ UNCHANGED <<tries, slept, said, events, held, yielded, turn>>

\* The client disconnects; the suspended generator is collected in its own time.
ClientLeaves ==
  /\ phase \in {"streaming", "last"}
  /\ phase' = "abandoned"
  /\ UNCHANGED <<tries, slept, said, events, held, yielded, sent, turn>>

\* Mutant: what an absent client saw is not kept.
PersistAttended ==
  /\ phase \in {"ended", "abandoned"}
  /\ phase' = "stored"
  /\ turn' = IF phase = "abandoned" THEN NoTurn ELSE Join(yielded)
  /\ UNCHANGED <<tries, slept, said, events, held, yielded, sent>>

\* persist_chat_turn, in the body's finally, on its own session: a blank answer is
\* not a turn, and a failure to store one is swallowed.
PersistTurn ==
  /\ phase \in {"ended", "abandoned"}
  /\ phase' = "stored"
  /\ turn' = IF Strip(Join(yielded)) = << >> THEN NoTurn ELSE Join(yielded)
  /\ UNCHANGED <<tries, slept, said, events, held, yielded, sent>>
\* Nothing is stored either when the client is gone before the body is first asked
\* for a piece: a generator that never started has no finally to run.
PersistFails ==
  /\ phase \in {"ended", "abandoned"}
  /\ phase' = "not stored"
  /\ UNCHANGED <<tries, slept, said, events, held, yielded, sent, turn>>

StreamNext ==
  \/ NothingToSynthesize \/ ResolveFails \/ OpenSucceeds \/ OpenRetries \/ OpenFails
  \/ PassOver \/ FirstDeltaFails \/ NextDelta \/ StreamEnds \/ StreamBreaks
  \/ ClientTakes \/ ClientLeaves \/ PersistTurn \/ PersistFails

StreamSpec == StreamInit /\ [][StreamNext]_streamVars

-----------------------------------------------------------------------------
\* What the relay has yielded of the answer itself, the notes left out.
Kept(pieces) == [k \in DOMAIN pieces |-> IF pieces[k] \in Notes THEN << >> ELSE pieces[k]]
Shown == Join(Kept(yielded))

\* However the provider cuts its text into deltas, what has been streamed at any
\* moment is the stripped form of what has been said: the streamed answer ends up
\* the blocking one's text to the byte (src/rag/service.py:1341-1348). When no model
\* text was said, the answer is the one retrieval had.
StreamIsTheStrippedText ==
  /\ said # << >> => Shown = Strip(said)
  /\ (phase \in {"ended", "stored"} /\ said = << >>) => Shown \in {Extract, ExtractAndNote}

\* The stored turn is what the client was shown, and at most the one piece more that
\* was on its way when the client left; a turn is missing only when nothing but
\* whitespace was shown (src/controllers/chat_controller.py:173-216, 244-245).
TurnIsWhatWasShown ==
  phase = "stored" =>
     LET shown == Joined(yielded, sent)
     IN  IF turn = NoTurn THEN Strip(shown) = << >>
         ELSE IsPrefix(shown, turn) /\ turn = Join(yielded) /\ sent >= Len(yielded) - 1

\* Requests and waits are bounded whatever the provider dictates, and no request
\* follows one whose response was read, so no text is asked for twice
\* (src/services/llm_provider.py:1662-1746).
RetriesAreBounded ==
  /\ [](tries <= MaxRetries + 1 /\ slept >= 0 /\ slept <= MaxRetries * SleepCap)
  /\ [][tries' # tries => said = << >> /\ events = 0 /\ yielded = << >>]_streamVars
=============================================================================
