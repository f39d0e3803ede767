------------------------------ MODULE ChatSocket ------------------------------
(***************************************************************************)
(* One chat connection (controllers/chat_ws_controller.py): the client, the *)
(* receive loop of chat_socket, the answer task of _handle_ask it spawns,   *)
(* and the worker threads that plan, generate and store.                    *)
(*                                                                          *)
(* The loop and the task share one event loop: they interleave at awaits,   *)
(* and a step here runs from one await to the next.  A thread the task      *)
(* waits for goes on when the task is cancelled.  The client's frames reach *)
(* the server in order; once it has gone, what the server sends is lost,    *)
(* and a send may or may not say so.                                        *)
(***************************************************************************)
EXTENDS Integers, Sequences, DeltaSplit

CONSTANTS
  NumQuestions,   \* how many questions the client asks
  Answers,        \* Answers[q]: what may be written for question q
  MaxOthers,      \* bound on the cancel and other frames it sends
  MaxDbErrors     \* bound on refused writes of the history

Questions == 1..NumQuestions

ASSUME SocketAssumption  == NumQuestions \in Nat /\ MaxOthers \in Nat /\ MaxDbErrors \in Nat
ASSUME AnswersAssumption == \A i \in Questions : \A text \in Answers[i] : IsText(text)

VARIABLES
  \* The client ...
  here,          \* it is still connected
  asked,         \* how many questions it has sent
  others,        \* how many other frames
  lastCancel,    \* its last question when it sent its last cancel
  shown,         \* the frames it has received
  \* ... the wire ...
  inbox,         \* its frames the server has not read
  \* ... the connection and its receive loop ...
  conn,          \* accepted, authorizing, open, closed
  event,         \* the question whose Event `cancel` names, 0 for the first one
  set,           \* the Events that are set
  \* ... the answer task ...
  task,          \* where it is; none when there is none, or it is done
  q,             \* the question it answers
  answer,        \* answer[i]: the finished text for question i
  delivered,     \* how many of its frames were sent
  stopped,       \* the delivery was stopped
  \* ... the threads and the history.
  writing,       \* the turn a persist_chat_turn thread is about to write, if any
  stored,        \* stored[i]: the frames of question i's answer in the history
  refused        \* the questions whose write the database refused

clientvars == <<here, asked, others, lastCancel>>
taskvars   == <<task, q, answer, delivered, stopped>>
storevars  == <<writing, stored, refused>>
vars == <<here, asked, others, lastCancel, shown, inbox, conn, event, set,
          task, q, answer, delivered, stopped, writing, stored, refused>>

NoText == [len |-> 0, spaces |-> {}]

\* Frames to the client.  Only a delta carries text.
Frame(i, kind) == [q |-> i, kind |-> kind, text |-> <<>>]
Delta(i, text) == [q |-> i, kind |-> "delta", text |-> text]

\* What goes out reaches the client while it is there.
Send(frames) == shown' = IF here THEN shown \o frames ELSE shown

-----------------------------------------------------------------------------
Init ==
  /\ here = TRUE /\ asked = 0 /\ others = 0 /\ lastCancel = 0 /\ shown = <<>>
  /\ inbox = <<>>
  /\ conn = "accepted" /\ event = 0 /\ set = {}
  /\ task = "none" /\ q = 0 /\ answer = [i \in Questions |-> NoText] /\ delivered = 0 /\ stopped = FALSE
  /\ writing = {} /\ stored = [i \in Questions |-> <<>>] /\ refused = {}

-----------------------------------------------------------------------------
(* The client                                                               *)

\* The frame that must come first: a token, which the server will find good,
\* bad or without the permission, or something else.
ClientAuthenticates ==
  /\ here /\ conn = "accepted" /\ inbox = <<>>
  /\ \E kind \in {"auth", "other"} : inbox' = <<[kind |-> kind]>>
  /\ UNCHANGED <<clientvars, shown, conn, event, set, taskvars, storevars>>

\* A question; nothing makes the client wait for the answer to the last one.
ClientAsks ==
  /\ here /\ conn = "open" /\ asked < NumQuestions
  /\ asked' = asked + 1
  /\ \E kind \in {"ask", "badask"} : inbox' = Append(inbox, [kind |-> kind, q |-> asked + 1])
  /\ UNCHANGED <<here, others, lastCancel, shown, conn, event, set, taskvars, storevars>>

ClientCancels ==
  /\ here /\ conn = "open" /\ others < MaxOthers
  /\ others' = others + 1
  /\ lastCancel' = asked
  /\ inbox' = Append(inbox, [kind |-> "cancel"])
  /\ UNCHANGED <<here, asked, shown, conn, event, set, taskvars, storevars>>

\* A ping, or something the server does not understand.
ClientSendsOther ==
  /\ here /\ conn = "open" /\ others < MaxOthers
  /\ others' = others + 1
  /\ inbox' = Append(inbox, [kind |-> "other"])
  /\ UNCHANGED <<here, asked, lastCancel, shown, conn, event, set, taskvars, storevars>>

ClientLeaves ==
  /\ here /\ conn # "closed"
  /\ here' = FALSE
  /\ UNCHANGED <<asked, others, lastCancel, shown, inbox, conn, event, set, taskvars, storevars>>

-----------------------------------------------------------------------------
(* _authenticate                                                            *)

\* The opening frame is read, and a token in it goes to the _authorize thread.
ReadAuth ==
  /\ conn = "accepted" /\ inbox # <<>>
  /\ conn' = IF Head(inbox).kind = "auth" THEN "authorizing" ELSE "closed"
  /\ inbox' = Tail(inbox)
  /\ Send(IF Head(inbox).kind = "auth" THEN <<>> ELSE <<Frame(0, "error")>>)
  /\ UNCHANGED <<clientvars, event, set, taskvars, storevars>>

\* Defect: only a client that is gone ends the wait.
NoAuthTimeout ==
  /\ conn = "accepted" /\ inbox = <<>> /\ ~here
  /\ conn' = "closed"
  /\ UNCHANGED <<clientvars, shown, inbox, event, set, taskvars, storevars>>

\* AUTH_TIMEOUT_SECONDS without a frame, or the client is gone.
AuthTimesOut ==
  /\ conn = "accepted" /\ inbox = <<>>
  /\ conn' = "closed"
  /\ UNCHANGED <<clientvars, shown, inbox, event, set, taskvars, storevars>>

Authorized ==
  /\ conn = "authorizing"
  /\ conn' = "open"
  /\ Send(<<Frame(0, "ready")>>)
  /\ UNCHANGED <<clientvars, inbox, event, set, taskvars, storevars>>

\* A token that is bad, revoked or without the permission; or _authorize
\* raises, which ends the connection without a word.
Unauthorized ==
  /\ conn = "authorizing"
  /\ conn' = "closed"
  /\ \E frames \in {<<>>, <<Frame(0, "error")>>} : Send(frames)
  /\ UNCHANGED <<clientvars, inbox, event, set, taskvars, storevars>>

-----------------------------------------------------------------------------
(* The receive loop of chat_socket                                          *)

Receive(kinds) == conn = "open" /\ inbox # <<>> /\ Head(inbox).kind \in kinds /\ inbox' = Tail(inbox)

\* Setting the current question's Event is all a cancel frame does.
ReceiveCancel ==
  /\ Receive({"cancel"})
  /\ set' = set \cup {event}
  /\ UNCHANGED <<clientvars, shown, conn, event, taskvars, storevars>>

\* A pong, or an error that names no question.
ReceiveOther ==
  /\ Receive({"other"})
  /\ Send(<<Frame(0, "reply")>>)
  /\ UNCHANGED <<clientvars, conn, event, set, taskvars, storevars>>

\* pending is not None and not done: one question at a time.
ReceiveAskBusy ==
  /\ Receive({"ask", "badask"})
  /\ task # "none"
  /\ Send(<<Frame(Head(inbox).q, "busy")>>)
  /\ UNCHANGED <<clientvars, conn, event, set, taskvars, storevars>>

\* A task, with an Event of its own, at the start of _handle_ask.
SpawnTask(i, kind) ==
  /\ q' = i
  /\ task' = IF kind = "ask" THEN "new" ELSE "invalid"
  /\ delivered' = 0 /\ stopped' = FALSE
  /\ UNCHANGED answer

\* Defects: the Event of the last question is used again, or the loop does not
\* look whether a task is pending.
ReceiveAskSameEvent ==
  /\ Receive({"ask", "badask"})
  /\ task = "none"
  /\ SpawnTask(Head(inbox).q, Head(inbox).kind)
  /\ UNCHANGED event
  /\ set' = IF event \in set THEN set \cup {Head(inbox).q} ELSE set
  /\ UNCHANGED <<clientvars, shown, conn, storevars>>
ReceiveAskAnyway ==
  /\ Receive({"ask", "badask"})
  /\ SpawnTask(Head(inbox).q, Head(inbox).kind)
  /\ event' = Head(inbox).q
  /\ UNCHANGED <<clientvars, shown, conn, set, storevars>>

ReceiveAsk ==
  /\ Receive({"ask", "badask"})
  /\ task = "none"
  /\ SpawnTask(Head(inbox).q, Head(inbox).kind)
  /\ event' = Head(inbox).q
  /\ UNCHANGED <<clientvars, shown, conn, set, storevars>>

\* The client left and its frames are used up: the loop ends, and a task that
\* is not done is cancelled at its await.  A call it waits for runs on, unless
\* no thread had taken it yet.
ReceiveNothing ==
  /\ conn = "open" /\ ~here /\ inbox = <<>>
  /\ conn' = "closed"
  /\ task' = "none"
  /\ writing' \in {writing, {}}
  /\ UNCHANGED <<clientvars, shown, inbox, event, set, q, answer, delivered, stopped, stored, refused>>

-----------------------------------------------------------------------------
(* The answer task (_handle_ask)                                            *)

\* One await to the next: send these frames, then be there.
Step(from, frames, to) ==
  /\ task = from
  /\ task' = to
  /\ Send(frames)
  /\ UNCHANGED <<clientvars, inbox, conn, event, set, q>>

\* No question, or no knowledge base, in the frame.
RejectAsk == Step("invalid", <<Frame(q, "error")>>, "ending") /\ UNCHANGED <<answer, delivered, stopped, storevars>>

AcceptAsk ==
  /\ \/ Step("new", <<Frame(q, "accepted")>>, "accepted")
     \/ Step("accepted", <<Frame(q, "retrieving")>>, "planning")
  /\ UNCHANGED <<answer, delivered, stopped, storevars>>

\* Defect: the failure is logged and the client is told nothing.
PlanFailsSilently == Step("planning", <<>>, "ending") /\ UNCHANGED <<answer, delivered, stopped, storevars>>

PlanFails == Step("planning", <<Frame(q, "error")>>, "ending") /\ UNCHANGED <<answer, delivered, stopped, storevars>>

\* Citations go out as soon as they exist; an answer to synthesize has some.
PlanReturns ==
  /\ \/ Step("planning", <<>>, "planned")
     \/ \E next \in {"planned", "grounded"} : Step("planning", <<Frame(q, "citations")>>, next)
  /\ UNCHANGED <<answer, delivered, stopped, storevars>>

\* Defect: the answer is generated all the same.
StopBeforeAnswerGoesOn ==
  /\ q \in set
  /\ \E from \in {"planned", "grounded"} : Step(from, <<Frame(q, "cancelled")>>, "generating")
  /\ UNCHANGED <<answer, delivered, stopped, storevars>>

\* Stopped before anything was generated: there is no turn to record.
StopBeforeAnswer ==
  /\ q \in set
  /\ \E from \in {"planned", "grounded"} : Step(from, <<Frame(q, "cancelled")>>, "ending")
  /\ UNCHANGED <<answer, delivered, stopped, storevars>>

StartAnswer ==
  /\ q \notin set
  /\ \/ Step("planned", <<>>, "generating")
     \/ Step("grounded", <<Frame(q, "generating")>>, "generating")
  /\ UNCHANGED <<answer, delivered, stopped, storevars>>

CompleteFails == Step("generating", <<Frame(q, "error")>>, "ending") /\ UNCHANGED <<answer, delivered, stopped, storevars>>

CompleteReturns ==
  /\ Step("generating", <<>>, "delivering")
  /\ \E text \in Answers[q] : answer' = [answer EXCEPT ![q] = text]
  /\ UNCHANGED <<delivered, stopped, storevars>>

Deltas == Split(answer[q])

\* Defect: the loop is left without a note that it was stopped.
StopDeliveryQuietly ==
  /\ Step("delivering", <<>>, "delivered")
  /\ delivered < Len(Deltas) /\ q \in set
  /\ UNCHANGED <<answer, delivered, stopped, storevars>>

\* The head of the delivery loop, with a frame left: look for a cancel, then
\* wait DELTA_INTERVAL_SECONDS, or for the first frame just for the lock.
StopDelivery ==
  /\ Step("delivering", <<>>, "delivered")
  /\ delivered < Len(Deltas) /\ q \in set
  /\ stopped' = TRUE
  /\ UNCHANGED <<answer, delivered, storevars>>

PrepareDelta ==
  /\ Step("delivering", <<>>, "sending")
  /\ delivered < Len(Deltas) /\ q \notin set
  /\ UNCHANGED <<answer, delivered, stopped, storevars>>

\* Defect: the index of the frame is taken for the number of frames sent.
SendDeltaCountsTwice ==
  /\ task = "sending"
  /\ Step("sending", <<Delta(q, Deltas[delivered + 1])>>, "delivering")
  /\ delivered' = delivered + 2
  /\ UNCHANGED <<answer, stopped, storevars>>

\* A frame counts as delivered when its send did not fail.
SendDelta ==
  /\ task = "sending"
  /\ Step("sending", <<Delta(q, Deltas[delivered + 1])>>, "delivering")
  /\ delivered' = delivered + 1
  /\ UNCHANGED <<answer, stopped, storevars>>

SendFails ==
  /\ ~here
  /\ Step("sending", <<>>, "delivered")
  /\ stopped' = TRUE
  /\ UNCHANGED <<answer, delivered, storevars>>

FinishDelivery ==
  /\ Step("delivering", <<>>, "delivered")
  /\ delivered = Len(Deltas)
  /\ UNCHANGED <<answer, delivered, stopped, storevars>>

-----------------------------------------------------------------------------
(* Storing the turn (persist_chat_turn) before the terminal frame            *)

Terminal == IF stopped THEN "cancelled" ELSE "done"

\* Defects: the turn is stored after the terminal frame; the whole answer is
\* stored, whatever of it was delivered.
StartStoringLate ==
  /\ Step("delivered", <<Frame(q, Terminal)>>, "storing")
  /\ writing' = {q}
  /\ UNCHANGED <<answer, delivered, stopped, stored, refused>>

StartStoring ==
  /\ Step("delivered", <<>>, "storing")
  /\ writing' = {q}
  /\ UNCHANGED <<answer, delivered, stopped, stored, refused>>

StoreWholeAnswer ==
  /\ writing # {}
  /\ writing' = {}
  /\ stored' = [stored EXCEPT ![q] = Deltas]
  /\ UNCHANGED <<clientvars, shown, inbox, conn, event, set, taskvars, refused>>

\* The thread writes what was delivered, in one transaction; white space is no
\* turn, and an error of the database is logged and swallowed.
Store ==
  LET text == SubSeq(Deltas, 1, delivered) IN
  /\ writing # {}
  /\ writing' = {}
  /\ IF Blank(answer[q], text) THEN UNCHANGED <<stored, refused>>
     ELSE \/ stored' = [stored EXCEPT ![q] = text] /\ UNCHANGED refused
          \/ /\ Cardinality(refused) < MaxDbErrors
             /\ refused' = refused \cup {q} /\ UNCHANGED stored
  /\ UNCHANGED <<clientvars, shown, inbox, conn, event, set, taskvars>>

SendTerminal ==
  /\ writing = {}
  /\ Step("storing", <<Frame(q, Terminal)>>, "ending")
  /\ UNCHANGED <<answer, delivered, stopped, storevars>>

\* The last await returns and the task is done.
TaskEnds == Step("ending", <<>>, "none") /\ UNCHANGED <<answer, delivered, stopped, storevars>>

-----------------------------------------------------------------------------
Client == ClientAuthenticates \/ ClientAsks \/ ClientCancels \/ ClientSendsOther \/ ClientLeaves

Opening == ReadAuth \/ AuthTimesOut \/ Authorized \/ Unauthorized

Loop == ReceiveCancel \/ ReceiveOther \/ ReceiveAskBusy \/ ReceiveAsk \/ ReceiveNothing

Task ==
  \/ RejectAsk \/ AcceptAsk \/ PlanFails \/ PlanReturns \/ StopBeforeAnswer \/ StartAnswer
  \/ CompleteFails \/ CompleteReturns \/ StopDelivery \/ PrepareDelta \/ SendDelta \/ SendFails
  \/ FinishDelivery \/ StartStoring \/ SendTerminal \/ TaskEnds

Next == Client \/ Opening \/ Loop \/ Task \/ Store

Spec == Init /\ [][Next]_vars

\* The event loop runs whatever is ready, threads return, timers fire.
Fairness == WF_vars(Opening) /\ WF_vars(Loop) /\ WF_vars(Task) /\ WF_vars(Store)

FairSpec == Spec /\ Fairness

-----------------------------------------------------------------------------
(* Properties                                                               *)

Kinds == {"ready", "reply", "busy", "accepted", "retrieving", "citations", "generating",
          "delta", "done", "cancelled", "error"}

TypeOK ==
  /\ here \in BOOLEAN /\ asked \in 0..NumQuestions /\ others \in 0..MaxOthers
  /\ lastCancel \in 0..NumQuestions
  /\ \A k \in DOMAIN shown : shown[k].q \in 0..NumQuestions /\ shown[k].kind \in Kinds
  /\ \A k \in DOMAIN inbox : inbox[k].kind \in {"auth", "ask", "badask", "cancel", "other"}
  /\ conn \in {"accepted", "authorizing", "open", "closed"}
  /\ event \in 0..NumQuestions /\ set \subseteq 0..NumQuestions
  /\ task \in {"none", "invalid", "new", "accepted", "planning", "planned", "grounded", "generating",
               "delivering", "sending", "delivered", "storing", "ending"}
  /\ q \in 0..NumQuestions /\ stopped \in BOOLEAN
  /\ task # "none" => q \in Questions
  /\ task \in {"delivering", "sending", "delivered", "storing"} => delivered \in 0..Len(Deltas)
  /\ writing \subseteq {q} /\ refused \subseteq Questions

\* The texts of the deltas about question i among some frames, in order.
Collected(frames, i) ==
  LET upTo[n \in 0..Len(frames)] ==
        IF n = 0 THEN <<>>
        ELSE IF frames[n].q = i /\ frames[n].kind = "delta" THEN Append(upTo[n - 1], frames[n].text)
        ELSE upTo[n - 1]
  IN  upTo[Len(frames)]

\* The text of i's answer the client has received.
Received(i) == Collected(shown, i)

Ended == {"busy", "error", "done", "cancelled"}

MayFollow(kind) ==
  CASE kind = "accepted"   -> {"retrieving"}
    [] kind = "retrieving" -> {"citations", "generating", "delta", "done", "cancelled", "error"}
    [] kind = "citations"  -> {"generating", "delta", "done", "cancelled", "error"}
    [] kind = "generating" -> {"delta", "done", "cancelled", "error"}
    [] kind = "delta"      -> {"delta", "done", "cancelled"}
    [] OTHER               -> {}

\* The frames of a question follow the documented stages, and nothing comes
\* after the terminal one (_handle_ask).
FramesFollowTheProtocol ==
  \A b \in DOMAIN shown :
    LET i == shown[b].q
        since(a) == \A c \in (a + 1)..(b - 1) : shown[c].q # i
    IN  i # 0 =>
        /\ since(0) => shown[b].kind \in {"busy", "error", "accepted"}
        /\ \A a \in 1..(b - 1) : shown[a].q = i /\ since(a) => shown[b].kind \in MayFollow(shown[a].kind)

\* Answers never mix: from a question's acceptance to its end, another one
\* gets at most a refusal (chat_socket: "A question is already being answered").
OneAnswerAtATime ==
  \A a, b \in DOMAIN shown :
    /\ a < b /\ shown[a].kind = "accepted"
    /\ shown[b].q \notin {0, shown[a].q} /\ shown[b].kind # "busy"
    => \E c \in (a + 1)..(b - 1) : shown[c].q = shown[a].q /\ shown[c].kind \in Ended

\* A cancel stops the question it was sent during, never a later one ("reusing
\* one would leave a cancel from the previous turn latched").
CancelStopsNoLaterQuestion ==
  \A k \in DOMAIN shown : shown[k].kind = "cancelled" => lastCancel >= shown[k].q

\* By the time the client sees the end of an answer, the history holds exactly
\* the text it received ("a client that reloads its history on `done` must not
\* race the write that produced it").
EndedMeansStored ==
  \A k \in DOMAIN shown :
    LET i == shown[k].q IN
    /\ shown[k].kind \in {"done", "cancelled"} /\ i \notin refused
    => stored[i] = IF Blank(answer[i], Received(i)) THEN <<>> ELSE Received(i)

\* "done" means the frames put together are the answer, character for
\* character, none of them empty and no more than MAX_DELTAS of them.
DoneIsTheWholeAnswer ==
  \A k \in DOMAIN shown :
    shown[k].kind = "done" => Exact(answer[shown[k].q], Received(shown[k].q))

\* A question is never left without an end while its client is there.
EveryQuestionEnds ==
  \A i \in Questions :
    i <= asked ~> ~here \/ \E k \in DOMAIN shown : shown[k].q = i /\ shown[k].kind \in Ended

\* A client that says nothing does not hold the connection open, nor one that
\* has left (AUTH_TIMEOUT_SECONDS, and the end of the receive loop).
ConnectionIsReleased ==
  /\ conn = "accepted" ~> conn # "accepted"
  /\ ~here ~> conn = "closed" /\ task = "none"

\* chat_socket on the task it cancels: "`_handle_ask` persists as it goes, so
\* what was already sent is safe".
SentIsSafe ==
  conn = "closed" /\ task = "none" /\ writing = {} =>
    \A i \in Questions \ refused : ~Blank(answer[i], Received(i)) => stored[i] # <<>>
=============================================================================
