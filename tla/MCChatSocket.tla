---------------------------- MODULE MCChatSocket ----------------------------
(* Small instances of ChatSocket.                                           *)
EXTENDS ChatSocket

\* An answer of one frame, and for the first question also none, one of white
\* space, one that breaks after its first space and one without spaces: the
\* last two fill both frames.
MCAnswers == <<{[len |-> 0, spaces |-> {}], [len |-> 2, spaces |-> {0, 1}],
                [len |-> 4, spaces |-> {1}], [len |-> 5, spaces |-> {}]},
               {[len |-> 2, spaces |-> {}]}>>

\* One answer of two frames.
MCOneAnswer == <<{[len |-> 3, spaces |-> {1}]}>>

\* Every text short enough to try all of them is split exactly.
ASSUME SplitIsExact == \A text \in TextsUpTo(9) : Exact(text, Split(text))
=============================================================================
