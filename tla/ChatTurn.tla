------------------------------ MODULE ChatTurn ------------------------------
(***************************************************************************)
(* One call of ConversationClient.complete (sse.py): the frames of a       *)
(* streamed turn, what stream() makes of them, and the polls for an answer *)
(* that the stream did not deliver.                                        *)
(*                                                                         *)
(* Upstream writes the messages of the turn one after the other.  While    *)
(* the stream is live, what it writes arrives in frames of one of two wire *)
(* formats; after a handoff, or once the connection is gone, it goes on    *)
(* writing and only the polls see it.  The k-th piece of text of the m-th  *)
(* message is <<m, k>>.                                                    *)
(***************************************************************************)
EXTENDS Naturals, SequencesExt

CONSTANTS
    MaxMessages,    \* bound: messages of a turn
    MaxLength,      \* bound: pieces of text of a message
    MaxErrors       \* failed polls in a row that end the call

ASSUME BoundsAssumption ==
    MaxMessages \in Nat /\ MaxLength \in Nat /\ MaxErrors \in Nat \ {0}

VARIABLES
    request,    \* the arguments of the call, and the wire format upstream uses
    turn,       \* the messages upstream has written
    over,       \* upstream writes no more
    stage,      \* where the call stands
    reader,     \* the locals of stream()
    text,       \* what stream() has yielded
    errors,     \* poll_errors
    result      \* what the call returned

vars == <<request, turn, over, stage, reader, text, errors, result>>

Request == [wire : {"classic", "v1"}, temporary : BOOLEAN, poll_async : BOOLEAN]

\* An assistant message with recipient "all" or to a tool, or a tool's message.
Message == [kind : {"answer", "dispatch", "tool"}, length : Nat,
            finished : BOOLEAN]

\* Why the call polls: see StreamEnds and ConnectionCloses.
Polling == {"handoff", "async", "incomplete"}

Stage == {"streaming", "returned", "raised"} \cup Polling

Texts == Seq(Nat \X Nat)

Reader ==
    [id        : Nat,                        \* current_msg_id; 0: none
     last      : Texts,                      \* last_text
     cur       : Texts,                      \* the text of _cur_msg
     path      : {"none", "text", "other"},  \* _last_patch_path
     completed : BOOLEAN,                    \* message_completed
     handoff   : BOOLEAN,                    \* _stream_handoff
     noted     : BOOLEAN]                    \* other model slug, or a banner

TypeOK ==
    /\ request \in Request
    /\ turn \in Seq(Message)
    /\ over \in BOOLEAN
    /\ stage \in Stage
    /\ reader \in Reader
    /\ text \in Texts
    /\ errors \in 0 .. MaxErrors - 1
    /\ result \in Texts

Init ==
    /\ request \in Request
    /\ turn = <<>>
    /\ over = FALSE
    /\ stage = "streaming"
    /\ reader = [id |-> 0, last |-> <<>>, cur |-> <<>>, path |-> "none",
                 completed |-> FALSE, handoff |-> FALSE, noted |-> FALSE]
    /\ text = <<>>
    /\ errors = 0
    /\ result = <<>>

-----------------------------------------------------------------------------
(* stream(): what a frame does to the locals and to the text               *)

Text(m, n) == [k \in 1 .. n |-> <<m, k>>]

\* Mutant of Unseen: nothing is taken for seen.
UnseenAll(seen, whole) == whole

\* What is new in a text that is sent again from its beginning.
Unseen(seen, whole) ==
    IF IsPrefix(seen, whole) THEN SubSeq(whole, Len(seen) + 1, Len(whole))
                             ELSE whole

\* Mutant of Completes: what was complete stays complete.
CompletesForGood(kind, finished) ==
    reader.completed \/ (kind = "answer" /\ finished)

\* _is_successful_assistant_terminal
Completes(kind, finished) == kind = "answer" /\ finished

\* _on_envelope: the m-th message with its first n pieces.
Envelope(m, kind, n, finished) ==
    LET whole == Text(m, n)
        seen  == IF m = reader.id THEN reader.last ELSE <<>>
        read  == [reader EXCEPT !.completed = Completes(kind, finished),
                                !.path = "none"]
    IN IF kind = "tool"
         THEN reader' = read /\ UNCHANGED text
         ELSE /\ reader' = [read EXCEPT
                              !.id   = m,
                              !.cur  = whole,
                              !.last = IF whole = <<>> THEN seen ELSE whole]
              /\ text' = text \o Unseen(seen, whole)

\* A patch of /message/content/parts/0: one piece more, or the text anew.
AppendOp(piece) ==
    /\ reader' = [reader EXCEPT !.cur  = Append(@, piece),
                                !.last = Append(reader.cur, piece),
                                !.path = "text", !.completed = FALSE]
    /\ text' = Append(text, piece)

ReplaceOp(whole) ==
    /\ reader' = [reader EXCEPT !.cur = whole, !.last = whole,
                                !.path = "text", !.completed = FALSE]
    /\ text' = text \o Unseen(reader.last, whole)

\* A bare string goes on with the path patched last; without one it is a
\* delta of the classic wire.
BareDelta(piece) ==
    /\ reader.path # "other"
    /\ reader' = [reader EXCEPT
                    !.cur  = IF reader.path = "text" THEN Append(@, piece) ELSE @,
                    !.last = Append(@, piece), !.completed = FALSE]
    /\ text' = Append(text, piece)

\* A patch of anything else: code, tool output, status.
OtherOp == reader' = [reader EXCEPT !.path = "other"] /\ UNCHANGED text

-----------------------------------------------------------------------------
(* Upstream writes                                                         *)

Live == stage = "streaming" /\ ~reader.handoff

\* Upstream goes on while the call does: afterwards nobody looks.
Writing == ~over /\ stage \notin {"returned", "raised"}

AllFinished == \A m \in DOMAIN turn : turn[m].finished

Newest == Len(turn)

Silently == ~Live /\ UNCHANGED <<reader, text>>

Unanswered == UNCHANGED <<request, stage, errors, result>>

NewMessage(kind) ==
    /\ Writing /\ AllFinished /\ Newest < MaxMessages
    /\ \E n \in 0 .. (IF kind = "tool" THEN 0 ELSE 1) :
         /\ n <= MaxLength
         /\ turn' = Append(turn, [kind |-> kind, length |-> n, finished |-> FALSE])
         /\ \/ Live /\ Envelope(Newest + 1, kind, n, FALSE)
            \/ Silently
    /\ Unanswered /\ UNCHANGED over

\* The text grows by a piece, in any frame that the wire has for it.
Grow ==
    /\ Writing /\ ~AllFinished
    /\ LET m == Last(turn)
           n == m.length + 1
       IN /\ m.kind # "tool" /\ n <= MaxLength
          /\ turn' = [turn EXCEPT ![Newest].length = n]
          /\ \/ /\ Live /\ request.wire = "classic"
                /\ \/ Envelope(Newest, m.kind, n, FALSE)
                   \/ BareDelta(<<Newest, n>>)
             \/ /\ Live /\ request.wire = "v1"
                /\ \/ AppendOp(<<Newest, n>>)
                   \/ ReplaceOp(Text(Newest, n))
                   \/ reader.path = "text" /\ BareDelta(<<Newest, n>>)
             \/ Silently
    /\ Unanswered /\ UNCHANGED over

\* Code or tool output streams past, under a path of its own.
ToolOutput ==
    /\ Live /\ request.wire = "v1" /\ ~AllFinished
    /\ OtherOp
    /\ Unanswered /\ UNCHANGED <<turn, over>>

Finish ==
    /\ Writing /\ ~AllFinished
    /\ LET m == Last(turn)
       IN /\ turn' = [turn EXCEPT ![Newest].finished = TRUE]
          /\ \/ /\ Live /\ request.wire = "classic"
                /\ Envelope(Newest, m.kind, m.length, TRUE)
             \/ Live /\ request.wire = "v1" /\ OtherOp
             \/ Silently
    /\ Unanswered /\ UNCHANGED over

\* The turn ends with a finished answer; message_stream_complete may say so.
EndTurn ==
    /\ Writing /\ turn # <<>> /\ AllFinished /\ Last(turn).kind = "answer"
    /\ over' = TRUE
    /\ \/ Live /\ reader' = [reader EXCEPT !.completed = TRUE]
       \/ UNCHANGED reader
    /\ Unanswered /\ UNCHANGED <<turn, text>>

\* Upstream gives up: in the stream that is an error frame.
Abort ==
    /\ Writing
    /\ over' = TRUE
    /\ stage' = IF Live THEN "raised" ELSE stage
    /\ UNCHANGED <<request, turn, reader, text, errors, result>>

\* server_ste_metadata with the slug of another model, or an account banner.
Notice ==
    /\ stage = "streaming"
    /\ reader' = [reader EXCEPT !.noted = TRUE]
    /\ Unanswered /\ UNCHANGED <<turn, over, text>>

\* stream_handoff: the rest of the turn is not sent on this stream.
Handoff ==
    /\ Live
    /\ reader' = [reader EXCEPT !.handoff = TRUE]
    /\ Unanswered /\ UNCHANGED <<turn, over, text>>

-----------------------------------------------------------------------------
(* complete(): the stream ends                                             *)

Upstream == UNCHANGED <<request, turn, over, reader, text>>

Returns(answer) == stage' = "returned" /\ result' = answer

Raises == stage' = "raised" /\ UNCHANGED result

Polls(why) == stage' = why /\ UNCHANGED result

\* A handoff polls; so does an agent call that was told nothing yet, unless a
\* note about the model or the account has been put where the text would be.
StreamEnds ==
    /\ IF reader.handoff THEN Polls("handoff")
       ELSE IF request.poll_async /\ text = <<>> /\ ~reader.noted
              THEN Polls("async")
              ELSE Returns(text)
    /\ Upstream /\ UNCHANGED errors

\* [DONE]: when the turn is over or handed off, or at once in agent mode.
Done == stage = "streaming" /\ (over \/ reader.handoff \/ turn = <<>>) /\ StreamEnds

\* The connection closes without [DONE].  An agent call that knows its
\* conversation then polls.
ConnectionCloses ==
    /\ stage = "streaming"
    /\ \/ reader.completed /\ StreamEnds
       \/ /\ ~reader.completed
          /\ \/ request.poll_async /\ Polls("incomplete")
             \/ (request.poll_async => turn = <<>>) /\ Raises
          /\ Upstream /\ UNCHANGED errors

\* The connection breaks, or answers with an HTTP error.
ConnectionFails ==
    stage = "streaming" /\ Raises /\ Upstream /\ UNCHANGED errors

-----------------------------------------------------------------------------
(* complete() and _poll_async_response: the polls                          *)

\* Mutant of Candidates: the status is not looked at.
CandidatesUnfinished == {m \in DOMAIN turn : turn[m].kind # "tool"}

Candidates == {m \in DOMAIN turn : turn[m].kind # "tool" /\ turn[m].finished}

\* Mutant of Preferred: the longer text wins.
PreferredLonger(answer) == IF Len(answer) > Len(text) THEN answer ELSE text

\* After a handoff, a polled text counts only if it goes on from what has
\* been streamed.
Preferred(answer) ==
    IF answer # <<>> /\ IsPrefix(text, answer) THEN answer ELSE text

\* _poll_async_response returns; an empty answer means that time ran out.
Polled(answer) ==
    CASE stage = "handoff"    -> Returns(Preferred(answer))
      [] stage = "async"      -> Returns(answer)
      [] stage = "incomplete" -> IF answer = <<>> THEN Raises ELSE Returns(answer)

\* _poll_async_response raises; a handoff keeps what has been streamed.
PollRaises ==
    IF stage = "handoff" /\ text # <<>> THEN Returns(text) ELSE Raises

\* The newest of the candidates; without text it is polled again.
PollReads ==
    /\ stage \in Polling
    /\ \/ Candidates = {} /\ UNCHANGED <<stage, result>>
       \/ \E newest \in Candidates :
            /\ \A i \in Candidates : i <= newest
            /\ IF turn[newest].length > 0
                 THEN Polled(Text(newest, turn[newest].length))
                 ELSE UNCHANGED <<stage, result>>
    /\ errors' = 0
    /\ Upstream

\* Mutant of GivesUp: one failure too many.
GivesUpLate == errors >= MaxErrors

GivesUp == errors + 1 >= MaxErrors

PollFails ==
    /\ stage \in Polling
    /\ IF GivesUp THEN PollRaises /\ UNCHANGED errors
                  ELSE errors' = errors + 1 /\ UNCHANGED <<stage, result>>
    /\ Upstream

\* The conversation of a temporary chat may be gone (404).
PollFindsNothing ==
    stage \in Polling /\ request.temporary /\ PollRaises /\ Upstream
    /\ UNCHANGED errors

PollTimesOut ==
    stage \in Polling /\ Polled(<<>>) /\ Upstream /\ UNCHANGED errors

-----------------------------------------------------------------------------
Next ==
    \/ \E kind \in {"answer", "dispatch", "tool"} : NewMessage(kind)
    \/ Grow
    \/ ToolOutput
    \/ Finish
    \/ EndTurn
    \/ Abort
    \/ Notice
    \/ Handoff
    \/ Done
    \/ ConnectionCloses
    \/ ConnectionFails
    \/ PollReads
    \/ PollFails
    \/ PollFindsNothing
    \/ PollTimesOut

Spec == Init /\ [][Next]_vars

-----------------------------------------------------------------------------
(* Properties *)

\* The pieces of text of the assistant messages of a turn, and their order.
PiecesOf(messages) ==
    UNION {{<<m, k>> : k \in 1 .. messages[m].length} :
              m \in {i \in DOMAIN messages : messages[i].kind # "tool"}}

Before(p, q) == p[1] < q[1] \/ (p[1] = q[1] /\ p[2] < q[2])

\* Whatever frames a turn is cut into, the text yielded so far is that of its
\* assistant messages, each piece once and in order: no message is taken for
\* the continuation of another, none is repeated (stream).
StreamedInOrder ==
    Live => /\ ToSet(text) = PiecesOf(turn)
            /\ \A i, j \in DOMAIN text : i < j => Before(text[i], text[j])

\* A streamed text is returned without a poll only when the last message that
\* was seen is an answer, and finished: a connection that closes in a later
\* message or in a tool call never passes off the earlier text as the answer.
NoTruncatedAnswer ==
    [][stage = "streaming" /\ stage' = "returned" /\ text # <<>> =>
           /\ Last(turn).kind = "answer" /\ Last(turn).finished
           /\ result' = text]_vars

\* After a handoff the streamed text is neither lost nor replaced by an
\* unrelated one, however the polls end (complete).
StreamedTextIsKept ==
    [][stage = "handoff" /\ stage' # "handoff" /\ text # <<>> =>
           stage' = "returned" /\ IsPrefix(text, result')]_vars

PollAdds == stage \in Polling /\ stage' = "returned" /\ result' # text

\* What a poll adds is a whole finished message, although upstream may still
\* be writing when it is read (_poll_async_response).
PolledTextIsFinished ==
    [][PollAdds =>
           (\E m \in DOMAIN turn :
               turn[m].finished /\ result' = Text(m, turn[m].length))]_vars

\* A poll recovers answers only, not what the assistant sent to a tool. The
\* code does not keep this one: README, "Disagreements".
PolledTextIsAnswer ==
    [][PollAdds =>
           (\E m \in DOMAIN turn :
               turn[m].kind = "answer" /\ result' = Text(m, turn[m].length))]_vars

\* An agent call whose stream carried no text polls before it returns. Nor
\* this one: a note about the model counts as text.
AgentIsAwaited ==
    [][stage = "streaming" /\ stage' = "returned" /\ request.poll_async =>
           text # <<>>]_vars
=============================================================================
