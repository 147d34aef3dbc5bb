---------------------------- MODULE LightResearch ----------------------------
(***************************************************************************)
(* One call of the deep_research tool: ConversationClient.deep_research    *)
(* (sse.py) and the handler in server.py that chooses among its events.    *)
(*                                                                         *)
(* A round is one POST and its stream.  The model may finish a round with  *)
(* a question instead of a report; the call then answers "proceed" in the  *)
(* same conversation and reads another round.  The k-th piece of text of   *)
(* the m-th message of round r is <<r, m, k>>.  Progress and tool events   *)
(* are left out: the tool does not use them for its result.                *)
(***************************************************************************)
EXTENDS Naturals, SequencesExt

CONSTANTS
    MaxRounds,      \* max_clarification_rounds
    MaxMessages,    \* bound: messages of a round
    MaxLength       \* bound: pieces of text of a message

ASSUME BoundsAssumption ==
    MaxRounds \in Nat /\ MaxMessages \in Nat /\ MaxLength \in Nat

VARIABLES
    wire,       \* the wire format upstream uses, and browser.enabled
    stage,      \* where the call stands
    round,      \* round_num
    thread,     \* conversation_id and last_assistant_msg_id are known
    turn,       \* the messages upstream has written in this round
    reader,     \* the locals of the round
    heard,      \* the locals of the handler
    result      \* what the handler returned

vars == <<wire, stage, round, thread, turn, reader, heard, result>>

Kind == {"answer", "dispatch", "tool", "thought"}

\* What upstream writes; a question is what _looks_like_clarification finds.
\* A message whose envelope is late (or lost) has not been shown.
Message == [kind : Kind, length : Nat, question : BOOLEAN, shown : BOOLEAN,
            status : {"in_progress", "finished_successfully", "cut"}]

Texts == Seq(Nat \X Nat \X Nat)

Reader ==
    [last      : Texts,                      \* last_text
     done      : Texts,                      \* done_text
     completed : BOOLEAN,                    \* round_completed_successfully
     cur       : Kind \cup {"none"},         \* what _cur_msg is
     text      : Texts,                      \* the text of _cur_msg
     path      : {"none", "text", "other"},  \* _last_patch_path
     prefix    : Texts,                      \* _implicit_prefix
     seen      : BOOLEAN]                    \* _envelope_seen

\* A done event, and whether it revokes what came before it: it is flagged
\* clarification_unresolved or clarification_followup_incomplete.
DoneEvent == [text : Texts, abnormal : BOOLEAN, revokes : BOOLEAN]

NoEvent == [text |-> <<>>, abnormal |-> TRUE, revokes |-> TRUE]

TypeOK ==
    /\ wire \in [format : {"classic", "v1"}, browser : BOOLEAN]
    /\ stage \in {"setup", "streaming", "returned", "raised", "browser"}
    /\ round \in 0 .. MaxRounds
    /\ thread \in [known : BOOLEAN, parent : BOOLEAN]
    /\ turn \in Seq(Message)
    /\ reader \in Reader
    /\ heard \in [clean : DoneEvent, last : DoneEvent]
    /\ result \in DoneEvent

FreshReader ==
    [last |-> <<>>, done |-> <<>>, completed |-> FALSE, cur |-> "none",
     text |-> <<>>, path |-> "none", prefix |-> <<>>, seen |-> FALSE]

Init ==
    /\ wire \in [format : {"classic", "v1"}, browser : BOOLEAN]
    /\ stage = "setup"
    /\ round = 0
    /\ thread = [known |-> FALSE, parent |-> FALSE]
    /\ turn = <<>>
    /\ reader = FreshReader
    /\ heard = [clean |-> NoEvent, last |-> NoEvent]
    /\ result = NoEvent

-----------------------------------------------------------------------------
(* The request of a round                                                  *)

Ends(how) == stage' = how /\ UNCHANGED <<wire, round, thread, heard, result>>

Post ==
    /\ stage = "setup"
    /\ turn' = <<>> /\ reader' = FreshReader
    /\ Ends("streaming")

\* UpstreamChallengeError: the browser lane answers, if there is one.
Challenged ==
    /\ stage = "setup"
    /\ Ends(IF wire.browser THEN "browser" ELSE "raised")
    /\ UNCHANGED <<turn, reader>>

\* Any other error of the setup or the POST, an error frame, a broken
\* connection: no done event is made up.
Fails ==
    /\ stage \in {"setup", "streaming"}
    /\ Ends("raised")
    /\ UNCHANGED <<turn, reader>>

-----------------------------------------------------------------------------
(* What a frame does to the locals                                         *)

Text(m, n) == [k \in 1 .. n |-> <<round, m, k>>]

\* _invalidate
Invalidated(r) == [r EXCEPT !.completed = FALSE, !.done = <<>>]

\* _text_update
TextUpdate(r, whole, status) ==
    IF status = "finished_successfully"
      THEN [r EXCEPT !.completed = TRUE, !.last = whole, !.done = whole]
      ELSE [Invalidated(r) EXCEPT !.last = whole]

\* _append_delta
AppendDelta(r, piece) == [Invalidated(r) EXCEPT !.last = Append(@, piece)]

\* Mutant of Merged: the envelope always wins.
MergedEnvelope(prefix, whole) == whole

\* Patches that came before their envelope meet it.
Merged(prefix, whole) ==
    IF IsPrefix(prefix, whole) THEN whole
    ELSE IF IsSuffix(whole, prefix) THEN prefix
    ELSE prefix \o whole

\* A tool's message, or one to a tool: the round goes on.
ToolEnvelope(r, kind) ==
    [Invalidated(r) EXCEPT !.last = <<>>, !.cur = kind, !.text = <<>>]

\* The whole of a message.
Envelope(kind, whole, status) ==
    LET read  == [reader EXCEPT !.path = "none", !.seen = TRUE]
        text  == IF reader.prefix = <<>> THEN whole
                                         ELSE Merged(reader.prefix, whole)
    IN reader' =
         CASE kind \in {"tool", "dispatch"} -> ToolEnvelope(read, kind)
           [] kind = "thought" -> [read EXCEPT !.cur = kind, !.text = <<>>]
           [] kind = "answer"  ->
                TextUpdate([read EXCEPT !.cur = kind, !.text = text,
                                        !.prefix = <<>>], text, status)

\* The message patches apply to; before any envelope it is taken for an answer.
Anchor == IF reader.cur = "none" /\ ~reader.seen THEN "answer" ELSE reader.cur

\* A patch of /message/content/parts/0 has made whole of the text.
TextPatched(whole) ==
    [reader EXCEPT !.path = "text", !.cur = Anchor, !.text = whole,
                   !.prefix = IF reader.seen THEN @ ELSE whole]

AppendOp(piece) ==
    LET read == TextPatched(Append(reader.text, piece))
    IN reader' = IF Anchor = "answer" THEN AppendDelta(read, piece) ELSE read

ReplaceOp(whole, status) ==
    LET read == TextPatched(whole)
    IN reader' = IF Anchor = "answer" THEN TextUpdate(read, whole, status)
                                      ELSE read

StatusOp(status) ==
    LET read == [reader EXCEPT !.path = "other", !.cur = Anchor]
    IN reader' = IF Anchor = "answer" THEN TextUpdate(read, reader.text, status)
                                      ELSE read

\* Citations and other metadata, code, tool output.
OtherOp(anchor) == reader' = [reader EXCEPT !.path = "other", !.cur = anchor]

\* A bare string goes on with the path patched last; without one it is a
\* delta of the classic wire.
BareDelta(piece) ==
    /\ reader.path # "other"
    /\ IF reader.path = "text" THEN AppendOp(piece)
       ELSE reader' = IF ~reader.seen \/ reader.cur = "answer"
                        THEN AppendDelta(reader, piece) ELSE reader

-----------------------------------------------------------------------------
(* Upstream writes a round                                                 *)

Live == stage = "streaming"

Newest == Len(turn)

Open == turn # <<>> /\ Last(turn).status = "in_progress"

\* Nothing else is sent before a late envelope.
Shown == turn # <<>> => Last(turn).shown

Streams == UNCHANGED <<wire, stage, round, heard, result>>

\* Any frame may carry the conversation_id; an assistant's envelope has an id.
Identified(assistant) ==
    \E known \in {thread.known, TRUE} :
        thread' = [known |-> known, parent |-> thread.parent \/ assistant]

\* A message begins with its envelope; the first one may begin without.
NewMessage(kind, question) ==
    /\ Live /\ ~Open /\ Shown /\ Newest < MaxMessages
    /\ question => kind = "answer"
    /\ \E n \in 0 .. (IF kind = "answer" THEN 1 ELSE 0), shown \in BOOLEAN :
         /\ n <= MaxLength
         /\ turn' = Append(turn, [kind |-> kind, length |-> n,
                                  question |-> question, shown |-> shown,
                                  status |-> "in_progress"])
         /\ \/ /\ shown
               /\ Envelope(kind, Text(Newest + 1, n), "in_progress")
               /\ Identified(kind # "tool")
            \/ /\ ~shown /\ n = 0 /\ kind = "answer" /\ ~reader.seen
               /\ UNCHANGED <<reader, thread>>
    /\ Streams

\* The late envelope brings the text so far, or only the latest piece of it,
\* or the next one.
LateEnvelope ==
    /\ Live /\ Open /\ ~Last(turn).shown /\ wire.format = "v1"
    /\ \E n \in {Last(turn).length, Last(turn).length + 1} :
         /\ n <= MaxLength
         /\ turn' = [turn EXCEPT ![Newest].shown = TRUE, ![Newest].length = n]
         /\ \E from \in {1, n, n + 1} \ {0} :
              /\ n > Last(turn).length => from = n
              /\ Envelope("answer", SubSeq(Text(Newest, n), from, n), "in_progress")
    /\ Identified(TRUE)
    /\ Streams

\* The text of an answer grows by a piece, in any frame the wire has for it.
Grow ==
    /\ Live /\ Open /\ Last(turn).kind = "answer"
    /\ LET n == Last(turn).length + 1
           shown == Last(turn).shown
       IN /\ n <= MaxLength
          /\ \/ /\ wire.format = "classic"
                /\ turn' = [turn EXCEPT ![Newest].length = n,
                                        ![Newest].shown = TRUE]
                /\ Envelope("answer", Text(Newest, n), "in_progress")
                /\ Identified(TRUE)
             \/ /\ turn' = [turn EXCEPT ![Newest].length = n]
                /\ \/ wire.format = "classic" /\ BareDelta(<<round, Newest, n>>)
                   \/ /\ wire.format = "v1"
                      /\ \/ AppendOp(<<round, Newest, n>>)
                         \/ ReplaceOp(Text(Newest, n), "in_progress")
                         \/ /\ reader.path = "text"
                            /\ BareDelta(<<round, Newest, n>>)
                /\ UNCHANGED thread
    /\ Streams

\* The message is finished, or ends with another status.
Finish(status) ==
    /\ Live /\ Open
    /\ LET m == Last(turn)
       IN \/ /\ wire.format = "classic"
             /\ turn' = [turn EXCEPT ![Newest].status = status,
                                     ![Newest].shown = TRUE]
             /\ Envelope(m.kind, Text(Newest, m.length), status)
             /\ Identified(m.kind # "tool")
          \/ /\ wire.format = "v1"
             /\ turn' = [turn EXCEPT ![Newest].status = status]
             /\ StatusOp(status)
             /\ UNCHANGED thread
    /\ Streams

\* Code, tool output or metadata of the newest message streams past.
OtherOutput ==
    /\ Live /\ wire.format = "v1" /\ Newest > 0
    /\ \/ OtherOp(reader.cur)
       \/ Last(turn).kind = "answer" /\ OtherOp(Anchor)
    /\ UNCHANGED <<turn, thread>>
    /\ Streams

\* A system message annotates the answer without taking its place.
SystemNote ==
    /\ Live /\ Shown
    /\ reader' = [reader EXCEPT !.path = "none", !.seen = TRUE]
    /\ Identified(FALSE)
    /\ UNCHANGED turn
    /\ Streams

-----------------------------------------------------------------------------
(* The end of a round                                                      *)

\* Mutant of Hears: a follow-up that was cut short revokes nothing.
HearsOn(h, e) == [clean |-> IF e.abnormal THEN h.clean ELSE e, last |-> e]

\* The handler keeps the last clean done event and the last one of all.
Hears(h, e) ==
    [clean |-> IF e.revokes THEN NoEvent
               ELSE IF e.abnormal THEN h.clean ELSE e,
     last  |-> e]

Chosen(h) == IF h.clean # NoEvent THEN h.clean ELSE h.last

\* The generator ends, and the handler returns.
Returns(h) ==
    /\ heard' = h
    /\ result' = Chosen(h)
    /\ stage' = "returned"
    /\ UNCHANGED round

\* _looks_like_clarification(done_text)
Asks == reader.done # <<>> /\ turn[Head(reader.done)[2]].question

\* Mutant of Continues: one round too many.
ContinuesOnceMore == Asks /\ round <= MaxRounds /\ thread.known /\ thread.parent

Continues == Asks /\ round < MaxRounds /\ thread.known /\ thread.parent

\* [DONE], or the connection closes.
StreamEnds ==
    /\ Live
    /\ LET done == [text |-> reader.done, abnormal |-> FALSE, revokes |-> FALSE]
           unresolved ==
               [text |-> reader.done, abnormal |-> TRUE, revokes |-> TRUE]
           incomplete ==
               [text |-> reader.last, abnormal |-> TRUE, revokes |-> round > 0]
       IN IF ~reader.completed THEN Returns(Hears(heard, incomplete))
          ELSE IF Continues
                 THEN /\ heard' = Hears(heard, done)
                      /\ round' = round + 1
                      /\ stage' = "setup"
                      /\ UNCHANGED result
          ELSE IF Asks THEN Returns(Hears(Hears(heard, done), unresolved))
                       ELSE Returns(Hears(heard, done))
    /\ UNCHANGED <<wire, thread, turn, reader>>

-----------------------------------------------------------------------------
Next ==
    \/ Post
    \/ Challenged
    \/ Fails
    \/ \E kind \in Kind, question \in BOOLEAN : NewMessage(kind, question)
    \/ LateEnvelope
    \/ Grow
    \/ \E status \in {"finished_successfully", "cut"} : Finish(status)
    \/ OtherOutput
    \/ SystemNote
    \/ StreamEnds

Spec == Init /\ [][Next]_vars

-----------------------------------------------------------------------------
(* Properties *)

\* The messages that count for whether the round is complete.
Relevant == {m \in DOMAIN turn : turn[m].kind # "thought"}

IsLatest(m) == m \in Relevant /\ \A i \in Relevant : i <= m

\* What the parser holds is always the text of the latest answer, complete
\* exactly when that answer is, on both wires, with envelopes that come late
\* and annotations in between (_frame, _text_update).
ReaderInStep ==
    Live =>
        /\ Relevant = {} =>
               reader.last = <<>> /\ ~reader.completed
        /\ \A m \in Relevant : IsLatest(m) =>
               LET msg == turn[m]
                   whole == IF msg.kind = "answer" THEN Text(m, msg.length)
                                                   ELSE <<>>
                   completed == /\ msg.kind = "answer"
                                /\ msg.status = "finished_successfully"
               IN /\ reader.last = whole
                  /\ reader.completed = completed
                  /\ reader.done = IF completed THEN whole ELSE <<>>

\* A report without the note that it may be incomplete is the whole text of a
\* finished answer, the latest of the last round, and not a question: neither
\* an answer of an earlier round, nor one that a tool call has overtaken.
PlainReportIsFinished ==
    [][stage = "streaming" /\ stage' = "returned" /\ ~result'.abnormal =>
           \E m \in Relevant :
               /\ IsLatest(m)
               /\ turn[m].kind = "answer"
               /\ turn[m].status = "finished_successfully"
               /\ turn[m].question => turn[m].length = 0
               /\ result'.text = Text(m, turn[m].length)]_vars
=============================================================================
