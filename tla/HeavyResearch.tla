---------------------------- MODULE HeavyResearch ----------------------------
(***************************************************************************)
(* One call of the deep_research_heavy tool: the two phases of             *)
(* ConversationClient.deep_research_heavy and _poll_dr_completion (sse.py) *)
(* and the handler in server.py.                                           *)
(*                                                                         *)
(* The model dispatches the Deep Research connector.  It may answer at     *)
(* once, fail, or accept the task and acknowledge it in words: then the    *)
(* report appears in a widget of the conversation, minutes after the       *)
(* stream has ended, and only the polls find it.  The k-th piece of text   *)
(* of the m-th message is <<m, k>>; the text of the widget is <<0, 1>>.    *)
(***************************************************************************)
EXTENDS Naturals, SequencesExt

CONSTANTS
    MaxMessages,    \* bound: messages of the conversation
    MaxLength,      \* bound: pieces of text of an answer
    Interval,       \* between two elapsed, in minutes, as are the next two
    Pause,          \* after a 429
    MaxWait         \* max_wait

ASSUME BoundsAssumption ==
    /\ MaxMessages \in Nat /\ MaxLength \in Nat
    /\ Interval \in Nat \ {0} /\ Pause \in Nat /\ MaxWait \in Nat

VARIABLES
    cooldown,   \* "feature:deep_research_heavy" is cooling down on this host
    stage,      \* where the call stands
    turn,       \* the messages upstream has written
    widget,     \* the connector's report
    reader,     \* the state dict of phase 1
    emitted,    \* last_emitted of phase 2
    elapsed,    \* time spent in the sleeps of phase 2
    result      \* what the handler returned

vars == <<cooldown, stage, turn, widget, reader, emitted, elapsed, result>>

\* The assistant's messages to all; the connector call; the tool's messages.
\* An ack the model has reworded is not known by its first words.
Worded == {"dispatch", "ack", "reworded", "answer"}
Kind == Worded \cup {"call", "start", "error"}

\* verified: the start names the connector.
Message == [kind : Kind, length : Nat, finished : BOOLEAN, verified : BOOLEAN]

Texts == Seq(Nat \X Nat)

\* A done event with the flags the handler turns into notes.
DoneEvent == [text : Texts, failed : BOOLEAN, abnormal : BOOLEAN]

NoEvent == [text |-> <<>>, failed |-> FALSE, abnormal |-> FALSE]

Reader ==
    [text     : Texts,     \* asst_text
     dispatch : BOOLEAN,   \* is_connector_dispatch
     known    : BOOLEAN,   \* conversation_id
     invoked  : BOOLEAN,   \* tool_invoked
     failed   : BOOLEAN,   \* tool_failed
     pending  : BOOLEAN,   \* dr_async_pending
     started  : BOOLEAN,   \* dr_connector_started
     lower    : BOOLEAN,   \* resolved_model is a lower tier
     done     : DoneEvent] \* pending_done

Ended == {"returned", "raised"}

TypeOK ==
    /\ cooldown \in BOOLEAN
    /\ stage \in {"setup", "streaming", "polling"} \cup Ended
    /\ turn \in Seq(Message)
    /\ widget \in {"none", "draft", "completed"}
    /\ reader \in Reader
    /\ emitted \in Texts
    /\ elapsed \in Nat /\ elapsed < MaxWait + Interval + Pause
    /\ result \in DoneEvent

Init ==
    /\ cooldown \in BOOLEAN
    /\ stage = "setup"
    /\ turn = <<>>
    /\ widget = "none"
    /\ reader = [text |-> <<>>, dispatch |-> FALSE, known |-> FALSE,
                 invoked |-> FALSE, failed |-> FALSE, pending |-> FALSE,
                 started |-> FALSE, lower |-> FALSE, done |-> NoEvent]
    /\ emitted = <<>>
    /\ elapsed = 0
    /\ result = NoEvent

-----------------------------------------------------------------------------
(* The request                                                             *)

Upstream == UNCHANGED <<turn, widget>>

Raises ==
    /\ stage' = "raised"
    /\ Upstream /\ UNCHANGED <<reader, emitted, elapsed, result>>

\* A cap that any process of this host has seen.
QuotaExhausted == stage = "setup" /\ cooldown /\ Raises /\ UNCHANGED cooldown

\* Headers, tokens and the POST.
Post ==
    /\ stage = "setup" /\ ~cooldown
    /\ stage' = "streaming"
    /\ Upstream /\ UNCHANGED <<cooldown, reader, emitted, elapsed, result>>

\* The setup fails, the POST is refused, an error frame comes or the
\* connection breaks.
Fails == stage \in {"setup", "streaming"} /\ Raises /\ UNCHANGED cooldown

\* An error frame says that the usage limit is reached.
UsageLimit == stage = "streaming" /\ cooldown' = TRUE /\ Raises

CooldownEnds ==
    /\ cooldown /\ cooldown' = FALSE
    /\ Upstream /\ UNCHANGED <<stage, reader, emitted, elapsed, result>>

-----------------------------------------------------------------------------
(* What a frame does to the state dict                                     *)

Text(m, n) == [k \in 1 .. n |-> <<m, k>>]

KindAt(t, text) == t[Head(text)[1]].kind

\* _is_connector_dispatch_text: the first words tell.
IsDispatch(t, text) ==
    text # <<>> /\ KindAt(t, text) \in {"dispatch", "call"}

\* _is_dr_async_ack
IsAck(t, text) == text # <<>> /\ KindAt(t, text) = "ack"

\* Mutant of EmitDone: the words of the ack are all that is looked at.
EmitDoneWords(t, r) ==
    IF \/ r.done # NoEvent \/ r.dispatch \/ r.text = <<>>
       \/ ~r.failed /\ IsAck(t, r.text)
      THEN r
      ELSE [r EXCEPT !.done = [text |-> r.text, failed |-> r.failed,
                               abnormal |-> FALSE]]

\* A text has finished; _emit_done, with the guards of its callers.
EmitDone(t, r) ==
    IF \/ r.done # NoEvent \/ r.dispatch \/ r.text = <<>>
       \/ ~r.failed /\ (r.pending \/ IsAck(t, r.text))
      THEN r
      ELSE [r EXCEPT !.done = [text |-> r.text, failed |-> r.failed,
                               abnormal |-> FALSE]]

\* _on_envelope
Envelope(t, m, whole) ==
    LET msg  == t[m]
        text == [reader EXCEPT !.text = whole, !.dispatch = IsDispatch(t, whole)]
    IN CASE msg.kind \in Worded -> IF msg.finished THEN EmitDone(t, text) ELSE text
         [] msg.kind = "call"   -> [reader EXCEPT !.invoked = TRUE]
         [] msg.kind = "start"  -> [reader EXCEPT !.pending = TRUE, !.done = NoEvent,
                                                  !.started = @ \/ msg.verified]
         [] msg.kind = "error"  -> [reader EXCEPT !.failed = TRUE]

\* A patch of /message/content/parts/0: whose text it is, the code cannot tell.
TextOp(t, whole) ==
    [reader EXCEPT !.text = whole, !.dispatch = IsDispatch(t, whole)]

AppendOp(t, piece) == TextOp(t, Append(reader.text, piece))

\* A patch of /message/status
StatusOp(t) == EmitDone(t, reader)

-----------------------------------------------------------------------------
(* Upstream writes                                                         *)

Writing == stage \in {"streaming", "polling"}

Live == stage = "streaming"

Newest == Len(turn)

Open == turn # <<>> /\ ~Last(turn).finished

Wrote(kind) == \E m \in DOMAIN turn : turn[m].kind = kind

\* What follows what: the tool answers a call, and an ack follows a start.  An
\* answer that is finished may be a preamble, with anything still to come.
MayWrite(kind) ==
    /\ kind \in {"start", "error"} => Wrote("call")
    /\ kind \in {"ack", "reworded"} => Wrote("start")

Unanswered == UNCHANGED <<cooldown, stage, emitted, elapsed, result>>

\* A message begins.  An answer after an empty placeholder may come without
\* an envelope of its own.
NewMessage(kind) ==
    /\ Writing /\ ~Open /\ Newest < MaxMessages /\ MayWrite(kind)
    /\ \E finished, verified \in BOOLEAN :
         /\ kind \in {"start", "error"} => finished
         /\ verified => kind = "start"
         /\ LET message == [kind |-> kind, length |-> 0, finished |-> finished,
                            verified |-> verified]
                t == Append(turn, message)
            IN /\ turn' = t
               /\ \/ Live /\ reader' = Envelope(t, Newest + 1, <<>>)
                  \/ /\ Live /\ kind = "answer" /\ reader.text = <<>>
                     /\ turn # <<>> /\ ~finished
                     /\ UNCHANGED reader
                  \/ ~Live /\ UNCHANGED reader
    /\ Unanswered /\ UNCHANGED widget

Grow ==
    /\ Writing /\ Open /\ Last(turn).kind \in Worded \cup {"call"}
    /\ LET m == Last(turn)
           n == m.length + 1
           t == [turn EXCEPT ![Newest].length = n]
       IN /\ n <= (IF m.kind = "answer" THEN MaxLength ELSE 1)
          /\ turn' = t
          /\ \/ Live /\ reader' = AppendOp(t, <<Newest, n>>)
             \/ Live /\ m.kind \in Worded /\ reader' = TextOp(t, Text(Newest, n))
             \/ ~Live /\ UNCHANGED reader
    /\ Unanswered /\ UNCHANGED widget

Finish ==
    /\ Writing /\ Open
    /\ LET t == [turn EXCEPT ![Newest].finished = TRUE]
       IN /\ turn' = t
          /\ \/ Live /\ reader' = StatusOp(t)
             \/ /\ Live /\ Last(turn).kind \in Worded
                /\ reader' = Envelope(t, Newest, Text(Newest, Last(turn).length))
             \/ ~Live /\ UNCHANGED reader
    /\ Unanswered /\ UNCHANGED widget

\* Once it has accepted the task, the connector drafts and completes a report.
WidgetChanges ==
    /\ Writing /\ Wrote("start")
    /\ \/ widget = "none" /\ widget' = "draft"
       \/ widget = "draft" /\ widget' = "completed"
    /\ Unanswered /\ UNCHANGED <<turn, reader>>

\* server_ste_metadata, and any frame that carries the conversation_id.
Meta ==
    /\ Live
    /\ \E invoked, lower, known \in BOOLEAN :
         /\ invoked => Wrote("call")
         /\ reader' = [reader EXCEPT !.invoked = @ \/ invoked, !.lower = lower,
                                     !.known = @ \/ known]
    /\ Unanswered /\ Upstream

-----------------------------------------------------------------------------
(* The end of phase 1                                                      *)

Returns(event) == stage' = "returned" /\ result' = event

\* Mutant of Refused: whatever model has answered.
RefusedNever == FALSE

\* A lower tier has answered in place of the model that was asked for.
Refused == reader.lower /\ ~reader.started

\* The seed of phase 2: not what is known not to be the report.
Seed ==
    IF \/ reader.pending \/ IsDispatch(turn, reader.text)
       \/ IsAck(turn, reader.text)
      THEN <<>> ELSE reader.text

StreamEnds ==
    /\ Live
    /\ \/ Refused /\ stage' = "raised" /\ UNCHANGED <<emitted, result>>
       \/ /\ ~Refused /\ reader.done # NoEvent
          /\ Returns(reader.done) /\ UNCHANGED emitted
       \/ /\ ~Refused /\ reader.done = NoEvent /\ reader.known /\ reader.invoked
          /\ stage' = "polling" /\ emitted' = Seed /\ UNCHANGED result
       \/ /\ ~Refused /\ reader.done = NoEvent /\ ~(reader.known /\ reader.invoked)
          /\ IF reader.text = <<>>
               THEN stage' = "raised" /\ UNCHANGED result
               ELSE Returns([text |-> reader.text, failed |-> FALSE,
                             abnormal |-> TRUE])
          /\ UNCHANGED emitted
    /\ Upstream /\ UNCHANGED <<cooldown, reader, elapsed>>

-----------------------------------------------------------------------------
(* Phase 2: _poll_dr_completion                                            *)

WidgetText == << <<0, 1>> >>

\* _dr_report_from_widget_state
Report == IF widget = "completed" THEN WidgetText ELSE <<>>

\* The texts that may be the report.
Candidates ==
    IF reader.pending THEN {}
    ELSE {m \in DOMAIN turn : turn[m].kind \in {"reworded", "answer"}
                              /\ turn[m].length > 0}

\* Mutant of Polled: the flag is lost between the phases.
PolledPlain(text) ==
    Returns([text |-> text, failed |-> FALSE, abnormal |-> FALSE])

Polled(text) ==
    Returns([text |-> text, failed |-> reader.failed, abnormal |-> FALSE])

\* Mutant of Polling: the deadline is no longer before the deadline.
PollingOnceMore == stage = "polling" /\ elapsed <= MaxWait

\* The deadline is looked at before an interval and not after it.
Polling == stage = "polling" /\ elapsed < MaxWait

PollReads ==
    /\ Polling
    /\ elapsed' = elapsed + Interval
    /\ IF Report # <<>> THEN Polled(Report) /\ UNCHANGED emitted
       ELSE \/ Candidates = {} /\ UNCHANGED <<stage, result, emitted>>
            \/ \E m \in Candidates :
                 /\ \A i \in Candidates : i <= m
                 /\ emitted' = Text(m, turn[m].length)
                 /\ IF turn[m].finished THEN Polled(Text(m, turn[m].length))
                                        ELSE UNCHANGED <<stage, result>>
    /\ Upstream /\ UNCHANGED <<cooldown, reader>>

\* The poll fails; a 429 is waited out, beyond the deadline if need be.
PollFails ==
    /\ Polling
    /\ elapsed' \in {elapsed + Interval, elapsed + Interval + Pause}
    /\ Upstream /\ UNCHANGED <<cooldown, stage, reader, emitted, result>>

\* Mutant of TimesOut: without a text the call goes on waiting.
TimesOutWithText ==
    /\ stage = "polling" /\ ~Polling /\ emitted # <<>>
    /\ Returns([text |-> emitted, failed |-> reader.failed, abnormal |-> TRUE])
    /\ Upstream /\ UNCHANGED <<cooldown, reader, emitted, elapsed>>

TimesOut ==
    /\ stage = "polling" /\ ~Polling
    /\ IF emitted = <<>>
         THEN stage' = "raised" /\ UNCHANGED result
         ELSE Returns([text |-> emitted, failed |-> reader.failed,
                       abnormal |-> TRUE])
    /\ Upstream /\ UNCHANGED <<cooldown, reader, emitted, elapsed>>

-----------------------------------------------------------------------------
Next ==
    \/ QuotaExhausted
    \/ Post
    \/ Fails
    \/ UsageLimit
    \/ CooldownEnds
    \/ \E kind \in Kind : NewMessage(kind)
    \/ Grow
    \/ Finish
    \/ WidgetChanges
    \/ Meta
    \/ StreamEnds
    \/ PollReads
    \/ PollFails
    \/ TimesOut

Spec == Init /\ [][Next]_vars

\* The setup answers in bounded time, the POST and its stream have a timeout,
\* and the polls go by the clock.
FairSpec ==
    /\ Spec
    /\ WF_vars(QuotaExhausted \/ Post \/ Fails)
    /\ WF_vars(StreamEnds \/ Fails)
    /\ WF_vars(PollReads \/ PollFails \/ TimesOut)

-----------------------------------------------------------------------------
(* Properties *)

Returning == stage # "returned" /\ stage' = "returned"

Plain == ~result'.failed /\ ~result'.abnormal

\* A report without a note is the completed widget, and nothing else once the
\* stream has shown the connector's start.  Before that it is the whole text of a
\* finished message of the assistant: one that the stream has brought is neither
\* the dispatch nor an acknowledgement in whatever words.  A poll is sure only of
\* the dispatch and of the acknowledgement in the words the code knows, with a note
\* or without: when the connector starts after the stream has ended, another
\* wording of it does pass for the report.
PlainReportIsReport ==
    [][Returning =>
           \/ result'.text = WidgetText /\ (Plain => widget = "completed")
           \/ /\ ~reader.pending
              /\ Plain => \E m \in DOMAIN turn :
                    /\ \/ turn[m].kind = "answer"
                       \/ turn[m].kind = "reworded" /\ stage = "polling"
                    /\ turn[m].finished
                    /\ result'.text = Text(m, turn[m].length)
              /\ stage = "polling" => /\ ~IsDispatch(turn, result'.text)
                                     /\ ~IsAck(turn, result'.text)
           \/ ~Plain /\ stage # "polling"]_vars

\* The words of a lower tier are never passed off as the heavy report: once
\* another model was resolved, only the connector's widget counts.
LowerTierIsRefused ==
    [][Returning /\ reader.lower /\ Plain => result'.text = WidgetText]_vars

\* Once the stream has shown that the connector failed, whatever is returned
\* carries the warning, with two exceptions: an answer that was finished before the
\* failure, which stays the done event, and a text that breaks off in a stream
\* nobody can poll for, which is only marked as incomplete.
ConnectorErrorIsTold ==
    [][Returning /\ reader.failed =>
           \/ result'.failed
           \/ /\ result'.abnormal /\ stage = "streaming"
              /\ ~(reader.known /\ reader.invoked)
           \/ \E m, e \in DOMAIN turn :
                /\ m < e /\ turn[e].kind = "error"
                /\ turn[m].kind = "answer" /\ turn[m].finished
                /\ result' = [text |-> Text(m, turn[m].length), failed |-> FALSE,
                              abnormal |-> FALSE]]_vars

\* The call comes to an end.
CallEnds == <>(stage \in Ended)
=============================================================================
