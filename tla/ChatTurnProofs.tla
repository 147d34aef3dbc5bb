--------------------------- MODULE ChatTurnProofs ---------------------------
(***************************************************************************)
(* What ChatTurn promises of one call of complete(), for turns of any      *)
(* number of messages and any length.                                      *)
(***************************************************************************)
EXTENDS ChatTurn, TLAPS

USE BoundsAssumption

-----------------------------------------------------------------------------
(* Sequences *)

LEMMA PrefixOfItself ==
    ASSUME NEW S, NEW s \in Seq(S)
    PROVE  IsPrefix(s, s)
BY DEF IsPrefix

LEMMA TextType ==
    ASSUME NEW m \in Nat, NEW n \in Nat
    PROVE  Text(m, n) \in Texts
BY DEF Text, Texts

LEMMA UnseenType ==
    ASSUME NEW seen \in Texts, NEW whole \in Texts
    PROVE  Unseen(seen, whole) \in Texts
BY DEF Unseen, IsPrefix, Texts

LEMMA TextGrows ==
    ASSUME NEW s \in Texts, NEW t \in Texts
    PROVE  s \o t \in Texts
BY DEF Texts

LEMMA PieceAdded ==
    ASSUME NEW s \in Texts, NEW m \in Nat, NEW n \in Nat
    PROVE  Append(s, <<m, n>>) \in Texts
BY DEF Texts

-----------------------------------------------------------------------------
(* Types *)

Typed == TypeOK

\* An envelope leaves the locals of stream() and the text well-typed.
LEMMA EnvelopeTyped ==
    ASSUME Typed, NEW m \in Nat, NEW n \in Nat, NEW fin \in BOOLEAN,
           NEW kind \in {"answer", "dispatch", "tool"},
           Envelope(m, kind, n, fin)
    PROVE  reader' \in Reader /\ text' \in Texts
<1> DEFINE seen == IF m = reader.id THEN reader.last ELSE <<>>
<1>1. reader \in Reader /\ text \in Texts /\ reader.last \in Texts
  BY DEF Typed, TypeOK, Reader
<1>2. seen \in Texts
  BY <1>1 DEF Texts
<1>3. Text(m, n) \in Texts /\ Unseen(seen, Text(m, n)) \in Texts
  BY <1>2, TextType, UnseenType
<1>4. Completes(kind, fin) \in BOOLEAN
  BY DEF Completes
<1> HIDE DEF seen
<1>5. text' \in Texts
  BY <1>1, <1>3, TextGrows DEF Envelope, seen
<1>6. reader' \in Reader
  <2>1. CASE kind = "tool"
    BY <2>1, <1>1, <1>4 DEF Envelope, Reader
  <2>2. CASE kind # "tool"
    BY <2>2, <1>1, <1>2, <1>3, <1>4 DEF Envelope, Reader, seen
  <2> QED
    BY <2>1, <2>2
<1> QED
  BY <1>5, <1>6

\* So do the patches.
LEMMA PatchTyped ==
    ASSUME Typed, NEW m \in Nat, NEW n \in Nat,
           \/ AppendOp(<<m, n>>) \/ BareDelta(<<m, n>>)
           \/ ReplaceOp(Text(m, n)) \/ OtherOp
    PROVE  reader' \in Reader /\ text' \in Texts
<1>1. /\ reader \in Reader /\ text \in Texts
      /\ reader.last \in Texts /\ reader.cur \in Texts
  BY DEF Typed, TypeOK, Reader
<1>2. /\ Append(reader.last, <<m, n>>) \in Texts
      /\ Append(reader.cur, <<m, n>>) \in Texts
      /\ Append(text, <<m, n>>) \in Texts
  BY <1>1, PieceAdded
<1>3. /\ Text(m, n) \in Texts
      /\ text \o Unseen(reader.last, Text(m, n)) \in Texts
  BY <1>1, TextType, UnseenType, TextGrows
<1>4. CASE AppendOp(<<m, n>>)
  BY <1>4, <1>1, <1>2 DEF AppendOp, Reader
<1>5. CASE BareDelta(<<m, n>>)
  BY <1>5, <1>1, <1>2 DEF BareDelta, Reader
<1>6. CASE ReplaceOp(Text(m, n))
  BY <1>6, <1>1, <1>3 DEF ReplaceOp, Reader
<1>7. CASE OtherOp
  BY <1>7, <1>1 DEF OtherOp, Reader
<1> QED
  BY <1>4, <1>5, <1>6, <1>7

LEMMA NewestMessage ==
    ASSUME Typed, turn # <<>>
    PROVE  Newest \in DOMAIN turn /\ Newest \in Nat /\ Last(turn) \in Message
           /\ Last(turn) = turn[Newest]
BY DEF Typed, TypeOK, Newest, Last

LEMMA MessageAppended ==
    ASSUME Typed, NEW msg \in Message
    PROVE  Append(turn, msg) \in Seq(Message)
BY DEF Typed, TypeOK

LEMMA MessageChanged ==
    ASSUME Typed, NEW n \in Nat, turn # <<>>
    PROVE  /\ [turn EXCEPT ![Newest].length = n] \in Seq(Message)
           /\ [turn EXCEPT ![Newest].finished = TRUE] \in Seq(Message)
<1>1. turn \in Seq(Message) /\ Newest \in DOMAIN turn /\ turn[Newest] \in Message
  BY NewestMessage DEF Typed, TypeOK
<1>2. /\ [turn[Newest] EXCEPT !.length = n] \in Message
      /\ [turn[Newest] EXCEPT !.finished = TRUE] \in Message
  BY <1>1 DEF Message
<1> QED
  BY <1>1, <1>2

LEMMA SomethingUnfinished ==
    ASSUME Typed, ~AllFinished
    PROVE  turn # <<>>
BY DEF AllFinished, Typed, TypeOK

LEMMA InitTyped == Init => Typed
<1> SUFFICES ASSUME Init PROVE TypeOK
  BY DEF Typed
<1>1. <<>> \in Texts /\ turn \in Seq(Message)
  BY DEF Texts, Init
<1>2. reader \in Reader
  BY <1>1 DEF Init, Reader
<1>3. errors \in 0 .. MaxErrors - 1
  BY DEF Init
<1> QED
  BY <1>1, <1>2, <1>3 DEF Init, TypeOK, Stage

\* What complete() may end with is a text.
LEMMA EndsTyped ==
    ASSUME Typed, NEW answer \in Texts,
           \/ Returns(answer) \/ Raises \/ PollRaises
           \/ stage \in Polling /\ Polled(answer)
           \/ \E why \in Polling : Polls(why)
           \/ UNCHANGED <<stage, result>>
    PROVE  stage' \in Stage /\ result' \in Texts
<1>1. text \in Texts /\ result \in Texts /\ stage \in Stage
  BY DEF Typed, TypeOK
<1>2. Preferred(answer) \in Texts
  BY <1>1 DEF Preferred
<1>3. CASE stage \in Polling /\ Polled(answer)
  <2>1. CASE stage = "handoff"
    BY <1>2, <1>3, <2>1 DEF Polled, Returns, Stage
  <2>2. CASE stage = "async"
    BY <1>3, <2>2 DEF Polled, Returns, Stage
  <2>3. CASE stage = "incomplete"
    BY <1>1, <1>3, <2>3 DEF Polled, Returns, Raises, Stage
  <2> QED
    BY <1>3, <2>1, <2>2, <2>3 DEF Polling
<1> QED
  BY <1>1, <1>3 DEF Returns, Raises, PollRaises, Polls, Stage, Polling

\* The steps of upstream: NewMessage, Grow and Finish.
LEMMA WritingTyped ==
    ASSUME Typed,
           \/ \E kind \in {"answer", "dispatch", "tool"} : NewMessage(kind)
           \/ Grow
           \/ Finish
    PROVE  Typed'
<1>1. SUFFICES turn' \in Seq(Message) /\ reader' \in Reader /\ text' \in Texts
  BY DEF Typed, TypeOK, NewMessage, Grow, Finish, Unanswered
<1>2. ASSUME NEW kind \in {"answer", "dispatch", "tool"}, NewMessage(kind)
      PROVE  turn' \in Seq(Message) /\ reader' \in Reader /\ text' \in Texts
  <2>1. PICK n \in 0 .. (IF kind = "tool" THEN 0 ELSE 1) :
          /\ turn' = Append(turn, [kind |-> kind, length |-> n, finished |-> FALSE])
          /\ \/ Envelope(Newest + 1, kind, n, FALSE)
             \/ Silently
    BY <1>2 DEF NewMessage
  <2>2. n \in Nat /\ [kind |-> kind, length |-> n, finished |-> FALSE] \in Message
    BY <2>1 DEF Message
  <2>3. Newest + 1 \in Nat
    BY DEF Newest, Typed, TypeOK
  <2>4. turn' \in Seq(Message)
    BY <2>1, <2>2, MessageAppended
  <2>5. reader' \in Reader /\ text' \in Texts
    BY <2>1, <2>2, <2>3, EnvelopeTyped DEF Silently, Typed, TypeOK
  <2> QED
    BY <2>4, <2>5
<1>3. CASE Grow
  <2> DEFINE n == Last(turn).length + 1
  <2>1. /\ turn # <<>> /\ Newest \in Nat /\ Last(turn) \in Message
        /\ turn' = [turn EXCEPT ![Newest].length = n]
    BY <1>3, SomethingUnfinished, NewestMessage DEF Grow
  <2>2. n \in Nat /\ Last(turn).kind \in {"answer", "dispatch", "tool"}
    BY <2>1 DEF Message
  <2>3. \/ Envelope(Newest, Last(turn).kind, n, FALSE)
        \/ AppendOp(<<Newest, n>>) \/ BareDelta(<<Newest, n>>)
        \/ ReplaceOp(Text(Newest, n))
        \/ Silently
    BY <1>3 DEF Grow
  <2>4. turn' \in Seq(Message)
    BY <2>1, <2>2, MessageChanged
  <2> HIDE DEF n
  <2>5. reader' \in Reader /\ text' \in Texts
    BY <2>1, <2>2, <2>3, EnvelopeTyped, PatchTyped DEF Silently, Typed, TypeOK
  <2> QED
    BY <2>4, <2>5
<1>4. CASE Finish
  <2>1. /\ turn # <<>> /\ Newest \in Nat /\ Last(turn) \in Message
        /\ turn' = [turn EXCEPT ![Newest].finished = TRUE]
    BY <1>4, SomethingUnfinished, NewestMessage DEF Finish
  <2>2. /\ Last(turn).length \in Nat
        /\ Last(turn).kind \in {"answer", "dispatch", "tool"}
    BY <2>1 DEF Message
  <2>3. \/ Envelope(Newest, Last(turn).kind, Last(turn).length, TRUE)
        \/ OtherOp
        \/ Silently
    BY <1>4 DEF Finish
  <2>4. turn' \in Seq(Message)
    BY <2>1, MessageChanged, 0 \in Nat
  <2>5. reader' \in Reader /\ text' \in Texts
    BY <2>1, <2>2, <2>3, EnvelopeTyped, PatchTyped DEF Silently, Typed, TypeOK
  <2> QED
    BY <2>4, <2>5
<1> QED
  BY <1>2, <1>3, <1>4, <1>1

\* The steps in which the call returns, raises or goes on polling.
LEMMA AnswerTyped ==
    ASSUME Typed,
           \/ Done \/ ConnectionCloses \/ ConnectionFails
           \/ PollReads \/ PollFails \/ PollFindsNothing \/ PollTimesOut
    PROVE  Typed'
<1>1. SUFFICES /\ stage' \in Stage /\ result' \in Texts
               /\ errors' \in 0 .. MaxErrors - 1
  BY DEF Typed, TypeOK, Done, ConnectionCloses, StreamEnds, ConnectionFails,
         PollReads, PollFails, PollFindsNothing, PollTimesOut, Upstream
<1>2. <<>> \in Texts /\ text \in Texts
  BY DEF Typed, TypeOK, Texts
<1>3. errors' \in 0 .. MaxErrors - 1
  <2>1. errors \in 0 .. MaxErrors - 1 /\ 0 \in 0 .. MaxErrors - 1
    BY DEF Typed, TypeOK
  <2>2. errors' = errors \/ errors' = 0 \/ (~GivesUp /\ errors' = errors + 1)
    BY DEF Done, ConnectionCloses, StreamEnds, ConnectionFails, PollReads,
           PollFails, PollFindsNothing, PollTimesOut
  <2> QED
    BY <2>1, <2>2 DEF GivesUp
<1>4. CASE Done \/ ConnectionCloses \/ ConnectionFails
  <2>1. Returns(text) \/ Raises \/ (\E why \in Polling : Polls(why))
    BY <1>4 DEF Done, ConnectionCloses, ConnectionFails, StreamEnds, Polling
  <2> QED
    BY <2>1, <1>2, <1>3, EndsTyped
<1>5. CASE PollReads
  <2>1. CASE UNCHANGED <<stage, result>>
    BY <2>1, <1>2, <1>3, EndsTyped
  <2>2. CASE \E newest \in Candidates :
               Polled(Text(newest, turn[newest].length))
    <3>1. PICK newest \in Candidates : Polled(Text(newest, turn[newest].length))
      BY <2>2
    <3>2. newest \in Nat /\ turn[newest].length \in Nat
      <4>1. turn \in Seq(Message) /\ newest \in DOMAIN turn
        BY DEF Candidates, Typed, TypeOK
      <4>2. newest \in Nat /\ turn[newest] \in Message
        BY <4>1
      <4> QED
        BY <4>2 DEF Message
    <3>3. Text(newest, turn[newest].length) \in Texts
      BY <3>2, TextType
    <3>4. stage \in Polling
      BY <1>5 DEF PollReads
    <3> QED
      BY <3>1, <3>3, <3>4, <1>3, EndsTyped
  <2> QED
    BY <1>5, <2>1, <2>2 DEF PollReads
<1>6. CASE PollFails \/ PollFindsNothing
  BY <1>6, <1>2, <1>3, EndsTyped DEF PollFails, PollFindsNothing
<1>7. CASE PollTimesOut
  BY <1>7, <1>2, <1>3, EndsTyped DEF PollTimesOut
<1> QED
  BY <1>4, <1>5, <1>6, <1>7, <1>1

LEMMA StepTyped == Typed /\ [Next]_vars => Typed'
<1> SUFFICES ASSUME Typed, [Next]_vars PROVE Typed'
  OBVIOUS
<1>1. CASE \/ \E kind \in {"answer", "dispatch", "tool"} : NewMessage(kind)
           \/ Grow
           \/ Finish
  BY <1>1, WritingTyped
<1>2. CASE ToolOutput
  <2>1. reader' \in Reader /\ text' \in Texts
    BY <1>2, PatchTyped, 0 \in Nat DEF ToolOutput
  <2> QED
    BY <1>2, <2>1 DEF ToolOutput, Unanswered, Typed, TypeOK
<1>3. CASE EndTurn \/ Notice \/ Handoff
  <2>1. reader' \in Reader
    BY <1>3 DEF EndTurn, Notice, Handoff, Typed, TypeOK, Reader
  <2> QED
    BY <1>3, <2>1 DEF EndTurn, Notice, Handoff, Unanswered, Typed, TypeOK
<1>4. CASE Abort
  BY <1>4 DEF Abort, Typed, TypeOK, Stage
<1>5. CASE \/ Done \/ ConnectionCloses \/ ConnectionFails
           \/ PollReads \/ PollFails \/ PollFindsNothing \/ PollTimesOut
  BY <1>5, AnswerTyped
<1>6. CASE UNCHANGED vars
  BY <1>6 DEF vars, Typed, TypeOK
<1> QED
  BY <1>1, <1>2, <1>3, <1>4, <1>5, <1>6 DEF Next

\* The locals of stream() and complete() keep their types, whatever upstream
\* sends (sse.py).
THEOREM TypeCorrect == Spec => []TypeOK
<1>1. Typed => TypeOK
  BY DEF Typed
<1> QED
  BY InitTyped, StepTyped, <1>1, PTL DEF Spec

-----------------------------------------------------------------------------
(* What the stream is taken to be *)

Answered == turn # <<>> /\ Last(turn).kind = "answer" /\ Last(turn).finished

Bookkeeping ==
    /\ Live /\ (reader.completed \/ over) => Answered
    /\ turn = <<>> => text = <<>>
    /\ stage = "async" => text = <<>>

\* An envelope completes the turn only with the message it announces.
LEMMA EnvelopeCompletes ==
    ASSUME Typed, NEW m, NEW kind, NEW n, NEW finished \in BOOLEAN,
           Envelope(m, kind, n, finished)
    PROVE  reader'.completed => kind = "answer" /\ finished
BY DEF Envelope, Completes, Typed, TypeOK, Reader

\* A patch of text takes the completion back.
LEMMA PatchCompletes ==
    ASSUME Typed, NEW piece, NEW whole,
           AppendOp(piece) \/ ReplaceOp(whole) \/ BareDelta(piece)
    PROVE  ~reader'.completed
BY DEF AppendOp, ReplaceOp, BareDelta, Typed, TypeOK, Reader

LEMMA BookkeepingInit == Init => Bookkeeping
BY DEF Init, Bookkeeping, Live

LEMMA BookkeepingStep == Typed /\ Bookkeeping /\ [Next]_vars => Bookkeeping'
<1> SUFFICES ASSUME Typed, Bookkeeping, [Next]_vars PROVE Bookkeeping'
  OBVIOUS
<1>1. ASSUME NEW kind \in {"answer", "dispatch", "tool"}, NewMessage(kind)
      PROVE  Bookkeeping'
  <2>1. turn' # <<>> /\ ~over' /\ stage' = stage /\ reader.handoff \in BOOLEAN
    BY <1>1 DEF NewMessage, Writing, Unanswered, Typed, TypeOK, Reader
  <2>2. CASE Live
    <3>1. ~reader'.completed
      BY <1>1, <2>2, EnvelopeCompletes DEF NewMessage, Silently
    <3> QED
      BY <2>1, <2>2, <3>1 DEF Bookkeeping, Live
  <2>3. CASE ~Live
    BY <1>1, <2>1, <2>3 DEF NewMessage, Bookkeeping, Live, Silently
  <2> QED
    BY <2>2, <2>3
<1>2. CASE Grow
  <2>1. turn # <<>> /\ Len(turn') = Len(turn) /\ turn' # <<>>
    <3>1. turn # <<>>
      BY <1>2, SomethingUnfinished DEF Grow
    <3> QED
      BY <1>2, <3>1 DEF Grow, Typed, TypeOK
  <2>2. ~over' /\ stage' = stage
    BY <1>2 DEF Grow, Writing, Unanswered
  <2>3. CASE Live
    <3>1. ~reader'.completed
      BY <1>2, <2>3, EnvelopeCompletes, PatchCompletes DEF Grow, Silently
    <3> QED
      BY <2>1, <2>2, <2>3, <3>1 DEF Bookkeeping, Live
  <2>4. CASE ~Live
    BY <1>2, <2>1, <2>2, <2>4 DEF Grow, Bookkeeping, Live, Silently
  <2> QED
    BY <2>3, <2>4
<1>3. CASE Finish
  <2>1. /\ turn # <<>> /\ Last(turn) \in Message /\ Newest \in DOMAIN turn
        /\ Last(turn) = turn[Newest] /\ turn \in Seq(Message)
    BY <1>3, SomethingUnfinished, NewestMessage DEF Finish, Typed, TypeOK
  <2>2. turn' # <<>> /\ Last(turn') = [Last(turn) EXCEPT !.finished = TRUE]
    BY <1>3, <2>1 DEF Finish, Newest, Last
  <2>3. Last(turn').kind = Last(turn).kind /\ Last(turn').finished
    BY <2>1, <2>2 DEF Message
  <2>4. ~over' /\ stage' = stage
    BY <1>3 DEF Finish, Writing, Unanswered
  <2>5. CASE Live
    <3>1. reader'.completed => Last(turn).kind = "answer"
      <4>1. CASE Envelope(Newest, Last(turn).kind, Last(turn).length, TRUE)
        BY <4>1 DEF Envelope, Completes, Typed, TypeOK, Reader
      <4>2. CASE OtherOp
        <5>1. reader'.completed = reader.completed
          BY <4>2 DEF OtherOp, Typed, TypeOK, Reader
        <5> QED
          BY <2>5, <5>1 DEF Bookkeeping, Answered
      <4> QED
        BY <1>3, <2>5, <4>1, <4>2 DEF Finish, Silently
    <3> QED
      BY <2>2, <2>3, <2>4, <2>5, <3>1 DEF Bookkeeping, Live, Answered
  <2>6. CASE ~Live
    BY <1>3, <2>2, <2>4, <2>6 DEF Finish, Bookkeeping, Live, Silently
  <2> QED
    BY <2>5, <2>6
<1>4. CASE ToolOutput
  <2>1. reader'.completed = reader.completed /\ reader'.handoff = reader.handoff
    BY <1>4 DEF ToolOutput, OtherOp, Typed, TypeOK, Reader
  <2> QED
    BY <1>4, <2>1 DEF ToolOutput, OtherOp, Unanswered, Bookkeeping, Live, Answered
<1>5. CASE EndTurn
  <2>1. Answered
    BY <1>5, NewestMessage DEF EndTurn, AllFinished, Answered
  <2> QED
    BY <1>5, <2>1 DEF EndTurn, Unanswered, Bookkeeping, Live, Answered
<1>6. CASE Abort
  BY <1>6 DEF Abort, Bookkeeping, Live, Answered
<1>7. CASE Notice
  <2>1. reader'.completed = reader.completed /\ reader'.handoff = reader.handoff
    BY <1>7 DEF Notice, Typed, TypeOK, Reader
  <2> QED
    BY <1>7, <2>1 DEF Notice, Unanswered, Bookkeeping, Live, Answered
<1>8. CASE Handoff
  <2>1. reader'.handoff
    BY <1>8 DEF Handoff, Typed, TypeOK, Reader
  <2> QED
    BY <1>8, <2>1 DEF Handoff, Unanswered, Bookkeeping, Live
<1>9. CASE \/ Done \/ ConnectionCloses \/ ConnectionFails
           \/ PollReads \/ PollFails \/ PollFindsNothing \/ PollTimesOut
  <2>1. UNCHANGED <<turn, over, reader, text>>
    BY <1>9 DEF Done, ConnectionCloses, StreamEnds, ConnectionFails, PollReads,
           PollFails, PollFindsNothing, PollTimesOut, Upstream
  <2>2. CASE Done \/ ConnectionCloses \/ ConnectionFails
    <3>1. stage' # "streaming"
      BY <1>9, <2>2 DEF Done, ConnectionCloses, ConnectionFails, StreamEnds,
                        Polls, Returns, Raises
    <3>2. stage' = "async" => text = <<>>
      BY <2>2 DEF Done, ConnectionCloses, ConnectionFails, StreamEnds,
                  Polls, Returns, Raises
    <3> QED
      BY <2>1, <3>1, <3>2 DEF Bookkeeping, Live
  <2>3. CASE PollReads \/ PollFails \/ PollFindsNothing \/ PollTimesOut
    <3>1. stage \in Polling
      BY <2>3 DEF PollReads, PollFails, PollFindsNothing, PollTimesOut
    <3>2. \A answer : Polled(answer) => stage' \in {"returned", "raised"}
      BY <3>1 DEF Polled, Polling, Returns, Raises
    <3>3. PollRaises => stage' \in {"returned", "raised"}
      BY DEF PollRaises, Returns, Raises
    <3>4. stage' \in {"returned", "raised"} \/ stage' = stage
      BY <2>3, <3>2, <3>3 DEF PollReads, PollFails, PollFindsNothing, PollTimesOut
    <3> QED
      BY <2>1, <3>1, <3>4 DEF Bookkeeping, Live, Polling
  <2> QED
    BY <1>9, <2>2, <2>3
<1>10. CASE UNCHANGED vars
  BY <1>10 DEF vars, Bookkeeping, Live, Answered
<1> QED
  BY <1>1, <1>2, <1>3, <1>4, <1>5, <1>6, <1>7, <1>8, <1>9, <1>10 DEF Next

-----------------------------------------------------------------------------
(* The promises of complete() *)

\* After a handoff the streamed text is kept, whatever upstream goes on to
\* write and however the polls end (complete).
THEOREM KeepsStreamedText == Spec => StreamedTextIsKept
<1>1. ASSUME Typed, [Next]_vars,
             stage = "handoff", stage' # "handoff", text # <<>>
      PROVE  stage' = "returned" /\ IsPrefix(text, result')
  <2>1. text \in Seq(Nat \X Nat) /\ IsPrefix(text, text)
    BY <1>1, PrefixOfItself DEF Typed, TypeOK, Texts
  <2>2. \A answer : IsPrefix(text, Preferred(answer))
    BY <2>1 DEF Preferred
  <2>3. CASE PollReads
    <3>1. PICK newest : Polled(Text(newest, turn[newest].length))
      BY <1>1, <2>3 DEF PollReads
    <3> QED
      BY <3>1, <2>2, <1>1 DEF Polled, Returns
  <2>4. CASE PollTimesOut
    BY <2>4, <2>2, <1>1 DEF PollTimesOut, Polled, Returns
  <2>5. CASE PollFails \/ PollFindsNothing
    BY <2>5, <2>1, <1>1 DEF PollFails, PollFindsNothing, PollRaises, Returns
  <2>6. ~Live
    BY <1>1 DEF Live
  <2>7. stage' = stage \/ PollReads \/ PollTimesOut \/ PollFails \/ PollFindsNothing
    BY <1>1, <2>6 DEF Next, vars, NewMessage, Grow, ToolOutput, Finish, EndTurn,
        Abort, Notice, Handoff, Done, ConnectionCloses, ConnectionFails, Unanswered
  <2> QED
    BY <1>1, <2>3, <2>4, <2>5, <2>7
<1>2. Typed /\ [Next]_vars =>
        [stage = "handoff" /\ stage' # "handoff" /\ text # <<>> =>
           stage' = "returned" /\ IsPrefix(text, result')]_vars
  BY <1>1
<1> QED
  BY InitTyped, StepTyped, <1>2, PTL DEF Spec, StreamedTextIsKept

\* Text that is returned without a poll ends in a finished answer (stream,
\* complete).
THEOREM ReturnsOnlyAnswers == Spec => NoTruncatedAnswer
<1>1. ASSUME Typed, Bookkeeping, [Next]_vars,
             stage = "streaming", stage' = "returned", text # <<>>
      PROVE  Answered /\ result' = text
  <2>1. Done \/ ConnectionCloses
    BY <1>1 DEF Next, vars, NewMessage, Grow, ToolOutput, Finish, EndTurn,
        Abort, Notice, Handoff, ConnectionFails, Raises, PollReads, PollFails,
        PollFindsNothing, PollTimesOut, Polling, Unanswered
  <2>2. StreamEnds
    BY <1>1, <2>1 DEF Done, ConnectionCloses, Polls, Raises
  <2>3. ~reader.handoff /\ result' = text
    BY <1>1, <2>2 DEF StreamEnds, Polls, Returns
  <2>4. over \/ reader.completed
    BY <1>1, <2>1, <2>3 DEF Done, ConnectionCloses, Bookkeeping, Polls, Raises
  <2> QED
    BY <1>1, <2>3, <2>4 DEF Bookkeeping, Live
<1>2. Typed /\ Bookkeeping /\ [Next]_vars =>
        [stage = "streaming" /\ stage' = "returned" /\ text # <<>> =>
           /\ Last(turn).kind = "answer" /\ Last(turn).finished
           /\ result' = text]_vars
  BY <1>1 DEF Answered
<1> QED
  BY InitTyped, StepTyped, BookkeepingInit, BookkeepingStep, <1>2, PTL
  DEF Spec, NoTruncatedAnswer

\* What a poll adds is a whole finished message (_poll_async_response).
THEOREM PollsOnlyFinished == Spec => PolledTextIsFinished
<1>1. ASSUME Typed, Bookkeeping, [Next]_vars, PollAdds
      PROVE  \E m \in DOMAIN turn :
               turn[m].finished /\ result' = Text(m, turn[m].length)
  <2>1. stage \in Polling /\ stage' = "returned" /\ result' # text
    BY <1>1 DEF PollAdds
  <2>2. stage # "streaming" /\ stage # "returned" /\ ~Live
    BY <2>1 DEF Polling, Live
  <2>3. PollReads \/ PollTimesOut \/ PollFails \/ PollFindsNothing
    BY <1>1, <2>1, <2>2 DEF Next, vars, NewMessage, Grow, ToolOutput, Finish,
        EndTurn, Abort, Notice, Handoff, Done, ConnectionCloses,
        ConnectionFails, Unanswered
  <2>4. ~PollFails /\ ~PollFindsNothing
    BY <2>1, <2>2 DEF PollFails, PollFindsNothing, PollRaises, Returns, Raises
  <2>5. ~PollTimesOut
    BY <1>1, <2>1 DEF PollTimesOut, Polled, Preferred, Returns, Raises,
                      Bookkeeping, Polling
  <2>6. PICK newest \in Candidates : Polled(Text(newest, turn[newest].length))
    BY <2>1, <2>2, <2>3, <2>4, <2>5 DEF PollReads
  <2>7. newest \in DOMAIN turn /\ turn[newest].finished
    BY DEF Candidates
  <2>8. result' = Text(newest, turn[newest].length)
    BY <2>1, <2>6 DEF Polled, Preferred, Returns, Raises, Polling
  <2> QED
    BY <2>7, <2>8
<1>2. Typed /\ Bookkeeping /\ [Next]_vars =>
        [PollAdds =>
           (\E m \in DOMAIN turn :
               turn[m].finished /\ result' = Text(m, turn[m].length))]_vars
  BY <1>1
<1> QED
  BY InitTyped, StepTyped, BookkeepingInit, BookkeepingStep, <1>2, PTL
  DEF Spec, PolledTextIsFinished

-----------------------------------------------------------------------------
(* The text in order *)

InOrder(s) == \A i, j \in DOMAIN s : i < j => Before(s[i], s[j])

Told(s, messages) == ToSet(s) = PiecesOf(messages) /\ InOrder(s)

\* What stream() knows of the newest message is all of it: a text that is sent
\* again from its beginning is deduplicated against that, a patch goes on with it.
Knows(r, messages) ==
    LET m == Len(messages)
        whole == Text(m, messages[m].length)
    IN messages # <<>> /\ messages[m].kind # "tool" =>
         r.id = m /\ r.last = whole /\ (request.wire = "v1" => r.cur = whole)

\* While the stream is live the text is in order.
Following ==
    Live => Told(text, turn) /\ reader.id <= Len(turn) /\ Knows(reader, turn)

LEMMA PiecesAre ==
    ASSUME NEW t
    PROVE  \A q : q \in PiecesOf(t) <=>
             \E i \in DOMAIN t : t[i].kind # "tool" /\ \E k \in 1 .. t[i].length : q = <<i, k>>
  BY DEF PiecesOf

\* The messages u have the pieces of t and p, which comes after them.
Adds(t, u, p) ==
    /\ \A q : q \in PiecesOf(u) <=> q \in PiecesOf(t) \/ q = p
    /\ \A q \in PiecesOf(t) : Before(q, p)

LEMMA PieceTold ==
    ASSUME NEW s \in Texts, NEW t, NEW u, Told(s, t), NEW p \in Nat \X Nat, Adds(t, u, p)
    PROVE  Told(Append(s, p), u)
<1>0. /\ \A q : q \in PiecesOf(u) <=> q \in PiecesOf(t) \/ q = p
      /\ \A q \in PiecesOf(t) : Before(q, p)
  BY DEF Adds
<1> DEFINE r == Append(s, p)
<1>1. s \in Seq(Nat \X Nat)
  BY DEF Texts
<1>2. /\ DOMAIN r = 1 .. Len(s) + 1 /\ DOMAIN s = 1 .. Len(s) /\ Len(s) \in Nat
      /\ r[Len(s) + 1] = p
      /\ \A i \in DOMAIN s : r[i] = s[i]
  BY <1>1
<1> HIDE DEF r
<1>3. \A q : q \in ToSet(s) <=> \E i \in DOMAIN s : q = s[i]
  BY DEF ToSet
<1>4. \A q : q \in ToSet(r) <=> \E i \in DOMAIN r : q = r[i]
  BY DEF ToSet
<1>5. ToSet(s) = PiecesOf(t) /\ InOrder(s)
  BY DEF Told
<1>6. \A q : q \in ToSet(r) <=> q \in ToSet(s) \/ q = p
  <2>1. \A i \in DOMAIN r : i \in DOMAIN s \/ i = Len(s) + 1
    BY <1>2
  <2>2. \A i \in DOMAIN s : i \in DOMAIN r
    BY <1>2
  <2>3. Len(s) + 1 \in DOMAIN r
    BY <1>2
  <2> QED
    BY <1>2, <1>3, <1>4, <2>1, <2>2, <2>3
<1>7. ToSet(r) = PiecesOf(u)
  BY <1>0, <1>5, <1>6
<1>8. ASSUME NEW i \in DOMAIN r, NEW j \in DOMAIN r, i < j PROVE Before(r[i], r[j])
  <2>1. i \in DOMAIN s
    BY <1>2, <1>8
  <2>2. CASE j \in DOMAIN s
    BY <1>2, <1>5, <1>8, <2>1, <2>2 DEF InOrder
  <2>3. CASE j = Len(s) + 1
    <3>1. s[i] \in PiecesOf(t)
      BY <1>3, <1>5, <2>1
    <3> QED
      BY <1>0, <1>2, <2>1, <2>3, <3>1
  <2> QED
    BY <1>2, <2>2, <2>3
<1> QED
  BY <1>7, <1>8 DEF Told, InOrder, r

LEMMA SameTold ==
    ASSUME NEW s, NEW t, NEW u, Told(s, t), \A q : q \in PiecesOf(u) <=> q \in PiecesOf(t)
    PROVE  Told(s, u)
  BY DEF Told

\* A new message, with nothing or with its first piece.
LEMMA PiecesOfNew ==
    ASSUME NEW t \in Seq(Message), NEW msg \in Message, msg.length \in 0 .. 1,
           msg.kind = "tool" => msg.length = 0,
           NEW m, m = Len(t) + 1,
           NEW u \in Seq(Message), Len(u) = m, u[m] = msg, \A i \in DOMAIN t : u[i] = t[i]
    PROVE  /\ msg.length = 0 => \A q : q \in PiecesOf(u) <=> q \in PiecesOf(t)
           /\ msg.length = 1 => Adds(t, u, <<m, 1>>)
<1>1. /\ DOMAIN t = 1 .. Len(t) /\ DOMAIN u = 1 .. m /\ Len(t) \in Nat
      /\ u[m] = msg /\ \A i \in DOMAIN t : u[i] = t[i] /\ i < m /\ i # m
      /\ \A i \in DOMAIN u : i \in DOMAIN t \/ i = m
      /\ \A i \in DOMAIN t : i \in DOMAIN u
      /\ m \in DOMAIN u
  OBVIOUS
<1>2. \A q : q \in PiecesOf(t) <=>
        \E i \in DOMAIN t : t[i].kind # "tool" /\ \E k \in 1 .. t[i].length : q = <<i, k>>
  BY PiecesAre
<1>3. \A q : q \in PiecesOf(u) <=>
        \E i \in DOMAIN u : u[i].kind # "tool" /\ \E k \in 1 .. u[i].length : q = <<i, k>>
  BY PiecesAre
<1>4. \A q : q \in PiecesOf(u) <=>
        q \in PiecesOf(t) \/ (msg.kind # "tool" /\ \E k \in 1 .. msg.length : q = <<m, k>>)
  BY <1>1, <1>2, <1>3
<1>5. \A q \in PiecesOf(t) : Before(q, <<m, 1>>)
  BY <1>1, <1>2 DEF Before
<1>6. CASE msg.length = 0
  <2>1. \A k : k \notin 1 .. msg.length
    BY <1>6
  <2> QED
    BY <1>4, <1>5, <1>6, <2>1
<1>7. CASE msg.length = 1
  <2>1. msg.kind # "tool" /\ \A k : k \in 1 .. msg.length <=> k = 1
    BY <1>7
  <2> QED
    BY <1>4, <1>5, <1>7, <2>1 DEF Adds
<1> QED
  BY <1>6, <1>7

\* The newest message with one piece more, or finished.
LEMMA PiecesOfNewest ==
    ASSUME NEW t \in Seq(Message), t # <<>>, NEW msg \in Message, msg.kind = t[Len(t)].kind,
           NEW m, m = Len(t),
           NEW u \in Seq(Message), Len(u) = m, u[m] = msg,
           \A i \in DOMAIN t : i # m => u[i] = t[i]
    PROVE  /\ msg.length = t[m].length => \A q : q \in PiecesOf(u) <=> q \in PiecesOf(t)
           /\ msg.length = t[m].length + 1 /\ msg.kind # "tool" =>
                Adds(t, u, <<m, msg.length>>)
<1>1. /\ DOMAIN u = DOMAIN t /\ m \in DOMAIN t /\ u[m] = msg
      /\ \A i \in DOMAIN t : i \in Nat /\ i <= m /\ (i # m => u[i] = t[i])
      /\ m \in Nat /\ t[m] \in Message
  OBVIOUS
<1>2. \A q : q \in PiecesOf(t) <=>
        \E i \in DOMAIN t : t[i].kind # "tool" /\ \E k \in 1 .. t[i].length : q = <<i, k>>
  BY PiecesAre
<1>3. \A q : q \in PiecesOf(u) <=>
        \E i \in DOMAIN u : u[i].kind # "tool" /\ \E k \in 1 .. u[i].length : q = <<i, k>>
  BY PiecesAre
<1>4. ASSUME msg.length = t[m].length
      PROVE  \A q : q \in PiecesOf(u) <=> q \in PiecesOf(t)
  <2>1. \A i \in DOMAIN t : u[i].kind = t[i].kind /\ u[i].length = t[i].length
    BY <1>1, <1>4
  <2>2. \A q : q \in PiecesOf(u) <=>
          \E i \in DOMAIN t : t[i].kind # "tool" /\ \E k \in 1 .. t[i].length : q = <<i, k>>
    BY <1>1, <1>3, <2>1
  <2> QED
    BY <1>2, <2>2
<1>5. ASSUME msg.length = t[m].length + 1, msg.kind # "tool"
      PROVE  Adds(t, u, <<m, msg.length>>)
  <2>1. t[m].length \in Nat /\ msg.length \in Nat
    BY <1>1 DEF Message
  <2>2. \A k : k \in 1 .. msg.length <=> k \in 1 .. t[m].length \/ k = msg.length
    BY <1>5, <2>1
  <2>3. \A q : q \in PiecesOf(u) <=> q \in PiecesOf(t) \/ q = <<m, msg.length>>
    <3>1. ASSUME NEW q \in PiecesOf(u) PROVE q \in PiecesOf(t) \/ q = <<m, msg.length>>
      <4>1. PICK i \in DOMAIN u :
              u[i].kind # "tool" /\ \E k \in 1 .. u[i].length : q = <<i, k>>
        BY <1>3
      <4>2. CASE i = m
        BY <1>1, <1>2, <1>5, <2>2, <4>1, <4>2
      <4>3. CASE i # m
        BY <1>1, <1>2, <4>1, <4>3
      <4> QED
        BY <4>2, <4>3
    <3>2. ASSUME NEW q \in PiecesOf(t) PROVE q \in PiecesOf(u)
      <4>1. PICK i \in DOMAIN t :
              t[i].kind # "tool" /\ \E k \in 1 .. t[i].length : q = <<i, k>>
        BY <1>2
      <4>2. CASE i = m
        BY <1>1, <1>3, <1>5, <2>2, <4>1, <4>2
      <4>3. CASE i # m
        BY <1>1, <1>3, <4>1, <4>3
      <4> QED
        BY <4>2, <4>3
    <3>3. <<m, msg.length>> \in PiecesOf(u)
      BY <1>1, <1>3, <1>5, <2>2
    <3> QED
      BY <3>1, <3>2, <3>3
  <2>4. ASSUME NEW q \in PiecesOf(t) PROVE Before(q, <<m, msg.length>>)
    <3>1. PICK i \in DOMAIN t :
            t[i].kind # "tool" /\ \E k \in 1 .. t[i].length : q = <<i, k>>
      BY <1>2
    <3>2. PICK k \in 1 .. t[i].length : q = <<i, k>>
      BY <3>1
    <3>3. i < m \/ (i = m /\ k < msg.length)
      BY <1>1, <1>5, <2>1, <3>2
    <3> QED
      BY <3>2, <3>3 DEF Before
  <2> QED
    BY <2>3, <2>4 DEF Adds
<1> QED
  BY <1>4, <1>5

LEMMA TextIs ==
    ASSUME NEW m \in Nat, NEW n \in Nat
    PROVE  /\ Text(m, n) \in Seq(Nat \X Nat)
           /\ Len(Text(m, n)) = n
           /\ Text(m, n) = <<>> <=> n = 0
           /\ \A k \in 1 .. n : Text(m, n)[k] = <<m, k>>
  BY DEF Text

LEMMA PieceAppended ==
    ASSUME NEW m \in Nat, NEW n \in Nat
    PROVE  Append(Text(m, n), <<m, n + 1>>) = Text(m, n + 1)
<1> DEFINE P == Nat \X Nat
           s == Text(m, n)
           p == <<m, n + 1>>
           u == Text(m, n + 1)
<1>1. p \in P
  OBVIOUS
<1>2. s \in Seq(P) /\ Len(s) = n /\ \A k \in 1 .. n : s[k] = <<m, k>>
  BY TextIs
<1>3. n + 1 \in Nat
  OBVIOUS
<1>4. u \in Seq(P) /\ Len(u) = n + 1 /\ \A k \in 1 .. n + 1 : u[k] = <<m, k>>
  BY <1>3, TextIs
<1>5. u[n + 1] = p /\ \A k \in 1 .. n : u[k] = s[k]
  <2>1. n + 1 \in 1 .. n + 1 /\ \A k \in 1 .. n : k \in 1 .. n + 1
    OBVIOUS
  <2> HIDE DEF s, u
  <2> QED
    BY <1>2, <1>4, <2>1
<1> HIDE DEF P, s, p, u
<1>6. Append(s, p) \in Seq(P) /\ Len(Append(s, p)) = n + 1
  BY <1>1, <1>2
<1>7. \A k \in 1 .. n + 1 : Append(s, p)[k] = u[k]
  BY <1>1, <1>2, <1>5
<1>8. Append(s, p) = u
  BY <1>4, <1>6, <1>7
<1> QED
  BY <1>8 DEF s, p, u

\* What is new in a text that grew by a piece, or not at all.
LEMMA UnseenPiece ==
    ASSUME NEW S, NEW s \in Seq(S), NEW p \in S
    PROVE  Unseen(s, Append(s, p)) = <<p>> /\ Unseen(s, s) = <<>>
<1> DEFINE u == Append(s, p)
           n == Len(s)
           r == SubSeq(u, n + 1, n + 1)
<1>1. u \in Seq(S) /\ Len(u) = n + 1 /\ n \in Nat /\ u[n + 1] = p
      /\ \A i \in 1 .. n : u[i] = s[i]
  OBVIOUS
<1> HIDE DEF u
<1>2. IsPrefix(s, u)
  <2> DEFINE x == SubSeq(s, 1, n)
             y == SubSeq(u, 1, n)
  <2>1. x \in Seq(S) /\ y \in Seq(S) /\ Len(x) = Len(y) /\ \A i \in 1 .. Len(y) : x[i] = y[i]
    BY <1>1
  <2> HIDE DEF x, y
  <2>2. x = y
    BY <2>1
  <2> QED
    BY <1>1, <2>2 DEF IsPrefix, x, y
<1>3. r = <<p>>
  <2>1. r \in Seq(S) /\ Len(r) = 1 /\ r[1] = p
    BY <1>1
  <2> HIDE DEF r
  <2> QED
    BY <2>1
<1>4. Unseen(s, u) = <<p>>
  BY <1>1, <1>2, <1>3 DEF Unseen
<1>5. Unseen(s, s) = <<>>
  BY PrefixOfItself DEF Unseen
<1> QED
  BY <1>4, <1>5 DEF u

\* The step adds to the text what the one sent again has beyond the one seen.
Gains(seen, whole) == text' = text \o Unseen(seen, whole)

\* What a message sent whole leaves in the reader and adds to the text.
LEMMA EnvelopeReads ==
    ASSUME Typed, NEW m \in Nat, NEW kind, NEW n \in Nat, NEW finished,
           Envelope(m, kind, n, finished)
    PROVE  /\ reader'.handoff = reader.handoff
           /\ kind = "tool" =>
                /\ reader'.id = reader.id /\ reader'.last = reader.last
                /\ reader'.cur = reader.cur /\ text' = text
           /\ kind # "tool" => reader'.id = m /\ reader'.cur = Text(m, n)
           /\ kind # "tool" /\ m = reader.id =>
                /\ Text(m, n) # <<>> => reader'.last = Text(m, n)
                /\ Text(m, n) = <<>> => reader'.last = reader.last
                /\ Gains(reader.last, Text(m, n))
           /\ kind # "tool" /\ m # reader.id =>
                reader'.last = Text(m, n) /\ Gains(<<>>, Text(m, n))
<1> DEFINE whole == Text(m, n)
           seen == IF m = reader.id THEN reader.last ELSE <<>>
           read == [reader EXCEPT !.completed = Completes(kind, finished), !.path = "none"]
<1>1. reader \in Reader
  BY DEF Typed, TypeOK
<1>2. IF kind = "tool"
        THEN reader' = read /\ UNCHANGED text
        ELSE /\ reader' = [read EXCEPT !.id = m, !.cur = whole,
                                       !.last = IF whole = <<>> THEN seen ELSE whole]
             /\ text' = text \o Unseen(seen, whole)
  BY DEF Envelope
<1>3. /\ read.handoff = reader.handoff /\ read.id = reader.id /\ read.last = reader.last
      /\ read.cur = reader.cur
      /\ DOMAIN read = {"id", "last", "cur", "path", "completed", "handoff", "noted"}
  BY <1>1 DEF Reader
<1> HIDE DEF whole, seen, read
<1>4. CASE kind = "tool"
  BY <1>2, <1>3, <1>4
<1>5. CASE kind # "tool"
  <2>1. /\ reader'.id = m /\ reader'.cur = whole /\ reader'.handoff = reader.handoff
        /\ reader'.last = IF whole = <<>> THEN seen ELSE whole
        /\ Gains(seen, whole)
    BY <1>2, <1>3, <1>5 DEF Gains
  <2>2. (m = reader.id => seen = reader.last) /\ (m # reader.id => seen = <<>>)
    BY DEF seen
  <2> QED
    BY <1>5, <2>1, <2>2 DEF whole
<1> QED
  BY <1>4, <1>5

LEMMA SameMessageRead ==
    ASSUME Typed, NEW m \in Nat, NEW kind, NEW n \in Nat, NEW finished,
           Envelope(m, kind, n, finished), kind # "tool", m = reader.id
    PROVE  Gains(reader.last, Text(m, n))
  BY EnvelopeReads

LEMMA TextJoins ==
    ASSUME NEW s \in Texts
    PROVE  s \o <<>> = s /\ \A p \in Nat \X Nat : s \o <<p>> = Append(s, p)
<1> DEFINE P == Nat \X Nat
<1>1. s \in Seq(P)
  BY DEF Texts
<1> HIDE DEF P
<1>2. s \o <<>> = s
  BY <1>1
<1>3. ASSUME NEW p \in P PROVE s \o <<p>> = Append(s, p)
  BY <1>1
<1> QED
  BY <1>2, <1>3 DEF P

\* A frame that leaves the text and what is known of it alone.
LEMMA StillFollowing ==
    ASSUME Following, UNCHANGED <<turn, text, request>>, Live' => Live,
           reader'.id = reader.id, reader'.last = reader.last, reader'.cur = reader.cur
    PROVE  Following'
<1>1. Knows(reader, turn) => Knows(reader', turn')
  BY DEF Knows
<1> QED
  BY <1>1 DEF Following, Knows

LEMMA NewMessageFollowed ==
    ASSUME Typed, Following, NEW kind \in {"answer", "dispatch", "tool"}, NewMessage(kind)
    PROVE  Following'
<1>1. PICK n \in 0 .. (IF kind = "tool" THEN 0 ELSE 1) :
        /\ turn' = Append(turn, [kind |-> kind, length |-> n, finished |-> FALSE])
        /\ (Live /\ Envelope(Newest + 1, kind, n, FALSE)) \/ Silently
  BY DEF NewMessage
<1> DEFINE msg == [kind |-> kind, length |-> n, finished |-> FALSE]
           m == Len(turn) + 1
<1>2. /\ stage' = stage /\ request' = request /\ turn \in Seq(Message) /\ Len(turn) \in Nat
      /\ m \in Nat /\ m = Len(turn) + 1 /\ m = Newest + 1 /\ text \in Texts /\ reader.id \in Nat
  BY DEF NewMessage, Unanswered, Newest, Typed, TypeOK, Reader
<1>3. n \in 0 .. 1 /\ msg \in Message /\ msg.length = n /\ msg.kind = kind /\ (kind = "tool" => n = 0)
  BY DEF Message
<1>4. turn' = Append(turn, msg)
  BY <1>1
<1> HIDE DEF msg, m
<1>5. /\ turn' \in Seq(Message) /\ Len(turn') = m /\ turn'[m] = msg /\ turn' # <<>>
      /\ \A i \in DOMAIN turn : turn'[i] = turn[i]
  BY <1>2, <1>3, <1>4
<1>6. CASE Silently
  BY <1>2, <1>6 DEF Silently, Following, Live
<1>7. CASE Live /\ Envelope(m, kind, n, FALSE)
  <2>1. Told(text, turn) /\ reader.id <= Len(turn) /\ reader.id # m
    BY <1>2, <1>7 DEF Following
  <2>2. /\ n = 0 => \A q : q \in PiecesOf(turn') <=> q \in PiecesOf(turn)
        /\ n = 1 => Adds(turn, turn', <<m, 1>>)
    BY <1>2, <1>3, <1>5, PiecesOfNew
  <2>3. /\ kind = "tool" => reader'.id = reader.id /\ text' = text
        /\ kind # "tool" =>
             /\ reader'.id = m /\ reader'.cur = Text(m, n)
             /\ reader'.last = IF Text(m, n) = <<>> THEN <<>> ELSE Text(m, n)
             /\ Gains(<<>>, Text(m, n))
    <3>1. n \in Nat
      BY <1>3
    <3> QED
      BY <1>2, <1>7, <2>1, <3>1, EnvelopeReads
  <2>4. Unseen(<<>>, Text(m, n)) = IF n = 0 THEN <<>> ELSE << <<m, 1>> >>
    <3>1. <<>> \in Seq(Nat \X Nat) /\ <<m, 1>> \in Nat \X Nat
      BY <1>2
    <3>2. Unseen(<<>>, Append(<<>>, <<m, 1>>)) = << <<m, 1>> >> /\ Unseen(<<>>, <<>>) = <<>>
      BY <3>1, UnseenPiece
    <3>3. Text(m, 0) = <<>>
      BY <1>2, TextIs
    <3>4. Append(Text(m, 0), <<m, 0 + 1>>) = Text(m, 0 + 1)
      BY <1>2, PieceAppended
    <3>5. Append(<<>>, <<m, 1>>) = Text(m, 1)
      <4>1. 0 + 1 = 1
        OBVIOUS
      <4> QED
        BY <3>3, <3>4, <4>1, Zenon
    <3>6. n = 0 \/ n = 1
      BY <1>3
    <3> QED
      BY <3>2, <3>3, <3>5, <3>6
  <2>5. Told(text', turn')
    <3>1. CASE n = 0
      <4>1. text' = text
        BY <1>2, <2>3, <2>4, <3>1, TextJoins DEF Gains
      <4> QED
        BY <2>1, <2>2, <3>1, <4>1, SameTold
    <3>2. CASE n = 1
      <4> DEFINE p == <<m, 1>>
      <4>1. p \in Nat \X Nat
        BY <1>2
      <4>2. text' = text \o <<p>>
        <5>1. kind # "tool"
          BY <1>3, <3>2
        <5>2. text' = text \o Unseen(<<>>, Text(m, n)) /\ Unseen(<<>>, Text(m, n)) = <<p>>
          BY <2>3, <2>4, <3>2, <5>1 DEF Gains
        <5> QED
          BY <5>2
      <4>3. Adds(turn, turn', p)
        BY <2>2, <3>2
      <4> HIDE DEF p
      <4>5. text' = Append(text, p)
        BY <1>2, <4>1, <4>2, TextJoins
      <4> QED
        BY <1>2, <2>1, <4>1, <4>3, <4>5, PieceTold
    <3> QED
      BY <1>3, <3>1, <3>2
  <2>6. reader'.id <= Len(turn')
    BY <1>2, <1>5, <2>1, <2>3
  <2>7. Knows(reader, turn)'
    BY <1>2, <1>3, <1>5, <2>3 DEF Knows
  <2> QED
    BY <2>5, <2>6, <2>7 DEF Following
<1> QED
  BY <1>1, <1>2, <1>6, <1>7

\* A frame of the wire for the n-th piece of the m-th message.
PieceFrame(m, n, kind) ==
    \/ /\ request.wire = "classic"
       /\ Envelope(m, kind, n, FALSE) \/ BareDelta(<<m, n>>)
    \/ /\ request.wire = "v1"
       /\ \/ AppendOp(<<m, n>>) \/ ReplaceOp(Text(m, n))
          \/ reader.path = "text" /\ BareDelta(<<m, n>>)

LEMMA PieceRead ==
    ASSUME Typed, NEW m \in Nat, NEW n \in Nat, NEW kind, kind # "tool",
           reader.id = m, reader.last = Text(m, n),
           request.wire = "v1" => reader.cur = Text(m, n),
           PieceFrame(m, n + 1, kind),
           NEW p, p = <<m, n + 1>>
    PROVE  /\ reader'.id = m /\ reader'.last = Text(m, n + 1)
           /\ request.wire = "v1" => reader'.cur = Text(m, n + 1)
           /\ text' = Append(text, p)
<1>1. /\ reader \in Reader /\ text \in Texts /\ n + 1 \in Nat /\ p \in Nat \X Nat
      /\ request.wire = "v1" => request.wire # "classic"
  BY DEF Typed, TypeOK
<1> DEFINE s == Text(m, n)
           u == Text(m, n + 1)
<1>2. Append(s, p) = u
  BY PieceAppended
<1>3. u # <<>>
  <2>1. n + 1 # 0
    OBVIOUS
  <2> QED
    BY <1>1, <2>1, TextIs
<1>4. Unseen(s, u) = <<p>>
  <2>1. s \in Seq(Nat \X Nat)
    BY TextIs
  <2> HIDE DEF s, u
  <2> QED
    BY <1>1, <1>2, <2>1, UnseenPiece
<1>5. text \o <<p>> = Append(text, p)
  BY <1>1, TextJoins
<1>6. CASE Envelope(m, kind, n + 1, FALSE) /\ request.wire = "classic"
  <2>1. /\ reader'.id = m
        /\ u # <<>> => reader'.last = u
        /\ text' = text \o Unseen(reader.last, u)
    <3>1. Typed /\ m = reader.id /\ kind # "tool" /\ m \in Nat /\ n + 1 \in Nat /\ Envelope(m, kind, n + 1, FALSE)
      BY <1>1, <1>6
    <3>2. reader'.id = m
      BY <3>1, EnvelopeReads
    <3>3. u # <<>> => reader'.last = u
      BY <3>1, EnvelopeReads
    <3>4. Gains(reader.last, u)
      <4> DEFINE k == n + 1
      <4>1. k \in Nat /\ Envelope(m, kind, k, FALSE)
        BY <3>1
      <4> HIDE DEF k
      <4>2. Gains(reader.last, Text(m, k))
        BY <3>1, <4>1, SameMessageRead
      <4> QED
        BY <4>2, Zenon DEF k, u
    <3> QED
      BY <3>2, <3>3, <3>4 DEF Gains
  <2> HIDE DEF s, u
  <2> QED
    BY <1>1, <1>3, <1>4, <1>5, <1>6, <2>1 DEF s, u
<1>7. CASE BareDelta(p) /\ (request.wire = "classic" \/ reader.path = "text")
  BY <1>1, <1>2, <1>7 DEF BareDelta, Reader
<1>8. CASE AppendOp(p) /\ request.wire = "v1"
  BY <1>1, <1>2, <1>8 DEF AppendOp, Reader
<1>9. CASE ReplaceOp(u)
  <2>1. text' = text \o Unseen(reader.last, u)
    BY <1>9 DEF ReplaceOp
  <2>2. reader'.id = reader.id /\ reader'.last = u /\ reader'.cur = u
    BY <1>1, <1>9 DEF ReplaceOp, Reader
  <2> QED
    BY <1>4, <1>5, <2>1, <2>2
<1> QED
  BY <1>6, <1>7, <1>8, <1>9 DEF PieceFrame

LEMMA GrowFollowed ==
    ASSUME Typed, Following, Grow PROVE Following'
<1> DEFINE m == Len(turn)
           l == turn[m].length
           n == l + 1
           p == <<m, n>>
           kind == turn[m].kind
           msg == [turn[m] EXCEPT !.length = n]
<1>1. /\ turn # <<>> /\ turn \in Seq(Message) /\ stage' = stage /\ request' = request
      /\ text \in Texts
  BY SomethingUnfinished DEF Grow, Unanswered, Typed, TypeOK
<1>2. /\ kind # "tool" /\ turn' = [turn EXCEPT ![m].length = n]
      /\ (Live /\ PieceFrame(m, n, kind)) \/ Silently
  BY DEF Grow, Newest, Last, PieceFrame
<1>3. m \in Nat /\ m \in DOMAIN turn /\ turn[m] \in Message
  BY <1>1
<1>4. l \in Nat /\ n \in Nat /\ msg \in Message /\ msg.length = n /\ msg.kind = kind
  BY <1>3 DEF Message
<1>5. /\ turn' \in Seq(Message) /\ Len(turn') = m /\ turn'[m] = msg /\ turn' # <<>>
      /\ \A i \in DOMAIN turn : i # m => turn'[i] = turn[i]
  <2>1. turn' = [turn EXCEPT ![m] = msg]
    BY <1>1, <1>2, <1>3
  <2> HIDE DEF msg
  <2> QED
    BY <1>1, <1>3, <1>4, <2>1
<1>6. CASE Silently
  BY <1>1, <1>6 DEF Silently, Following, Live
<1>7. CASE Live /\ ~Silently
  <2>1. /\ Told(text, turn) /\ reader.id = m /\ reader.last = Text(m, l)
        /\ request.wire = "v1" => reader.cur = Text(m, l)
    BY <1>1, <1>2, <1>7 DEF Following, Knows
  <2>2. PieceFrame(m, l + 1, kind)
    BY <1>2, <1>7
  <2>3. p = <<m, l + 1>> /\ n = l + 1 /\ p = <<m, n>>
    OBVIOUS
  <2>4. Adds(turn, turn', p)
    <3>1. msg.length = turn[m].length + 1 /\ msg.kind = turn[Len(turn)].kind /\ msg.kind # "tool"
      BY <1>2, <1>4
    <3>2. <<m, msg.length>> = p
      BY <1>4
    <3> HIDE DEF m, n, p, msg
    <3>3. m = Len(turn)
      BY DEF m
    <3>4. Adds(turn, turn', <<m, msg.length>>)
      BY <1>1, <1>4, <1>5, <3>1, <3>3, PiecesOfNewest
    <3> QED
      BY <3>2, <3>4
  <2> HIDE DEF m, l, n, p, kind, msg
  <2>5. /\ reader'.id = m /\ reader'.last = Text(m, n)
        /\ request.wire = "v1" => reader'.cur = Text(m, n)
        /\ text' = Append(text, p)
    BY <1>2, <1>3, <1>4, <2>1, <2>2, <2>3, PieceRead
  <2>6. p \in Nat \X Nat
    BY <1>3, <1>4, <2>3
  <2>7. Told(text', turn')
    BY <1>1, <2>1, <2>4, <2>5, <2>6, PieceTold
  <2>8. Knows(reader, turn)'
    BY <1>1, <1>4, <1>5, <2>5 DEF Knows
  <2>9. reader'.id <= Len(turn')
    BY <1>3, <1>5, <2>5
  <2> QED
    BY <2>7, <2>8, <2>9 DEF Following
<1> QED
  BY <1>2, <1>6, <1>7

LEMMA FinishFollowed ==
    ASSUME Typed, Following, Finish PROVE Following'
<1> DEFINE m == Len(turn)
           n == turn[m].length
           kind == turn[m].kind
           msg == [turn[m] EXCEPT !.finished = TRUE]
<1>1. /\ turn # <<>> /\ turn \in Seq(Message) /\ stage' = stage /\ request' = request
      /\ text \in Texts /\ reader \in Reader
  BY SomethingUnfinished DEF Finish, Unanswered, Typed, TypeOK
<1>2. /\ turn' = [turn EXCEPT ![m].finished = TRUE]
      /\ \/ Live /\ Envelope(m, kind, n, TRUE)
         \/ Live /\ OtherOp
         \/ Silently
  BY DEF Finish, Newest, Last
<1>3. m \in Nat /\ m \in DOMAIN turn /\ turn[m] \in Message
  BY <1>1
<1>4. n \in Nat /\ msg \in Message /\ msg.length = n /\ msg.kind = kind
  BY <1>3 DEF Message
<1>5. /\ turn' \in Seq(Message) /\ Len(turn') = m /\ turn'[m] = msg /\ turn' # <<>>
      /\ \A i \in DOMAIN turn : i # m => turn'[i] = turn[i]
  <2>1. turn' = [turn EXCEPT ![m] = msg]
    BY <1>1, <1>2, <1>3
  <2> HIDE DEF msg
  <2> QED
    BY <1>1, <1>3, <1>4, <2>1
<1>6. CASE Silently
  BY <1>1, <1>6 DEF Silently, Following, Live
<1>7. CASE Live /\ ~Silently
  <2>1. /\ Told(text, turn) /\ reader.id <= m
        /\ kind # "tool" => /\ reader.id = m /\ reader.last = Text(m, n)
                            /\ request.wire = "v1" => reader.cur = Text(m, n)
    BY <1>1, <1>7 DEF Following, Knows
  <2>2. \A q : q \in PiecesOf(turn') <=> q \in PiecesOf(turn)
    <3>1. msg.length = turn[m].length /\ msg.kind = turn[Len(turn)].kind
      BY <1>4
    <3> HIDE DEF m, n, msg
    <3>2. m = Len(turn)
      BY DEF m
    <3> QED
      BY <1>1, <1>4, <1>5, <3>1, <3>2, PiecesOfNewest
  <2> HIDE DEF m, n, kind, msg
  <2>3. /\ text' = text /\ (kind = "tool" => reader'.id = reader.id)
        /\ kind # "tool" => /\ reader'.id = m /\ reader'.last = Text(m, n)
                            /\ request.wire = "v1" => reader'.cur = Text(m, n)
    <3>1. CASE OtherOp
      BY <1>1, <2>1, <3>1 DEF OtherOp, Reader
    <3>2. CASE Envelope(m, kind, n, TRUE) /\ kind = "tool"
      BY <1>3, <1>4, <3>2, EnvelopeReads
    <3>3. CASE Envelope(m, kind, n, TRUE) /\ kind # "tool"
      <4>1. /\ reader'.id = m /\ reader'.cur = Text(m, n)
            /\ Text(m, n) # <<>> => reader'.last = Text(m, n)
            /\ Text(m, n) = <<>> => reader'.last = reader.last
            /\ Gains(reader.last, Text(m, n))
        BY <1>3, <1>4, <2>1, <3>3, EnvelopeReads
      <4>2. Unseen(Text(m, n), Text(m, n)) = <<>>
        <5> DEFINE s == Text(m, n)
        <5>1. s \in Seq(Nat \X Nat)
          BY <1>3, <1>4, TextIs
        <5> HIDE DEF s
        <5>2. Unseen(s, s) = <<>>
          BY <5>1, PrefixOfItself DEF Unseen
        <5> QED
          BY <5>2 DEF s
      <4>3. text \o <<>> = text
        BY <1>1, TextJoins
      <4> QED
        BY <2>1, <3>3, <4>1, <4>2, <4>3 DEF Gains
    <3> QED
      BY <1>2, <1>7, <3>1, <3>2, <3>3
  <2>4. Told(text', turn')
    BY <2>1, <2>2, <2>3, SameTold
  <2>5. Knows(reader, turn)'
    BY <1>1, <1>4, <1>5, <2>3 DEF Knows
  <2>6. reader'.id <= Len(turn')
    BY <1>3, <1>5, <2>1, <2>3
  <2> QED
    BY <2>4, <2>5, <2>6 DEF Following
<1> QED
  BY <1>2, <1>6, <1>7

LEMMA FollowingInit == Init => Following
<1> SUFFICES ASSUME Init PROVE Following
  OBVIOUS
<1>1. turn = <<>> /\ text = <<>> /\ reader.id = 0
  BY DEF Init
<1>2. PiecesOf(<<>>) = {}
  BY DEF PiecesOf
<1>3. ToSet(<<>>) = {} /\ InOrder(<<>>)
  BY DEF ToSet, InOrder
<1> QED
  BY <1>1, <1>2, <1>3 DEF Following, Told, Knows

LEMMA FollowingStep == Typed /\ Following /\ [Next]_vars => Following'
<1> SUFFICES ASSUME Typed, Following, [Next]_vars PROVE Following'
  OBVIOUS
<1>1. reader \in Reader
  BY DEF Typed, TypeOK
<1>2. CASE ToolOutput \/ EndTurn \/ Notice \/ Handoff
  <2>1. /\ UNCHANGED <<turn, text, request, stage>>
        /\ reader'.id = reader.id /\ reader'.last = reader.last /\ reader'.cur = reader.cur
        /\ reader.handoff => reader'.handoff
    BY <1>1, <1>2 DEF ToolOutput, OtherOp, EndTurn, Notice, Handoff, Unanswered, Reader
  <2>2. Live' => Live
    BY <2>1 DEF Live
  <2> QED
    BY <2>1, <2>2, StillFollowing
<1>3. CASE \/ Abort \/ Done \/ ConnectionCloses \/ ConnectionFails
           \/ PollReads \/ PollFails \/ PollFindsNothing \/ PollTimesOut \/ UNCHANGED vars
  <2>1. UNCHANGED <<turn, text, request, reader>>
    BY <1>3 DEF Abort, Done, ConnectionCloses, StreamEnds, ConnectionFails, PollReads,
           PollFails, PollFindsNothing, PollTimesOut, Upstream, vars
  <2>2. Live' => Live
    <3>1. \A answer : Polled(answer) /\ stage \in Polling => stage' \in {"returned", "raised"}
      BY DEF Polled, Polling, Returns, Raises
    <3>2. PollRaises => stage' \in {"returned", "raised"}
      BY DEF PollRaises, Returns, Raises
    <3>3. stage' = "streaming" => stage = "streaming"
      BY <1>3, <3>1, <3>2 DEF Abort, Done, ConnectionCloses, ConnectionFails, PollReads,
             PollFails, PollFindsNothing, PollTimesOut, vars
    <3> QED
      BY <2>1, <3>3 DEF Live
  <2> QED
    BY <2>1, <2>2, StillFollowing
<1> QED
  BY <1>2, <1>3, NewMessageFollowed, GrowFollowed, FinishFollowed DEF Next

\* Whatever frames a turn of any length is cut into, on either wire, the text
\* yielded is that of the assistant messages, each piece once and in order.  The
\* invariant adds what that rests on: current_msg_id, last_text and the text of
\* _cur_msg are those of the newest assistant message (stream).
THEOREM StreamsInOrder == Spec => []StreamedInOrder
<1>1. Following => StreamedInOrder
  BY DEF Following, StreamedInOrder, Told, InOrder
<1> QED
  BY InitTyped, StepTyped, FollowingInit, FollowingStep, <1>1, PTL DEF Spec

=============================================================================
