------------------------ MODULE HeavyResearchProofs ------------------------
(***************************************************************************)
(* What HeavyResearch promises of one call of deep_research_heavy, for     *)
(* conversations of any length and any number of polls.                    *)
(***************************************************************************)
EXTENDS HeavyResearch, TLAPS

-----------------------------------------------------------------------------
(* The invariant                                                           *)

\* No done event yet, or one that knows of the failure.
Settled(r) == r.done = NoEvent \/ r.done.failed

WroteIn(t, kind) == \E m \in DOMAIN t : t[m].kind = kind

\* A connector that is named in the start has accepted the task, and what was
\* done before the start does not count.
Flags(r) ==
    /\ r.started => r.pending
    /\ r.pending => Settled(r)

\* The text is that of a message of the conversation, dispatch and call told apart.
TextOf(t, r) ==
    r.text # <<>> =>
      LET h == Head(r.text)[1]
      IN /\ h \in DOMAIN t
         /\ t[h].kind \in Worded \cup {"call"}
         /\ t[h].length > 0
         /\ r.dispatch = (t[h].kind \in {"dispatch", "call"})

\* What the reader knows while it sees all that upstream writes.
Knows(t, r) ==
    /\ WroteIn(t, "start") => r.pending
    /\ TextOf(t, r)

\* Nobody acknowledges what was not started.
AckFollowsStart(t) ==
    \A m \in DOMAIN t : t[m].kind \in {"ack", "reworded"} => WroteIn(t, "start")

\* A call that polls after a lower tier has answered waits for the connector.
LowerWaits == stage = "polling" /\ reader.lower => reader.started

Seeing == stage \in {"setup", "streaming"}

CallInv ==
    /\ TypeOK
    /\ Flags(reader)
    /\ Seeing => Knows(turn, reader)
    /\ AckFollowsStart(turn)
    /\ LowerWaits

-----------------------------------------------------------------------------
(* Texts and readers                                                       *)

LEMMA TextType ==
    ASSUME NEW m \in Nat, NEW n \in Nat
    PROVE  Text(m, n) \in Texts
BY DEF Text, Texts

LEMMA TextHead ==
    ASSUME NEW m \in Nat, NEW n \in Nat, Text(m, n) # <<>>
    PROVE  n > 0 /\ Head(Text(m, n)) = <<m, 1>>
BY DEF Text

LEMMA PieceAdded ==
    ASSUME NEW s \in Texts, NEW m \in Nat, NEW n \in Nat
    PROVE  /\ Append(s, <<m, n>>) \in Texts
           /\ Append(s, <<m, n>>) # <<>>
           /\ s = <<>> => Head(Append(s, <<m, n>>)) = <<m, n>>
           /\ s # <<>> => Head(Append(s, <<m, n>>)) = Head(s)
<1>1. s \in Seq(Nat \X Nat) /\ <<m, n>> \in Nat \X Nat
  BY DEF Texts
<1> DEFINE p == <<m, n>>
<1>2. p \in Nat \X Nat
  BY <1>1
<1> HIDE DEF p
<1>3. Append(s, p) \in Texts /\ Append(s, p) # <<>>
  <2>1. Append(s, p) \in Seq(Nat \X Nat)
    BY <1>1, <1>2
  <2>2. Len(Append(s, p)) = Len(s) + 1 /\ Len(s) \in Nat /\ Len(<<>>) = 0
    BY <1>1, <1>2
  <2>3. Append(s, p) # <<>>
    BY <2>2
  <2> QED
    BY <2>1, <2>3 DEF Texts
<1>4. s = <<>> => Head(Append(s, p)) = p
  BY <1>1, <1>2
<1>5. s # <<>> => Head(Append(s, p)) = Head(s)
  BY <1>1, <1>2
<1> QED
  BY <1>3, <1>4, <1>5 DEF p

LEMMA DoneType ==
    ASSUME NEW text \in Texts, NEW failed \in BOOLEAN, NEW abnormal \in BOOLEAN
    PROVE  [text |-> text, failed |-> failed, abnormal |-> abnormal] \in DoneEvent
BY DEF DoneEvent

LEMMA NoEventType == NoEvent \in DoneEvent
BY DEF NoEvent, DoneEvent, Texts

\* What _emit_done emits before a failure is the text of an answer: it is no
\* dispatch, and with nothing pending no acknowledgement.
LEMMA EmitsAnswer ==
    ASSUME NEW t, NEW r, Flags(r), Knows(t, r), AckFollowsStart(t),
           EmitDone(t, r) # r, ~r.failed
    PROVE  LET h == Head(r.text)[1]
           IN h \in DOMAIN t /\ t[h].kind = "answer" /\ t[h].length > 0
<1> DEFINE h == Head(r.text)[1]
<1>1. ~r.dispatch /\ r.text # <<>> /\ ~r.pending
  BY DEF EmitDone
<1>2. ~WroteIn(t, "start")
  BY <1>1 DEF Knows
<1>3. /\ h \in DOMAIN t /\ t[h].kind \in Worded \cup {"call"} /\ t[h].length > 0
      /\ t[h].kind \notin {"dispatch", "call"}
  BY <1>1 DEF Knows, TextOf
<1>4. t[h].kind \notin {"ack", "reworded"}
  BY <1>2, <1>3 DEF AckFollowsStart
<1> QED
  BY <1>3, <1>4 DEF Worded

\* _emit_done keeps the types, and what it emits is an answer or tells of the
\* failure.
LEMMA EmitDoneKeeps ==
    ASSUME NEW t \in Seq(Message), NEW r \in Reader,
           Flags(r), Knows(t, r), AckFollowsStart(t)
    PROVE  EmitDone(t, r) \in Reader /\ Flags(EmitDone(t, r)) /\ Knows(t, EmitDone(t, r))
<1> DEFINE e == [text |-> r.text, failed |-> r.failed, abnormal |-> FALSE]
           q == [r EXCEPT !.done = e]
<1>1. CASE EmitDone(t, r) = r
  BY <1>1
<1>2. CASE EmitDone(t, r) # r
  <2>1. /\ EmitDone(t, r) = q
        /\ ~r.dispatch /\ r.text # <<>> /\ (r.failed \/ ~r.pending)
    BY <1>2 DEF EmitDone
  <2>2. r.text \in Texts /\ r.failed \in BOOLEAN
    BY DEF Reader
  <2>3. e \in DoneEvent
    BY <2>2, DoneType
  <2>4. /\ q \in Reader /\ q.done = e
        /\ q.started = r.started /\ q.pending = r.pending /\ q.failed = r.failed
        /\ q.text = r.text /\ q.dispatch = r.dispatch
    BY <2>3 DEF Reader
  <2>5. r.failed => Settled(q)
    BY <2>4 DEF Settled
  <2>6. Flags(q)
    BY <2>1, <2>4, <2>5 DEF Flags
  <2>7. Knows(t, q)
    BY <2>4 DEF Knows, TextOf
  <2> QED
    BY <2>1, <2>4, <2>6, <2>7
<1> QED
  BY <1>1, <1>2

\* A text that is put in place of the old one: of a message that is there.
LEMMA TextOpKeeps ==
    ASSUME NEW t \in Seq(Message), reader \in Reader, NEW whole \in Texts,
           Flags(reader), Knows(t, [reader EXCEPT !.text = <<>>]),
           whole # <<>> =>
             LET h == Head(whole)[1]
             IN h \in DOMAIN t /\ t[h].kind \in Worded \cup {"call"} /\ t[h].length > 0
    PROVE  /\ TextOp(t, whole) \in Reader
           /\ Flags(TextOp(t, whole))
           /\ Knows(t, TextOp(t, whole))
<1> DEFINE q == TextOp(t, whole)
           c == [reader EXCEPT !.text = <<>>]
<1>1. IsDispatch(t, whole) \in BOOLEAN
  BY DEF IsDispatch
<1>2. /\ q \in Reader
      /\ q.text = whole /\ q.dispatch = IsDispatch(t, whole)
      /\ q.started = reader.started /\ q.pending = reader.pending
      /\ q.failed = reader.failed /\ q.done = reader.done
  BY <1>1 DEF TextOp, Reader
<1>3. c.pending = reader.pending /\ c.done = reader.done
  BY DEF Reader
<1>4. Flags(q)
  BY <1>2 DEF Flags, Settled
<1>5. TextOf(t, q)
  BY <1>2 DEF TextOf, IsDispatch, KindAt
<1>6. Knows(t, q)
  BY <1>2, <1>3, <1>5 DEF Knows, Settled
<1> QED
  BY <1>2, <1>4, <1>6

-----------------------------------------------------------------------------
(* Upstream writes                                                         *)

LEMMA NewestMessage ==
    ASSUME TypeOK, turn # <<>>
    PROVE  /\ Newest \in DOMAIN turn /\ Newest \in Nat
           /\ Last(turn) = turn[Newest] /\ Last(turn) \in Message
BY DEF TypeOK, Newest, Last

LEMMA MemberTypes ==
    ASSUME NEW t \in Seq(Message)
    PROVE  \A m \in DOMAIN t : t[m] \in Message /\ t[m].length \in Nat
<1>1. \A m \in DOMAIN t : t[m] \in Message
  OBVIOUS
<1>2. \A msg \in Message : msg.length \in Nat
  BY DEF Message
<1> QED
  BY <1>1, <1>2

LEMMA MessageAppended ==
    ASSUME TypeOK, NEW msg \in Message
    PROVE  /\ Append(turn, msg) \in Seq(Message)
           /\ DOMAIN Append(turn, msg) = DOMAIN turn \cup {Newest + 1}
           /\ \A m \in DOMAIN turn : Append(turn, msg)[m] = turn[m]
           /\ Append(turn, msg)[Newest + 1] = msg
           /\ Newest + 1 \in Nat /\ Newest + 1 \notin DOMAIN turn
BY DEF TypeOK, Newest

LEMMA MessageChanged ==
    ASSUME TypeOK, turn # <<>>, NEW msg \in Message
    PROVE  /\ [turn EXCEPT ![Newest] = msg] \in Seq(Message)
           /\ DOMAIN [turn EXCEPT ![Newest] = msg] = DOMAIN turn
           /\ \A m \in DOMAIN turn : [turn EXCEPT ![Newest] = msg][m] =
                                       IF m = Newest THEN msg ELSE turn[m]
BY NewestMessage DEF TypeOK

\* More of the same conversation.
More(t, u) ==
    /\ t \in Seq(Message) /\ u \in Seq(Message)
    /\ DOMAIN t \subseteq DOMAIN u
    /\ \A m \in DOMAIN t : u[m].kind = t[m].kind /\ u[m].length >= t[m].length

LEMMA AppendIsMore ==
    ASSUME TypeOK, NEW msg \in Message
    PROVE  More(turn, Append(turn, msg))
<1>1. \A m \in DOMAIN turn : turn[m].length \in Nat
  BY MemberTypes DEF TypeOK
<1> QED
  BY <1>1, MessageAppended DEF More, TypeOK

LEMMA KnowsMore ==
    ASSUME NEW t, NEW u, More(t, u), NEW r, Knows(t, r),
           WroteIn(u, "start") => r.pending
    PROVE  Knows(u, r)
<1>1. \A m \in DOMAIN t : t[m].length \in Nat /\ u[m].length \in Nat
  BY MemberTypes DEF More
<1>2. TextOf(u, r)
  <2> SUFFICES ASSUME r.text # <<>> PROVE TextOf(u, r)
    BY DEF TextOf
  <2> DEFINE h == Head(r.text)[1]
  <2>1. h \in DOMAIN t /\ t[h].kind \in Worded \cup {"call"} /\ t[h].length > 0
        /\ r.dispatch = (t[h].kind \in {"dispatch", "call"})
    BY DEF Knows, TextOf
  <2>2. h \in DOMAIN u /\ u[h].kind = t[h].kind /\ u[h].length > 0
    BY <2>1, <1>1 DEF More
  <2> QED
    BY <2>1, <2>2 DEF TextOf
<1> QED
  BY <1>2 DEF Knows

\* A message that grows or finishes.
LEMMA ChangeKeeps ==
    ASSUME CallInv, turn # <<>>, NEW msg \in Message,
           msg.kind = Last(turn).kind, msg.length >= Last(turn).length,
           NEW t, t = [turn EXCEPT ![Newest] = msg]
    PROVE  /\ More(turn, t) /\ t[Newest] = msg /\ Newest \in DOMAIN t
           /\ Seeing => Knows(t, reader)
           /\ AckFollowsStart(t)
<1>0. TypeOK
  BY DEF CallInv
<1>1. \A m \in DOMAIN turn : turn[m].length \in Nat
  BY <1>0, MemberTypes DEF TypeOK
<1>2. /\ t \in Seq(Message) /\ DOMAIN t = DOMAIN turn
      /\ \A m \in DOMAIN turn : t[m] = IF m = Newest THEN msg ELSE turn[m]
      /\ Newest \in DOMAIN turn /\ Last(turn) = turn[Newest]
  BY <1>0, MessageChanged, NewestMessage
<1>3. \A m \in DOMAIN turn : t[m].kind = turn[m].kind /\ t[m].length >= turn[m].length
  <2> TAKE m \in DOMAIN turn
  <2>1. CASE m = Newest
    BY <1>2, <2>1
  <2>2. CASE m # Newest
    BY <1>1, <1>2, <2>2
  <2> QED
    BY <2>1, <2>2
<1>4. More(turn, t)
  BY <1>0, <1>2, <1>3 DEF More, TypeOK
<1>5. \A kind : WroteIn(t, kind) = WroteIn(turn, kind)
  BY <1>2, <1>3 DEF WroteIn
<1>6. AckFollowsStart(t)
  BY <1>2, <1>3, <1>5 DEF AckFollowsStart, CallInv
<1>7. ASSUME Seeing PROVE Knows(t, reader)
  <2>1. Knows(turn, reader)
    BY <1>7 DEF CallInv
  <2>2. WroteIn(t, "start") => reader.pending
    BY <2>1, <1>5 DEF Knows
  <2> QED
    BY <1>4, <2>1, <2>2, KnowsMore
<1> QED
  BY <1>2, <1>4, <1>6, <1>7

\* What a step of upstream has to leave behind.
LEMMA WritesKeep ==
    ASSUME CallInv, Writing, Unanswered, widget' \in {"none", "draft", "completed"},
           turn' \in Seq(Message), AckFollowsStart(turn'),
           reader' \in Reader, Flags(reader'),
           Live => Knows(turn', reader'),
           Live \/ UNCHANGED reader
    PROVE  CallInv'
<1>1. TypeOK'
  BY DEF CallInv, TypeOK, Unanswered
<1>2. LowerWaits'
  BY DEF CallInv, LowerWaits, Unanswered, Live
<1>3. Seeing' => Knows(turn', reader')
  BY DEF Seeing, Unanswered, Live, Writing
<1> QED
  BY <1>1, <1>2, <1>3 DEF CallInv

\* The envelope of a message that has no text yet.
LEMMA FirstEnvelopeKeeps ==
    ASSUME CallInv, Live, NEW kind \in Kind, MayWrite(kind),
           NEW msg \in Message, msg.kind = kind,
           NEW t, t = Append(turn, msg), NEW r, r = Envelope(t, Newest + 1, <<>>)
    PROVE  r \in Reader /\ Flags(r) /\ Knows(t, r)
<1>0. /\ TypeOK /\ reader \in Reader /\ Flags(reader) /\ Knows(turn, reader)
  BY DEF CallInv, TypeOK, Live, Seeing
<1>1. t \in Seq(Message) /\ t[Newest + 1] = msg /\ DOMAIN t = DOMAIN turn \cup {Newest + 1}
      /\ (\A m \in DOMAIN turn : t[m] = turn[m])
  BY <1>0, MessageAppended
<1>2. More(turn, t)
  BY <1>0, AppendIsMore
<1>3. kind # "start" => (WroteIn(t, "start") => reader.pending)
  BY <1>0, <1>1 DEF WroteIn, Knows
<1>6. kind # "start" => Knows(t, reader)
  BY <1>0, <1>2, <1>3, KnowsMore
<1>7. CASE kind \in Worded
  <2> DEFINE q == [reader EXCEPT !.text = <<>>, !.dispatch = IsDispatch(t, <<>>)]
  <2>1. <<>> \in Texts /\ IsDispatch(t, <<>>) = FALSE
    BY DEF Texts, IsDispatch
  <2>2. q \in Reader /\ q.text = <<>> /\ q.pending = reader.pending
        /\ q.started = reader.started /\ q.failed = reader.failed /\ q.done = reader.done
    BY <1>0, <2>1 DEF Reader
  <2>3. r = IF msg.finished THEN EmitDone(t, q) ELSE q
    BY <1>1, <1>7 DEF Envelope, Worded
  <2>4. EmitDone(t, q) = q
    BY <2>2 DEF EmitDone
  <2>5. Flags(q)
    BY <1>0, <2>2 DEF Flags, Settled
  <2>6. Knows(t, q)
    BY <1>6, <1>7, <2>2 DEF Knows, TextOf, Worded
  <2> QED
    BY <2>2, <2>3, <2>4, <2>5, <2>6
<1>8. CASE kind = "call"
  <2>1. r = [reader EXCEPT !.invoked = TRUE]
    BY <1>1, <1>8 DEF Envelope, Worded
  <2>2. r \in Reader /\ r.text = reader.text /\ r.dispatch = reader.dispatch
        /\ r.pending = reader.pending /\ r.started = reader.started
        /\ r.failed = reader.failed /\ r.done = reader.done
    BY <1>0, <2>1 DEF Reader
  <2> QED
    BY <1>0, <1>6, <1>8, <2>2 DEF Knows, TextOf, Settled, Flags
<1>9. CASE kind = "start"
  <2>1. r = [reader EXCEPT !.pending = TRUE, !.done = NoEvent,
                           !.started = @ \/ msg.verified]
    BY <1>1, <1>9 DEF Envelope, Worded
  <2>2. /\ r \in Reader /\ r.text = reader.text /\ r.dispatch = reader.dispatch
        /\ r.pending /\ r.done = NoEvent /\ r.failed = reader.failed
    BY <1>0, <2>1, NoEventType DEF Reader, Message
  <2>3. Settled(r) /\ Flags(r)
    BY <2>2 DEF Settled, Flags
  <2>4. TextOf(t, r)
    BY <1>0, <1>1, <2>2 DEF Knows, TextOf
  <2> QED
    BY <2>2, <2>3, <2>4 DEF Knows
<1>10. CASE kind = "error"
  <2>1. r = [reader EXCEPT !.failed = TRUE]
    BY <1>1, <1>10 DEF Envelope, Worded
  <2>2. r \in Reader /\ r.text = reader.text /\ r.dispatch = reader.dispatch
        /\ r.pending = reader.pending /\ r.started = reader.started
        /\ r.done = reader.done
    BY <1>0, <2>1 DEF Reader
  <2>3. Flags(r)
    BY <1>0, <2>2 DEF Flags, Settled
  <2>4. Knows(t, r)
    BY <1>6, <1>10, <2>2 DEF Knows, TextOf
  <2> QED
    BY <2>2, <2>3, <2>4
<1> QED
  BY <1>7, <1>8, <1>9, <1>10 DEF Kind

LEMMA NewMessageKeeps ==
    ASSUME CallInv, NEW kind \in Kind, NewMessage(kind) PROVE CallInv'
<1>0. TypeOK /\ Writing /\ MayWrite(kind) /\ Unanswered /\ UNCHANGED widget
  BY DEF CallInv, NewMessage
<1>1. PICK finished \in BOOLEAN, verified \in BOOLEAN :
        LET message == [kind |-> kind, length |-> 0, finished |-> finished,
                        verified |-> verified]
            t == Append(turn, message)
        IN /\ turn' = t
           /\ \/ Live /\ reader' = Envelope(t, Newest + 1, <<>>)
              \/ Live /\ kind = "answer" /\ UNCHANGED reader
              \/ ~Live /\ UNCHANGED reader
  BY DEF NewMessage
<1> DEFINE msg == [kind |-> kind, length |-> 0, finished |-> finished, verified |-> verified]
<1>2. msg \in Message /\ msg.kind = kind
  BY DEF Message
<1>3. turn' = Append(turn, msg)
  BY <1>1
<1> HIDE DEF msg
<1>4. /\ turn' \in Seq(Message) /\ DOMAIN turn' = DOMAIN turn \cup {Newest + 1}
      /\ \A m \in DOMAIN turn : turn'[m] = turn[m]
      /\ turn'[Newest + 1] = msg
  BY <1>0, <1>2, <1>3, MessageAppended
<1>5. AckFollowsStart(turn')
  <2>1. kind \in {"ack", "reworded"} => WroteIn(turn, "start")
    BY <1>0 DEF MayWrite, Wrote, WroteIn
  <2>2. WroteIn(turn, "start") => WroteIn(turn', "start")
    BY <1>4 DEF WroteIn
  <2> QED
    BY <1>2, <1>4, <2>1, <2>2 DEF AckFollowsStart, CallInv
<1>6. CASE Live /\ reader' = Envelope(turn', Newest + 1, <<>>)
  <2>1. reader' \in Reader /\ Flags(reader') /\ Knows(turn', reader')
    BY <1>0, <1>2, <1>3, <1>6, FirstEnvelopeKeeps
  <2> QED
    BY <1>0, <1>4, <1>5, <1>6, <2>1, WritesKeep DEF TypeOK
<1>7. CASE UNCHANGED reader /\ (Live => kind = "answer")
  <2>1. reader' \in Reader /\ Flags(reader')
    BY <1>0, <1>7 DEF CallInv, TypeOK
  <2>2. ASSUME Live PROVE Knows(turn', reader')
    <3>1. Knows(turn, reader)
      BY <2>2 DEF CallInv, Seeing, Live
    <3>2. WroteIn(turn', "start") => WroteIn(turn, "start")
      BY <1>2, <1>4, <1>7, <2>2 DEF WroteIn
    <3>3. More(turn, turn')
      BY <1>0, <1>2, <1>3, AppendIsMore
    <3> QED
      BY <1>7, <3>1, <3>2, <3>3, KnowsMore DEF Knows
  <2> QED
    BY <1>0, <1>4, <1>5, <1>7, <2>1, <2>2, WritesKeep DEF TypeOK
<1> QED
  BY <1>1, <1>3, <1>6, <1>7

\* The reader without its text knows as much.
LEMMA WithoutText ==
    ASSUME NEW t, Knows(t, reader), reader \in Reader
    PROVE  Knows(t, [reader EXCEPT !.text = <<>>])
<1> DEFINE c == [reader EXCEPT !.text = <<>>]
<1>1. c.text = <<>> /\ c.pending = reader.pending /\ c.done = reader.done
  BY DEF Reader
<1> QED
  BY <1>1 DEF Knows, TextOf, Settled

LEMMA GrowKeeps == ASSUME CallInv, Grow PROVE CallInv'
<1> DEFINE n == Last(turn).length + 1
           msg == [turn[Newest] EXCEPT !.length = n]
           t == [turn EXCEPT ![Newest] = msg]
<1>0. /\ TypeOK /\ Writing /\ turn # <<>> /\ Unanswered /\ UNCHANGED widget
      /\ Last(turn).kind \in Worded \cup {"call"}
  BY DEF CallInv, Grow, Open
<1>1. /\ Newest \in DOMAIN turn /\ Newest \in Nat /\ turn[Newest] \in Message
      /\ Last(turn) = turn[Newest] /\ Last(turn).length \in Nat
  BY <1>0, NewestMessage DEF Message
<1>2. /\ msg \in Message /\ msg.kind = Last(turn).kind /\ msg.length = n
      /\ n \in Nat /\ n > 0 /\ msg.length >= Last(turn).length
  BY <1>1 DEF Message
<1>3. turn' = t
  BY DEF Grow
<1> HIDE DEF msg
<1>4. /\ More(turn, t) /\ t[Newest] = msg /\ Newest \in DOMAIN t
      /\ Seeing => Knows(t, reader)
      /\ AckFollowsStart(t)
  BY <1>0, <1>1, <1>2, ChangeKeeps
<1>5. t \in Seq(Message)
  BY <1>4 DEF More
<1> HIDE DEF t, n
<1>6. \/ Live /\ reader' = TextOp(t, Append(reader.text, <<Newest, n>>))
      \/ Live /\ reader' = TextOp(t, Text(Newest, n))
      \/ ~Live /\ UNCHANGED reader
  BY <1>3 DEF Grow, AppendOp, n
<1>7. CASE ~Live /\ UNCHANGED reader
  BY <1>0, <1>3, <1>4, <1>5, <1>7, WritesKeep DEF CallInv, TypeOK
<1>8. ASSUME Live, NEW whole \in Texts, reader' = TextOp(t, whole),
             LET h == Head(whole)[1]
             IN h \in DOMAIN t /\ t[h].kind \in Worded \cup {"call"} /\ t[h].length > 0
      PROVE  CallInv'
  <2>1. reader \in Reader /\ Flags(reader) /\ Knows(t, reader)
    BY <1>0, <1>4, <1>8 DEF CallInv, TypeOK, Live, Seeing
  <2>2. Knows(t, [reader EXCEPT !.text = <<>>])
    BY <2>1, WithoutText
  <2>3. reader' \in Reader /\ Flags(reader') /\ Knows(t, reader')
    BY <1>5, <1>8, <2>1, <2>2, TextOpKeeps
  <2> QED
    BY <1>0, <1>3, <1>4, <1>5, <1>8, <2>3, WritesKeep DEF TypeOK
<1>9. t[Newest].kind \in Worded \cup {"call"} /\ t[Newest].length > 0
  BY <1>0, <1>2, <1>4
<1>10. CASE Live /\ reader' = TextOp(t, Text(Newest, n))
  <2>1. Text(Newest, n) \in Texts
    BY <1>1, <1>2, TextType
  <2>2. Head(Text(Newest, n))[1] = Newest
    BY <1>2 DEF Text
  <2> QED
    BY <1>4, <1>8, <1>9, <1>10, <2>1, <2>2
<1>11. CASE Live /\ reader' = TextOp(t, Append(reader.text, <<Newest, n>>))
  <2> DEFINE whole == Append(reader.text, <<Newest, n>>)
  <2>1. reader.text \in Texts /\ Knows(t, reader)
    BY <1>0, <1>4, <1>11 DEF TypeOK, Reader, Seeing, Live
  <2>2. whole \in Texts
    BY <1>1, <1>2, <2>1, PieceAdded
  <2>3. CASE reader.text = <<>>
    <3>1. Head(whole) = <<Newest, n>>
      BY <1>1, <1>2, <2>1, <2>3, PieceAdded
    <3>2. Head(whole)[1] = Newest
      BY <3>1
    <3> HIDE DEF whole
    <3> QED
      BY <1>4, <1>8, <1>9, <1>11, <2>2, <3>2 DEF whole
  <2>4. CASE reader.text # <<>>
    <3>1. Head(whole) = Head(reader.text)
      BY <1>1, <1>2, <2>1, <2>4, PieceAdded
    <3> HIDE DEF whole
    <3>2. LET h == Head(whole)[1]
          IN h \in DOMAIN t /\ t[h].kind \in Worded \cup {"call"} /\ t[h].length > 0
      BY <2>1, <2>4, <3>1 DEF Knows, TextOf
    <3> QED
      BY <1>8, <1>11, <2>2, <3>2 DEF whole
  <2> QED
    BY <2>3, <2>4
<1> QED
  BY <1>6, <1>7, <1>10, <1>11

LEMMA FinishKeeps == ASSUME CallInv, Finish PROVE CallInv'
<1> DEFINE msg == [turn[Newest] EXCEPT !.finished = TRUE]
           t == [turn EXCEPT ![Newest] = msg]
           n == Last(turn).length
           whole == Text(Newest, n)
<1>0. /\ TypeOK /\ Writing /\ turn # <<>> /\ Unanswered /\ UNCHANGED widget
  BY DEF CallInv, Finish, Open
<1>1. /\ Newest \in DOMAIN turn /\ Newest \in Nat /\ turn[Newest] \in Message
      /\ Last(turn) = turn[Newest] /\ n \in Nat
  BY <1>0, NewestMessage DEF Message
<1>2. /\ msg \in Message /\ msg.kind = Last(turn).kind /\ msg.length = n
      /\ msg.length >= Last(turn).length /\ msg.finished
  <2>1. msg \in Message /\ msg.finished
    BY <1>1 DEF Message
  <2>2. msg.kind = turn[Newest].kind /\ msg.length = turn[Newest].length
    BY <1>1 DEF Message
  <2> QED
    BY <1>1, <2>1, <2>2
<1>3. turn' = t
  BY DEF Finish
<1> HIDE DEF msg
<1>4. /\ More(turn, t) /\ t[Newest] = msg /\ Newest \in DOMAIN t
      /\ Seeing => Knows(t, reader)
      /\ AckFollowsStart(t)
  BY <1>0, <1>1, <1>2, ChangeKeeps
<1>5. t \in Seq(Message)
  BY <1>4 DEF More
<1> HIDE DEF t
<1>6. \/ Live /\ reader' = EmitDone(t, reader)
      \/ Live /\ Last(turn).kind \in Worded /\ reader' = Envelope(t, Newest, whole)
      \/ ~Live /\ UNCHANGED reader
  BY <1>3 DEF Finish, StatusOp
<1>7. CASE ~Live /\ UNCHANGED reader
  BY <1>0, <1>3, <1>4, <1>5, <1>7, WritesKeep DEF CallInv, TypeOK
<1>8. ASSUME Live
      PROVE  reader \in Reader /\ Flags(reader) /\ Knows(t, reader)
  BY <1>0, <1>4, <1>8 DEF CallInv, TypeOK, Live, Seeing
<1>9. CASE Live /\ reader' = EmitDone(t, reader)
  <2>1. reader' \in Reader /\ Flags(reader') /\ Knows(t, reader')
    BY <1>4, <1>5, <1>8, <1>9, EmitDoneKeeps
  <2> QED
    BY <1>0, <1>3, <1>4, <1>5, <1>9, <2>1, WritesKeep DEF TypeOK
<1>10. CASE Live /\ Last(turn).kind \in Worded /\ reader' = Envelope(t, Newest, whole)
  <2>1. whole \in Texts
    BY <1>1, TextType
  <2>2. whole # <<>> => n > 0 /\ Head(whole)[1] = Newest
    BY <1>1, TextHead
  <2>3. Knows(t, [reader EXCEPT !.text = <<>>])
    BY <1>8, <1>10, WithoutText
  <2>4. t[Newest].kind \in Worded /\ t[Newest].length = n
    BY <1>2, <1>4, <1>10
  <2> HIDE DEF whole, n
  <2> DEFINE q == TextOp(t, whole)
  <2>5. q \in Reader /\ Flags(q) /\ Knows(t, q)
    BY <1>4, <1>5, <1>8, <1>10, <2>1, <2>2, <2>3, <2>4, TextOpKeeps
  <2>6. reader' = EmitDone(t, q)
    BY <1>2, <1>4, <1>10, <2>4 DEF Envelope, TextOp, Worded
  <2> HIDE DEF q
  <2>7. reader' \in Reader /\ Flags(reader') /\ Knows(t, reader')
    BY <1>4, <1>5, <2>5, <2>6, EmitDoneKeeps
  <2> QED
    BY <1>0, <1>3, <1>4, <1>5, <1>10, <2>7, WritesKeep DEF TypeOK
<1> QED
  BY <1>6, <1>7, <1>9, <1>10

LEMMA UpstreamKeeps ==
    ASSUME CallInv, WidgetChanges \/ Meta PROVE CallInv'
<1>0. TypeOK /\ Flags(reader) /\ AckFollowsStart(turn)
  BY DEF CallInv
<1>1. CASE WidgetChanges
  <2>1. widget' \in {"none", "draft", "completed"} /\ UNCHANGED <<turn, reader>>
        /\ Unanswered /\ Writing
    BY <1>1 DEF WidgetChanges
  <2>2. Live => Knows(turn, reader)
    BY DEF CallInv, Seeing, Live
  <2> QED
    BY <1>0, <2>1, <2>2, WritesKeep DEF TypeOK
<1>2. CASE Meta
  <2>1. PICK invoked \in BOOLEAN, lower \in BOOLEAN, known \in BOOLEAN :
          reader' = [reader EXCEPT !.invoked = @ \/ invoked, !.lower = lower,
                                   !.known = @ \/ known]
    BY <1>2 DEF Meta
  <2>2. /\ reader' \in Reader
        /\ reader'.text = reader.text /\ reader'.dispatch = reader.dispatch
        /\ reader'.pending = reader.pending /\ reader'.started = reader.started
        /\ reader'.failed = reader.failed /\ reader'.done = reader.done
    BY <1>0, <2>1 DEF TypeOK, Reader
  <2>3. Knows(turn, reader)
    BY <1>2 DEF CallInv, Meta, Live, Seeing
  <2>4. Flags(reader') /\ Knows(turn, reader')
    BY <1>0, <2>2, <2>3 DEF Flags, Knows, TextOf, Settled
  <2>5. Live /\ Unanswered /\ UNCHANGED <<turn, widget>>
    BY <1>2 DEF Meta, Upstream
  <2> QED
    BY <1>0, <2>2, <2>4, <2>5, WritesKeep DEF TypeOK, Live, Writing
<1> QED
  BY <1>1, <1>2

-----------------------------------------------------------------------------
(* The call                                                                *)

LEMMA CallKeeps ==
    ASSUME TypeOK, Flags(reader), AckFollowsStart(turn), LowerWaits,
           TypeOK', UNCHANGED <<turn, reader>>,
           stage' \in Ended \/ stage' = stage
             \/ (Seeing /\ stage' = "streaming")
             \/ (stage' = "polling" /\ (reader.lower => reader.started)),
           Seeing => Knows(turn, reader)
    PROVE  CallInv'
BY DEF CallInv, LowerWaits, Seeing, Ended

LEMMA SetupKeeps ==
    ASSUME CallInv, QuotaExhausted \/ Post \/ Fails \/ UsageLimit \/ CooldownEnds
    PROVE  CallInv'
<1>1. TypeOK'
  BY DEF CallInv, TypeOK, QuotaExhausted, Post, Fails, UsageLimit, CooldownEnds, Raises,
         Upstream, Ended
<1> QED
  BY <1>1, CallKeeps
     DEF CallInv, QuotaExhausted, Post, Fails, UsageLimit, CooldownEnds, Raises, Upstream,
         Ended, Seeing

LEMMA SeedType == ASSUME TypeOK PROVE Seed \in Texts
BY DEF TypeOK, Seed, Reader, Texts

LEMMA StreamEndsKeeps == ASSUME CallInv, StreamEnds PROVE CallInv'
<1>0. TypeOK /\ reader.done \in DoneEvent /\ reader.text \in Texts
  BY DEF CallInv, TypeOK, Reader
<1>1. [text |-> reader.text, failed |-> FALSE, abnormal |-> TRUE] \in DoneEvent
  BY <1>0, DoneType
<1>2. TypeOK'
  BY <1>0, <1>1, SeedType DEF TypeOK, StreamEnds, Returns, Upstream, Ended
<1>3. UNCHANGED <<turn, reader>>
  BY DEF StreamEnds, Upstream
<1>4. stage' \in Ended \/ (stage' = "polling" /\ (reader.lower => reader.started))
  BY DEF StreamEnds, Returns, Refused, Ended
<1> QED
  BY <1>2, <1>3, <1>4, CallKeeps DEF CallInv

LEMMA ReportType == Report \in Texts
<1>1. <<>> \in Texts /\ <<0, 1>> \in Nat \X Nat
  BY DEF Texts
<1>2. WidgetText \in Texts
  BY <1>1 DEF WidgetText, Texts
<1> QED
  BY <1>1, <1>2 DEF Report

LEMMA CandidateText ==
    ASSUME TypeOK, NEW m \in Candidates
    PROVE  /\ ~reader.pending /\ m \in DOMAIN turn
           /\ Text(m, turn[m].length) \in Texts
<1>1. ~reader.pending /\ m \in DOMAIN turn
  BY DEF Candidates
<1>2. m \in Nat /\ turn[m].length \in Nat
  BY <1>1, MemberTypes DEF TypeOK
<1> QED
  BY <1>1, <1>2, TextType

LEMMA PollReadsKeeps == ASSUME CallInv, PollReads PROVE CallInv'
<1>0. TypeOK /\ reader.failed \in BOOLEAN /\ stage = "polling"
      /\ elapsed' \in Nat /\ elapsed' < MaxWait + Interval + Pause
  BY BoundsAssumption DEF CallInv, TypeOK, Reader, PollReads, Polling
<1>1. UNCHANGED <<turn, reader, cooldown, widget>>
  BY DEF PollReads, Upstream
<1>2. ASSUME NEW text \in Texts, Polled(text)
      PROVE  stage' = "returned" /\ result' \in DoneEvent
  <2>1. [text |-> text, failed |-> reader.failed, abnormal |-> FALSE] \in DoneEvent
    BY <1>0, DoneType
  <2> QED
    BY <1>2, <2>1 DEF Polled, Returns
<1>3. /\ emitted' \in Texts
      /\ stage' = "returned" \/ stage' = stage
      /\ result' \in DoneEvent
  <2>1. CASE Report # <<>>
    BY <1>0, <1>2, <2>1, ReportType DEF PollReads, TypeOK
  <2>2. CASE Report = <<>>
    <3>1. CASE UNCHANGED <<stage, result, emitted>>
      BY <1>0, <3>1 DEF TypeOK
    <3>2. CASE \E m \in Candidates :
                 /\ emitted' = Text(m, turn[m].length)
                 /\ Polled(Text(m, turn[m].length)) \/ UNCHANGED <<stage, result>>
      <4>1. PICK m \in Candidates :
                 /\ emitted' = Text(m, turn[m].length)
                 /\ Polled(Text(m, turn[m].length)) \/ UNCHANGED <<stage, result>>
        BY <3>2
      <4>2. Text(m, turn[m].length) \in Texts
        BY <1>0, CandidateText
      <4> QED
        BY <1>0, <1>2, <4>1, <4>2 DEF TypeOK
    <3> QED
      BY <2>2, <3>1, <3>2 DEF PollReads
  <2> QED
    BY <2>1, <2>2
<1>4. TypeOK'
  BY <1>0, <1>1, <1>3 DEF TypeOK, Ended
<1> QED
  BY <1>0, <1>1, <1>3, <1>4, CallKeeps DEF CallInv, Ended

LEMMA PollEndsKeeps == ASSUME CallInv, PollFails \/ TimesOut PROVE CallInv'
<1>0. TypeOK /\ emitted \in Texts /\ reader.failed \in BOOLEAN /\ stage = "polling"
  BY DEF CallInv, TypeOK, Reader, PollFails, TimesOut, Polling
<1>1. UNCHANGED <<turn, reader>> /\ (stage' \in Ended \/ stage' = stage)
  BY DEF PollFails, TimesOut, Returns, Upstream, Ended
<1>2. [text |-> emitted, failed |-> reader.failed, abnormal |-> TRUE] \in DoneEvent
  BY <1>0, DoneType
<1>3. TypeOK'
  <2>1. CASE PollFails
    <3>1. elapsed' \in Nat /\ elapsed' < MaxWait + Interval + Pause
      BY BoundsAssumption, <1>0, <2>1 DEF TypeOK, PollFails, Polling
    <3> QED
      BY <1>0, <2>1, <3>1 DEF TypeOK, PollFails, Upstream
  <2>2. CASE TimesOut
    BY <1>0, <1>2, <2>2 DEF TypeOK, TimesOut, Returns, Upstream, Ended
  <2> QED
    BY <2>1, <2>2
<1> QED
  BY <1>1, <1>3, CallKeeps DEF CallInv

LEMMA InitInv == ASSUME Init PROVE CallInv
<1>1. <<>> \in Texts /\ <<>> \in Seq(Message)
  BY DEF Texts
<1>2. reader \in Reader
  BY <1>1, NoEventType DEF Init, Reader
<1>3. TypeOK
  BY <1>1, <1>2, NoEventType, BoundsAssumption DEF Init, TypeOK
<1>4. Flags(reader) /\ AckFollowsStart(turn) /\ LowerWaits /\ Knows(turn, reader)
  BY DEF Init, Flags, Settled, AckFollowsStart, LowerWaits, Knows, TextOf, WroteIn
<1> QED
  BY <1>3, <1>4 DEF CallInv

LEMMA StepInv == ASSUME CallInv, [Next]_vars PROVE CallInv'
<1>1. CASE UNCHANGED vars
  BY <1>1 DEF vars, CallInv, TypeOK, LowerWaits, Seeing
<1> QED
  BY <1>1, SetupKeeps, NewMessageKeeps, GrowKeeps, FinishKeeps, UpstreamKeeps,
     StreamEndsKeeps, PollReadsKeeps, PollEndsKeeps DEF Next

LEMMA Inductive == Spec => []CallInv
BY InitInv, StepInv, PTL DEF Spec

-----------------------------------------------------------------------------
(* Theorems                                                                *)

\* The state dict of phase 1 and the locals of phase 2 keep their types.
THEOREM HeavyTypes == Spec => []TypeOK
<1>1. CallInv => TypeOK
  BY DEF CallInv
<1> QED
  BY <1>1, Inductive, PTL

\* Whatever returns, returns from the end of the stream or from a poll.
LEMMA WhoReturns ==
    ASSUME CallInv, [Next]_vars, Returning, Plain
    PROVE  /\ UNCHANGED reader
           /\ \/ /\ stage = "streaming" /\ ~Refused /\ reader.done # NoEvent
                 /\ result' = reader.done
              \/ /\ stage = "polling" /\ ~reader.failed
                 /\ result'.text = WidgetText \/ Candidates # {}
<1>1. CASE StreamEnds
  <2>1. result' = reader.done \/ result'.abnormal
    BY <1>1 DEF StreamEnds, Returns, Returning
  <2> QED
    BY <1>1, <2>1 DEF StreamEnds, Returns, Returning, Plain, Upstream, Live
<1>2. CASE PollReads
  <2>1. ASSUME NEW text, Polled(text)
        PROVE  result'.text = text /\ result'.failed = reader.failed
    BY <2>1 DEF Polled, Returns
  <2>2. CASE Report # <<>>
    BY <1>2, <2>1, <2>2 DEF PollReads, Polling, Report, Plain, Upstream
  <2>3. CASE Report = <<>>
    <3>1. PICK m \in Candidates : Polled(Text(m, turn[m].length))
      BY <1>2, <2>3 DEF PollReads, Returning, Polling
    <3>2. result'.failed = reader.failed
      BY <2>1, <3>1
    <3> QED
      BY <1>2, <3>1, <3>2 DEF PollReads, Polling, Plain, Upstream
  <2> QED
    BY <2>2, <2>3
<1>3. CASE TimesOut
  BY <1>3 DEF TimesOut, Returns, Plain, Returning
<1> QED
  BY <1>1, <1>2, <1>3
     DEF Next, vars, Returning, QuotaExhausted, Post, Fails, UsageLimit, CooldownEnds, Raises,
         NewMessage, Grow, Finish, WidgetChanges, Meta, Unanswered, PollFails

\* The guard of the lower tier is lifted only by a start that names the connector;
\* from then on neither the stream nor a poll takes any words but the widget's.
THEOREM LowerTierRefused == Spec => LowerTierIsRefused
<1>1. ASSUME CallInv, [Next]_vars, Returning, reader.lower, Plain
      PROVE  result'.text = WidgetText
  <2>1. CASE stage = "streaming" /\ ~Refused /\ reader.done # NoEvent /\ result' = reader.done
    <3>1. reader.pending
      BY <1>1, <2>1 DEF Refused, CallInv, Flags
    <3>2. reader.done.failed
      BY <1>1, <2>1, <3>1 DEF CallInv, Flags, Settled
    <3> QED
      BY <1>1, <2>1, <3>2 DEF Plain
  <2>2. CASE stage = "polling" /\ (result'.text = WidgetText \/ Candidates # {})
    BY <1>1, <2>2 DEF CallInv, LowerWaits, Flags, Candidates
  <2> QED
    BY <1>1, <2>1, <2>2, WhoReturns
<1>2. CallInv /\ [Next]_vars =>
        [Returning /\ reader.lower /\ Plain => result'.text = WidgetText]_vars
  BY <1>1
<1> QED
  BY <1>2, Inductive, PTL DEF Spec, LowerTierIsRefused

-----------------------------------------------------------------------------
(* The text of the report                                                  *)

\* While the stream is live the reader has all of an answer that is the newest.
AnswerRead ==
    Seeing /\ turn # <<>> /\ Last(turn).kind = "answer" =>
        reader.text = Text(Newest, Last(turn).length)

\* As long as nothing has started, failed or been done, no text has been finished.
Unheard ==
    Seeing /\ ~reader.pending /\ ~reader.failed /\ reader.done = NoEvent =>
        \A m \in DOMAIN turn :
          turn[m].kind = "answer" /\ turn[m].length > 0 => m = Newest /\ ~turn[m].finished

\* Message m of t is a finished answer, and the whole of done.
Makes(t, m, done) ==
    /\ t[m].kind = "answer" /\ t[m].finished
    /\ done = [text |-> Text(m, t[m].length), failed |-> FALSE, abnormal |-> FALSE]

FailsAfter(t, m) == \E e \in DOMAIN t : m < e /\ t[e].kind = "error"

\* A done event that knows of no failure is all of a finished answer, and a failure
\* came after it.
DoneIsAnswer ==
    Seeing /\ ~Settled(reader) =>
        \E m \in DOMAIN turn :
          Makes(turn, m, reader.done) /\ (reader.failed => FailsAfter(turn, m))

\* What phase 2 would give back at the deadline.
EmittedMayPass ==
    stage = "polling" /\ emitted # <<>> =>
        /\ ~reader.pending
        /\ Head(emitted)[1] \in DOMAIN turn
        /\ turn[Head(emitted)[1]].kind \in {"reworded", "answer"}

TextInv == AnswerRead /\ Unheard /\ DoneIsAnswer /\ EmittedMayPass

LEMMA TextAdded ==
    ASSUME NEW m \in Nat, NEW n \in Nat
    PROVE  /\ Append(Text(m, n), <<m, n + 1>>) = Text(m, n + 1)
           /\ Text(m, 0) = <<>>
BY DEF Text

\* Steps that leave the messages and the reader alone.
LEMMA TextStays ==
    ASSUME TextInv, UNCHANGED <<turn, reader>>, Seeing' => Seeing,
           EmittedMayPass'
    PROVE  TextInv'
BY DEF TextInv, Unheard, AnswerRead, DoneIsAnswer, Newest

\* What the flags are after the envelope of a message without a text.
LEMMA NewReader ==
    ASSUME TypeOK, NEW kind \in Kind, NEW msg \in Message, msg.kind = kind,
           NEW t, t = Append(turn, msg),
           \/ reader' = Envelope(t, Newest + 1, <<>>)
           \/ kind = "answer" /\ UNCHANGED reader
    PROVE  /\ reader'.pending = (reader.pending \/ kind = "start")
           /\ reader'.failed = (reader.failed \/ kind = "error")
           /\ reader'.done = IF kind = "start" THEN NoEvent ELSE reader.done
<1>1. t[Newest + 1] = msg /\ reader \in Reader
  BY MessageAppended DEF TypeOK
<1>2. /\ reader.pending \in BOOLEAN /\ reader.failed \in BOOLEAN
  BY <1>1 DEF Reader
<1>3. CASE UNCHANGED reader /\ kind = "answer"
  BY <1>2, <1>3
<1>4. CASE kind \in Worded /\ reader' = Envelope(t, Newest + 1, <<>>)
  <2> DEFINE q == [reader EXCEPT !.text = <<>>, !.dispatch = IsDispatch(t, <<>>)]
  <2>1. q.text = <<>> /\ q.pending = reader.pending /\ q.failed = reader.failed
        /\ q.done = reader.done
    BY <1>1 DEF Reader
  <2>2. EmitDone(t, q) = q
    BY <2>1 DEF EmitDone
  <2>3. reader' = IF msg.finished THEN EmitDone(t, q) ELSE q
    BY <1>1, <1>4 DEF Envelope, Worded
  <2>4. reader' = q
    BY <2>2, <2>3
  <2> QED
    BY <1>2, <1>4, <2>1, <2>4 DEF Worded
<1>5. CASE kind \in {"call", "start", "error"} /\ reader' = Envelope(t, Newest + 1, <<>>)
  BY <1>1, <1>2, <1>5 DEF Envelope, Worded, Reader
<1> QED
  BY <1>3, <1>4, <1>5 DEF Kind

LEMMA NewMessageText ==
    ASSUME CallInv, CallInv', TextInv, NEW kind \in Kind, NewMessage(kind)
    PROVE  TextInv'
<1>0. TypeOK /\ Writing /\ MayWrite(kind) /\ Unanswered
  BY DEF CallInv, NewMessage
<1>1. PICK finished \in BOOLEAN, verified \in BOOLEAN :
        LET message == [kind |-> kind, length |-> 0, finished |-> finished,
                        verified |-> verified]
            t == Append(turn, message)
        IN /\ turn' = t
           /\ \/ Live /\ reader' = Envelope(t, Newest + 1, <<>>)
              \/ Live /\ kind = "answer" /\ reader.text = <<>> /\ UNCHANGED reader
              \/ ~Live /\ UNCHANGED reader
  BY DEF NewMessage
<1> DEFINE msg == [kind |-> kind, length |-> 0, finished |-> finished, verified |-> verified]
<1>2. msg \in Message /\ msg.kind = kind /\ msg.length = 0
  BY DEF Message
<1>3. turn' = Append(turn, msg)
  BY <1>1
<1> HIDE DEF msg
<1>4. /\ DOMAIN turn' = DOMAIN turn \cup {Newest + 1}
      /\ \A m \in DOMAIN turn : turn'[m] = turn[m]
      /\ turn'[Newest + 1] = msg /\ Newest + 1 \in Nat
  BY <1>0, <1>2, <1>3, MessageAppended
<1>5. Newest' = Newest + 1 /\ Last(turn') = msg /\ turn' # <<>>
  BY <1>0, <1>2, <1>3, <1>4 DEF Newest, Last, TypeOK
<1>6. Seeing' => Live
  BY <1>0 DEF Seeing, Writing, Live, Unanswered
<1>7. ASSUME Live
      PROVE  /\ reader'.pending = (reader.pending \/ kind = "start")
             /\ reader'.failed = (reader.failed \/ kind = "error")
             /\ reader'.done = IF kind = "start" THEN NoEvent ELSE reader.done
  BY <1>0, <1>1, <1>2, <1>3, <1>7, NewReader
<1>8. AnswerRead'
  <2> SUFFICES ASSUME Seeing', msg.kind = "answer"
               PROVE  reader'.text = <<>>
    BY <1>2, <1>4, <1>5, TextAdded DEF AnswerRead
  <2>1. Live
    BY <1>0 DEF Seeing, Writing, Live, Unanswered
  <2>2. CASE reader' = Envelope(turn', Newest + 1, <<>>)
    <3> DEFINE q == [reader EXCEPT !.text = <<>>, !.dispatch = IsDispatch(turn', <<>>)]
    <3>1. q.text = <<>>
      BY <1>0 DEF TypeOK, Reader
    <3>2. EmitDone(turn', q) = q
      BY <3>1 DEF EmitDone
    <3>3. reader' = IF msg.finished THEN EmitDone(turn', q) ELSE q
      BY <1>4, <2>2 DEF Envelope, Worded
    <3> QED
      BY <3>1, <3>2, <3>3
  <2> QED
    BY <1>1, <1>3, <2>1, <2>2
<1>9. Unheard'
  <2> SUFFICES ASSUME Seeing', ~reader'.pending, ~reader'.failed, reader'.done = NoEvent,
                      NEW m \in DOMAIN turn', turn'[m].kind = "answer", turn'[m].length > 0
               PROVE  FALSE
    BY DEF Unheard
  <2>1. Live /\ ~reader.pending /\ ~reader.failed /\ reader.done = NoEvent
    BY <1>6, <1>7
  <2>2. m \in DOMAIN turn /\ turn[m].kind = "answer" /\ turn[m].length > 0
    BY <1>2, <1>4
  <2>3. m = Newest /\ ~turn[m].finished
    BY <2>1, <2>2 DEF TextInv, Unheard, Seeing, Live
  <2>4. turn # <<>> /\ Last(turn) = turn[Newest]
    BY <1>0, <2>2, <2>3 DEF Newest, Last, TypeOK
  <2> QED
    BY <2>3, <2>4 DEF NewMessage, Open
<1>11. DoneIsAnswer'
  <2> SUFFICES ASSUME Seeing', ~Settled(reader')
               PROVE  \E m \in DOMAIN turn' :
                        Makes(turn', m, reader'.done)
                          /\ (reader'.failed => FailsAfter(turn', m))
    BY DEF DoneIsAnswer
  <2>1. Live /\ kind # "start" /\ ~Settled(reader) /\ reader'.done = reader.done
    BY <1>6, <1>7 DEF Settled
  <2>2. PICK m \in DOMAIN turn :
          Makes(turn, m, reader.done) /\ (reader.failed => FailsAfter(turn, m))
    BY <2>1 DEF TextInv, DoneIsAnswer, Seeing, Live
  <2>3. m \in DOMAIN turn' /\ Makes(turn', m, reader'.done)
    BY <1>4, <2>1, <2>2 DEF Makes
  <2>4. FailsAfter(turn, m) => FailsAfter(turn', m)
    BY <1>4 DEF FailsAfter
  <2>5. kind = "error" => FailsAfter(turn', m)
    <3>1. m < Newest + 1
      BY <1>0, <2>2 DEF TypeOK, Newest
    <3> QED
      BY <1>2, <1>4, <3>1 DEF FailsAfter
  <2> QED
    BY <1>7, <2>1, <2>2, <2>3, <2>4, <2>5
<1>10. EmittedMayPass'
  <2> SUFFICES ASSUME stage' = "polling", emitted' # <<>> PROVE EmittedMayPass'
    BY DEF EmittedMayPass
  <2>1. stage = "polling" /\ emitted' = emitted /\ reader' = reader
    BY <1>0, <1>1 DEF Unanswered, Live
  <2> QED
    BY <1>4, <2>1 DEF EmittedMayPass, TextInv
<1> QED
  BY <1>8, <1>9, <1>10, <1>11 DEF TextInv

\* A message that grows or finishes: what of TextInv is about the others.
LEMMA ChangeText ==
    ASSUME CallInv, TextInv, Open, NEW msg \in Message,
           msg.kind = Last(turn).kind, msg.length >= Last(turn).length,
           turn' = [turn EXCEPT ![Newest] = msg],
           Unanswered, Live \/ UNCHANGED reader
    PROVE  /\ EmittedMayPass'
           /\ Newest' = Newest /\ Last(turn') = msg /\ turn' # <<>>
           /\ DOMAIN turn' = DOMAIN turn /\ Newest \in DOMAIN turn
           /\ \A m \in DOMAIN turn : turn'[m] = IF m = Newest THEN msg ELSE turn[m]
           /\ reader'.done = reader.done /\ reader'.failed = reader.failed => DoneIsAnswer'
<1>0. TypeOK /\ turn # <<>> /\ ~Last(turn).finished
  BY DEF CallInv, Open
<1>1. /\ turn' \in Seq(Message) /\ DOMAIN turn' = DOMAIN turn
      /\ \A m \in DOMAIN turn : turn'[m] = IF m = Newest THEN msg ELSE turn[m]
      /\ Newest \in DOMAIN turn /\ Last(turn) = turn[Newest]
  BY <1>0, MessageChanged, NewestMessage
<1>2. Newest' = Newest /\ Last(turn') = msg /\ turn' # <<>>
  BY <1>0, <1>1 DEF Newest, Last, TypeOK
<1>3. ASSUME reader'.done = reader.done, reader'.failed = reader.failed,
             Seeing', ~Settled(reader')
      PROVE  \E m \in DOMAIN turn' :
               Makes(turn', m, reader'.done) /\ (reader'.failed => FailsAfter(turn', m))
  <2>1. Seeing /\ ~Settled(reader)
    BY <1>3 DEF Seeing, Settled, Unanswered
  <2>2. PICK m \in DOMAIN turn :
          Makes(turn, m, reader.done) /\ (reader.failed => FailsAfter(turn, m))
    BY <2>1 DEF TextInv, DoneIsAnswer
  <2>3. m # Newest
    BY <1>0, <1>1, <2>2 DEF Makes
  <2>4. Makes(turn', m, reader'.done)
    BY <1>1, <1>3, <2>2, <2>3 DEF Makes
  <2>5. FailsAfter(turn, m) => FailsAfter(turn', m)
    BY <1>1 DEF FailsAfter
  <2> QED
    BY <1>1, <1>3, <2>2, <2>4, <2>5
<1>4. \A m \in DOMAIN turn : turn'[m].kind = turn[m].kind
  BY <1>1
<1>5. EmittedMayPass'
  <2> SUFFICES ASSUME stage' = "polling", emitted' # <<>> PROVE EmittedMayPass'
    BY DEF EmittedMayPass
  <2>1. stage = "polling" /\ emitted' = emitted /\ reader' = reader
    BY DEF Unanswered, Live
  <2> QED
    BY <1>1, <1>4, <2>1 DEF EmittedMayPass, TextInv
<1> QED
  BY <1>1, <1>2, <1>3, <1>5 DEF DoneIsAnswer

LEMMA GrowText == ASSUME CallInv, TextInv, Grow PROVE TextInv'
<1> DEFINE n == Last(turn).length + 1
           msg == [turn[Newest] EXCEPT !.length = n]
<1>0. TypeOK /\ Writing /\ Open /\ turn # <<>> /\ Unanswered /\ reader \in Reader
  BY DEF CallInv, Grow, Open, TypeOK
<1>1. /\ Newest \in Nat /\ turn[Newest] \in Message
      /\ Last(turn) = turn[Newest] /\ Last(turn).length \in Nat /\ n \in Nat
  BY <1>0, NewestMessage DEF Message
<1>2. /\ msg \in Message /\ msg.kind = Last(turn).kind /\ msg.length = n
      /\ msg.length >= Last(turn).length
  BY <1>1 DEF Message
<1>3. turn' = [turn EXCEPT ![Newest] = msg]
  BY DEF Grow
<1>4. /\ \/ Live /\ reader' = TextOp(turn', Append(reader.text, <<Newest, n>>))
         \/ Live /\ reader' = TextOp(turn', Text(Newest, n))
         \/ ~Live /\ UNCHANGED reader
  BY DEF Grow, AppendOp
<1> HIDE DEF msg
<1>5. /\ EmittedMayPass'
      /\ Newest' = Newest /\ Last(turn') = msg /\ turn' # <<>>
      /\ DOMAIN turn' = DOMAIN turn
      /\ \A m \in DOMAIN turn : turn'[m] = IF m = Newest THEN msg ELSE turn[m]
      /\ reader'.done = reader.done /\ reader'.failed = reader.failed => DoneIsAnswer'
  BY <1>0, <1>2, <1>3, <1>4, ChangeText
<1>6. Seeing' => Live
  BY <1>0 DEF Seeing, Writing, Live, Unanswered
<1>7. AnswerRead'
  <2> SUFFICES ASSUME Seeing', msg.kind = "answer"
               PROVE  reader'.text = Text(Newest, n)
    BY <1>2, <1>5 DEF AnswerRead
  <2>1. reader.text = Text(Newest, Last(turn).length)
    BY <1>0, <1>2, <1>6 DEF TextInv, AnswerRead, Seeing, Live
  <2>2. Append(reader.text, <<Newest, n>>) = Text(Newest, n)
    BY <1>1, <2>1, TextAdded
  <2>3. reader' = TextOp(turn', Text(Newest, n))
    BY <1>4, <1>6, <2>2
  <2> QED
    BY <1>0, <2>3 DEF TextOp, Reader
<1>8. reader'.done = reader.done /\ reader'.failed = reader.failed
      /\ reader'.pending = reader.pending
  BY <1>0, <1>4 DEF TextOp, Reader
<1>9. Unheard'
  <2> SUFFICES ASSUME Seeing', ~reader'.pending, ~reader'.failed, reader'.done = NoEvent,
                      NEW m \in DOMAIN turn', turn'[m].kind = "answer", turn'[m].length > 0
               PROVE  m = Newest' /\ ~turn'[m].finished
    BY DEF Unheard
  <2>1. Seeing /\ ~reader.pending /\ ~reader.failed /\ reader.done = NoEvent
    BY <1>6, <1>8 DEF Seeing, Live
  <2>2. CASE m # Newest
    BY <1>5, <2>1, <2>2 DEF TextInv, Unheard
  <2>3. CASE m = Newest
    <3>1. msg.finished = turn[Newest].finished
      BY <1>1 DEF Message, msg
    <3> QED
      BY <1>0, <1>1, <1>5, <2>3, <3>1 DEF Open
  <2> QED
    BY <2>2, <2>3
<1> QED
  BY <1>5, <1>7, <1>8, <1>9 DEF TextInv

LEMMA FinishText == ASSUME CallInv, TextInv, Finish PROVE TextInv'
<1> DEFINE n == Last(turn).length
           msg == [turn[Newest] EXCEPT !.finished = TRUE]
<1>0. /\ TypeOK /\ Writing /\ Open /\ turn # <<>> /\ Unanswered /\ reader \in Reader
      /\ Flags(reader)
  BY DEF CallInv, Finish, Open, TypeOK
<1>1. /\ Newest \in DOMAIN turn /\ Newest \in Nat /\ turn[Newest] \in Message
      /\ Last(turn) = turn[Newest] /\ n \in Nat
  BY <1>0, NewestMessage DEF Message
<1>2. /\ msg \in Message /\ msg.kind = Last(turn).kind /\ msg.length = n
      /\ msg.length >= Last(turn).length /\ msg.finished
  <2>1. msg \in Message /\ msg.finished
    BY <1>1 DEF Message
  <2>2. msg.kind = turn[Newest].kind /\ msg.length = turn[Newest].length
    BY <1>1 DEF Message
  <2> QED
    BY <1>1, <2>1, <2>2
<1>3. turn' = [turn EXCEPT ![Newest] = msg]
  BY DEF Finish
<1> HIDE DEF msg
<1>4. /\ EmittedMayPass'
      /\ Newest' = Newest /\ Last(turn') = msg /\ turn' # <<>>
      /\ DOMAIN turn' = DOMAIN turn
      /\ \A m \in DOMAIN turn : turn'[m] = IF m = Newest THEN msg ELSE turn[m]
      /\ reader'.done = reader.done /\ reader'.failed = reader.failed => DoneIsAnswer'
  BY <1>0, <1>2, <1>3, ChangeText DEF Finish
<1>5. /\ More(turn, turn') /\ turn'[Newest] = msg /\ Newest \in DOMAIN turn'
      /\ Seeing => Knows(turn', reader)
      /\ AckFollowsStart(turn')
  BY <1>0, <1>2, <1>3, ChangeKeeps
<1>6. Seeing' => Live
  BY <1>0 DEF Seeing, Writing, Live, Unanswered
<1> SUFFICES ASSUME Live PROVE AnswerRead' /\ Unheard' /\ DoneIsAnswer'
  BY <1>4, <1>6 DEF TextInv, AnswerRead, Unheard, DoneIsAnswer
<1>7. /\ Knows(turn', reader)
      /\ msg.kind = "answer" => reader.text = Text(Newest, n)
  BY <1>0, <1>2, <1>5 DEF TextInv, AnswerRead, Seeing, Live
<1>8. ASSUME NEW q \in Reader, Flags(q), Knows(turn', q),
             q.done = reader.done, q.failed = reader.failed, q.pending = reader.pending,
             msg.kind = "answer" => q.text = Text(Newest, n),
             reader' = EmitDone(turn', q)
      PROVE  AnswerRead' /\ Unheard' /\ DoneIsAnswer'
  <2> DEFINE h == Head(q.text)[1]
  <2>0. /\ reader'.text = q.text /\ reader'.failed = q.failed /\ reader'.pending = q.pending
        /\ EmitDone(turn', q) = q \/ reader'.done = [text |-> q.text, failed |-> q.failed,
                                                    abnormal |-> FALSE]
    BY <1>8 DEF EmitDone, Reader
  <2>1. AnswerRead'
    BY <1>2, <1>4, <1>8, <2>0 DEF AnswerRead
  <2>2. ASSUME EmitDone(turn', q) # q, ~q.failed
        PROVE  /\ q.done = NoEvent /\ ~q.pending
               /\ h = Newest /\ msg.kind = "answer"
    <3>1. q.done = NoEvent /\ ~q.pending
      BY <2>2 DEF EmitDone
    <3>2. h \in DOMAIN turn' /\ turn'[h].kind = "answer" /\ turn'[h].length > 0
      BY <1>5, <1>8, <2>2, EmitsAnswer
    <3>3. turn[h].kind = "answer" /\ turn[h].length > 0 /\ h \in DOMAIN turn
      BY <1>1, <1>2, <1>4, <3>2
    <3>4. h = Newest
      BY <1>8, <2>2, <3>1, <3>3 DEF TextInv, Unheard, Seeing, Live
    <3> QED
      BY <1>5, <3>1, <3>2, <3>4
  <2>3. DoneIsAnswer'
    <3>1. CASE EmitDone(turn', q) = q
      BY <1>4, <1>8, <2>0, <3>1
    <3>2. CASE EmitDone(turn', q) # q /\ q.failed
      BY <2>0, <3>2 DEF DoneIsAnswer, Settled
    <3>3. CASE EmitDone(turn', q) # q /\ ~q.failed
      <4>1. msg.kind = "answer"
        BY <2>2, <3>3
      <4>2. reader'.done = [text |-> q.text, failed |-> FALSE, abnormal |-> FALSE]
        BY <1>8, <2>0, <3>3 DEF Reader
      <4>3. Makes(turn', Newest, reader'.done)
        BY <1>2, <1>5, <1>8, <4>1, <4>2 DEF Makes
      <4> QED
        BY <1>5, <2>0, <3>3, <4>3 DEF DoneIsAnswer
    <3> QED
      BY <3>1, <3>2, <3>3
  <2>4. Unheard'
    <3> SUFFICES ASSUME ~q.pending, ~q.failed, reader'.done = NoEvent,
                        NEW m \in DOMAIN turn', turn'[m].kind = "answer", turn'[m].length > 0
                 PROVE  FALSE
      BY <2>0 DEF Unheard
    <3>1. EmitDone(turn', q) = q /\ q.done = NoEvent
      <4>1. [text |-> q.text, failed |-> q.failed, abnormal |-> FALSE] # NoEvent
              \/ q.text = <<>>
        BY DEF NoEvent
      <4>2. EmitDone(turn', q) # q => q.text # <<>>
        BY DEF EmitDone
      <4> QED
        BY <1>8, <2>0, <4>1, <4>2
    <3>2. turn[m].kind = "answer" /\ turn[m].length > 0 /\ m \in DOMAIN turn
      BY <1>1, <1>2, <1>4
    <3>3. m = Newest
      BY <1>8, <3>1, <3>2 DEF TextInv, Unheard, Seeing, Live
    <3>4. msg.kind = "answer" /\ q.text = Text(Newest, n) /\ n > 0
      BY <1>2, <1>4, <1>8, <3>3
    <3>5. q.text # <<>> /\ Head(q.text)[1] = Newest
      BY <1>1, <3>4 DEF Text
    <3>6. turn'[Newest].kind = "answer"
      BY <1>4, <3>3, <3>4
    <3>7. ~q.dispatch /\ ~IsAck(turn', q.text)
      BY <1>8, <3>5, <3>6 DEF Knows, TextOf, IsAck, KindAt
    <3>8. EmitDone(turn', q) =
            [q EXCEPT !.done = [text |-> q.text, failed |-> q.failed, abnormal |-> FALSE]]
      BY <3>1, <3>5, <3>7 DEF EmitDone
    <3>9. q.done = [text |-> q.text, failed |-> q.failed, abnormal |-> FALSE]
      BY <1>8, <3>1, <3>8 DEF Reader
    <3> QED
      BY <3>1, <3>5, <3>9 DEF NoEvent
  <2> QED
    BY <2>1, <2>3, <2>4
<1>9. CASE reader' = EmitDone(turn', reader)
  BY <1>0, <1>7, <1>8, <1>9
<1>10. CASE Last(turn).kind \in Worded /\ reader' = Envelope(turn', Newest, Text(Newest, n))
  <2> DEFINE whole == Text(Newest, n)
             q == TextOp(turn', whole)
  <2>1. whole \in Texts
    BY <1>1, TextType
  <2>2. whole # <<>> => n > 0 /\ Head(whole)[1] = Newest
    BY <1>1, TextHead
  <2>3. Knows(turn', [reader EXCEPT !.text = <<>>])
    BY <1>0, <1>7, WithoutText
  <2>4. turn'[Newest].kind \in Worded /\ turn'[Newest].length = n
    BY <1>2, <1>5, <1>10
  <2>5. reader' = EmitDone(turn', q)
    BY <1>2, <1>5, <1>10, <2>4 DEF Envelope, TextOp, Worded
  <2>6. q.text = whole /\ q.done = reader.done /\ q.failed = reader.failed
        /\ q.pending = reader.pending
    BY <1>0 DEF TextOp, Reader
  <2>7. turn' \in Seq(Message)
    BY <1>5 DEF More
  <2> HIDE DEF whole, n
  <2>8. q \in Reader /\ Flags(q) /\ Knows(turn', q)
    BY <1>0, <1>5, <2>1, <2>2, <2>3, <2>4, <2>7, TextOpKeeps
  <2> HIDE DEF q
  <2> QED
    BY <1>7, <1>8, <2>5, <2>6, <2>8 DEF whole, n
<1> QED
  BY <1>9, <1>10 DEF Finish, StatusOp, Live

LEMMA OthersText ==
    ASSUME CallInv, TextInv,
           \/ WidgetChanges \/ Meta
           \/ QuotaExhausted \/ Post \/ Fails \/ UsageLimit \/ CooldownEnds
           \/ StreamEnds \/ PollReads \/ PollFails \/ TimesOut
    PROVE  TextInv'
<1>0. TypeOK /\ reader \in Reader
  BY DEF CallInv, TypeOK
<1>1. CASE Meta
  <2>1. /\ reader'.text = reader.text /\ reader'.done = reader.done
        /\ reader'.pending = reader.pending /\ reader'.failed = reader.failed
        /\ UNCHANGED <<turn, stage, emitted>>
    BY <1>0, <1>1 DEF Meta, Reader, Unanswered, Upstream
  <2> QED
    BY <2>1 DEF TextInv, Unheard, AnswerRead, DoneIsAnswer, EmittedMayPass, Settled,
                Seeing, Newest
<1>2. CASE StreamEnds
  <2>1. UNCHANGED <<turn, reader>> /\ ~Seeing' /\ Seeing
    BY <1>2 DEF StreamEnds, Upstream, Seeing, Returns, Live
  <2>2. ASSUME stage' = "polling", emitted' # <<>> PROVE EmittedMayPass'
    <3>1. emitted' = Seed
      BY <1>2, <2>2 DEF StreamEnds, Returns
    <3>2. /\ emitted' = reader.text /\ ~reader.pending
          /\ ~IsDispatch(turn, reader.text) /\ ~IsAck(turn, reader.text)
      BY <2>2, <3>1 DEF Seed
    <3>3. TextOf(turn, reader)
      BY <2>1 DEF CallInv, Knows
    <3> QED
      BY <2>1, <2>2, <3>2, <3>3
         DEF EmittedMayPass, TextOf, IsDispatch, IsAck, KindAt, Worded
  <2> QED
    BY <2>1, <2>2, TextStays DEF EmittedMayPass
<1>3. CASE PollReads
  <2>1. UNCHANGED <<turn, reader>> /\ ~Seeing'
    BY <1>3 DEF PollReads, Upstream, Seeing, Polling, Polled, Returns
  <2>2. ASSUME stage' = "polling", emitted' # <<>> PROVE EmittedMayPass'
    <3>1. CASE emitted' = emitted
      BY <1>3, <2>1, <2>2, <3>1 DEF TextInv, EmittedMayPass, PollReads, Polling
    <3>2. CASE emitted' # emitted
      <4>1. PICK m \in Candidates : emitted' = Text(m, turn[m].length)
        BY <1>3, <3>2 DEF PollReads
      <4>2. ~reader.pending /\ m \in DOMAIN turn /\ turn[m].kind \in {"reworded", "answer"}
        BY DEF Candidates
      <4>3. m \in Nat /\ turn[m].length \in Nat
        BY <1>0, <4>2, MemberTypes DEF TypeOK
      <4>4. Head(emitted')[1] = m
        BY <2>2, <4>1, <4>3, TextHead
      <4> QED
        BY <2>1, <4>2, <4>4 DEF EmittedMayPass
    <3> QED
      BY <3>1, <3>2
  <2> QED
    BY <2>1, <2>2, TextStays DEF EmittedMayPass
<1>4. CASE WidgetChanges \/ QuotaExhausted \/ Post \/ Fails \/ UsageLimit \/ CooldownEnds
             \/ PollFails \/ TimesOut
  <2>1. /\ UNCHANGED <<turn, reader, emitted>> /\ (Seeing' => Seeing)
        /\ stage' = "polling" => stage = "polling"
    BY <1>4 DEF WidgetChanges, Unanswered, QuotaExhausted, Post, Fails, UsageLimit,
                CooldownEnds, Raises, Upstream, PollFails, TimesOut, Returns, Seeing
  <2>2. EmittedMayPass'
    BY <2>1 DEF TextInv, EmittedMayPass
  <2> QED
    BY <2>1, <2>2, TextStays
<1> QED
  BY <1>1, <1>2, <1>3, <1>4

LEMMA InitText == ASSUME Init PROVE TextInv
BY DEF Init, TextInv, Unheard, AnswerRead, DoneIsAnswer, EmittedMayPass, Settled

LEMMA StepText ==
    ASSUME CallInv, CallInv', TextInv, [Next]_vars PROVE TextInv'
<1>1. CASE UNCHANGED vars
  BY <1>1 DEF vars, TextInv, Unheard, AnswerRead, DoneIsAnswer, EmittedMayPass,
              Seeing, Newest
<1> QED
  BY <1>1, NewMessageText, GrowText, FinishText, OthersText DEF Next

LEMMA TextInductive == Spec => [](CallInv /\ TextInv)
<1>1. Init => CallInv /\ TextInv
  BY InitInv, InitText
<1>2. CallInv /\ TextInv /\ [Next]_vars => (CallInv /\ TextInv)'
  BY StepInv, StepText
<1> QED
  BY <1>1, <1>2, PTL DEF Spec

\* What phase 2 gives back is of a message that may be the report.
LEMMA MayPass ==
    ASSUME NEW text \in Texts, text # <<>>, Head(text)[1] \in DOMAIN turn,
           turn[Head(text)[1]].kind \in {"reworded", "answer"}
    PROVE  ~IsDispatch(turn, text) /\ ~IsAck(turn, text)
BY DEF IsDispatch, IsAck, KindAt

\* The three ways to return a text, with the same disjuncts as the property.
ReportOrAnswer ==
    \/ result'.text = WidgetText /\ (Plain => widget = "completed")
    \/ /\ ~reader.pending
       /\ Plain => \E m \in DOMAIN turn :
                      /\ \/ turn[m].kind = "answer"
                         \/ turn[m].kind = "reworded" /\ stage = "polling"
                      /\ turn[m].finished
                      /\ result'.text = Text(m, turn[m].length)
       /\ stage = "polling" => /\ ~IsDispatch(turn, result'.text)
                              /\ ~IsAck(turn, result'.text)
    \/ ~Plain /\ stage # "polling"

LEMMA StreamReturns ==
    ASSUME CallInv, TextInv, StreamEnds, Returning PROVE ReportOrAnswer
<1>0. TypeOK /\ stage = "streaming" /\ Seeing
  BY DEF CallInv, StreamEnds, Live, Seeing
<1>1. CASE ~Plain
  BY <1>0, <1>1 DEF ReportOrAnswer
<1>2. CASE Plain
  <2>1. reader.done # NoEvent /\ result' = reader.done
    BY <1>2 DEF StreamEnds, Returns, Returning, Plain
  <2>2. ~Settled(reader)
    BY <1>2, <2>1 DEF Settled, Plain
  <2>3. ~reader.pending
    BY <2>2 DEF CallInv, Flags
  <2>4. PICK m \in DOMAIN turn : Makes(turn, m, reader.done)
    BY <1>0, <2>2 DEF TextInv, DoneIsAnswer
  <2>5. result'.text = Text(m, turn[m].length)
    BY <2>1, <2>4 DEF Makes
  <2> QED
    BY <1>0, <2>3, <2>4, <2>5 DEF ReportOrAnswer, Makes
<1> QED
  BY <1>1, <1>2

LEMMA PollReturns ==
    ASSUME CallInv, TextInv, PollReads, Returning PROVE ReportOrAnswer
<1>0. TypeOK /\ stage = "polling"
  BY DEF CallInv, PollReads, Polling
<1>1. ASSUME NEW text, Polled(text) PROVE result'.text = text
  BY <1>1 DEF Polled, Returns
<1>2. CASE Report # <<>>
  BY <1>1, <1>2 DEF PollReads, Report, ReportOrAnswer
<1>3. CASE Report = <<>>
  <2>1. PICK m \in Candidates : turn[m].finished /\ Polled(Text(m, turn[m].length))
    BY <1>3 DEF PollReads, Returning
  <2>2. /\ ~reader.pending /\ m \in DOMAIN turn /\ turn[m].length > 0
        /\ turn[m].kind \in {"reworded", "answer"}
    BY DEF Candidates
  <2>3. m \in Nat /\ turn[m].length \in Nat
    BY <1>0, <2>2, MemberTypes DEF TypeOK
  <2>4. PICK text : text = Text(m, turn[m].length)
    OBVIOUS
  <2>5. text \in Texts
    BY <2>3, <2>4, TextType
  <2>6. text # <<>> /\ Head(text)[1] = m
    BY <2>2, <2>3, <2>4 DEF Text
  <2>7. result'.text = text
    BY <1>1, <2>1, <2>4
  <2>8. ~IsDispatch(turn, text) /\ ~IsAck(turn, text)
    BY <2>2, <2>5, <2>6, MayPass
  <2> QED
    BY <1>0, <2>1, <2>2, <2>4, <2>7, <2>8 DEF ReportOrAnswer
<1> QED
  BY <1>2, <1>3

LEMMA DeadlineReturns ==
    ASSUME CallInv, TextInv, TimesOut, Returning PROVE ReportOrAnswer
<1>1. /\ emitted # <<>> /\ result'.text = emitted /\ result'.abnormal
      /\ stage = "polling" /\ emitted \in Texts
  BY DEF TimesOut, Returns, Returning, CallInv, TypeOK
<1>2. /\ ~reader.pending
      /\ Head(emitted)[1] \in DOMAIN turn
      /\ turn[Head(emitted)[1]].kind \in {"reworded", "answer"}
  BY <1>1 DEF TextInv, EmittedMayPass
<1>3. ~IsDispatch(turn, emitted) /\ ~IsAck(turn, emitted)
  BY <1>1, <1>2, MayPass
<1> QED
  BY <1>1, <1>2, <1>3 DEF ReportOrAnswer, Plain

\* Phase 1 returns a done event, phase 2 the widget, a text it may read or what it
\* has emitted: by TextInv each is the widget, the finished answer, or marked, and
\* no poll returns a dispatch or an acknowledgement the code can know.
THEOREM ReportIsReport == Spec => PlainReportIsReport
<1>1. ASSUME CallInv, TextInv, [Next]_vars, Returning
      PROVE  ReportOrAnswer
  <2>1. StreamEnds \/ PollReads \/ TimesOut
    BY <1>1
       DEF Next, vars, Returning, QuotaExhausted, Post, Fails, UsageLimit, CooldownEnds,
           Raises, NewMessage, Grow, Finish, WidgetChanges, Meta, Unanswered, PollFails
  <2> QED
    BY <1>1, <2>1, StreamReturns, PollReturns, DeadlineReturns
<1>2. CallInv /\ TextInv /\ [Next]_vars => [Returning => ReportOrAnswer]_vars
  BY <1>1
<1>3. Spec => [][Returning => ReportOrAnswer]_vars
  BY <1>2, TextInductive, PTL DEF Spec
<1> QED
  BY <1>3 DEF PlainReportIsReport, ReportOrAnswer

\* What a report says of a failure that the stream has shown.
FailureTold ==
    \/ result'.failed
    \/ /\ result'.abnormal /\ stage = "streaming"
       /\ ~(reader.known /\ reader.invoked)
    \/ \E m, e \in DOMAIN turn :
         /\ m < e /\ turn[e].kind = "error"
         /\ turn[m].kind = "answer" /\ turn[m].finished
         /\ result' = [text |-> Text(m, turn[m].length), failed |-> FALSE,
                       abnormal |-> FALSE]

LEMMA StreamTells ==
    ASSUME CallInv, TextInv, StreamEnds, Returning, reader.failed PROVE FailureTold
<1>1. stage = "streaming" /\ Seeing
  BY DEF StreamEnds, Live, Seeing
<1>2. CASE reader.done # NoEvent
  <2>1. result' = reader.done
    BY <1>2 DEF StreamEnds, Returns, Returning
  <2>2. CASE Settled(reader)
    BY <1>2, <2>1, <2>2 DEF Settled, FailureTold
  <2>3. CASE ~Settled(reader)
    BY <1>1, <2>1, <2>3 DEF TextInv, DoneIsAnswer, Makes, FailsAfter, FailureTold
  <2> QED
    BY <2>2, <2>3
<1>3. CASE reader.done = NoEvent
  BY <1>1, <1>3 DEF StreamEnds, Returns, Returning, FailureTold
<1> QED
  BY <1>2, <1>3

\* _emit_done fixes the flag when a text is finished, and the failure may come later:
\* of what was finished before it nothing is said, and everything else carries it.
THEOREM FailureIsTold == Spec => ConnectorErrorIsTold
<1>1. ASSUME CallInv, TextInv, [Next]_vars, Returning, reader.failed
      PROVE  FailureTold
  <2>1. StreamEnds \/ PollReads \/ TimesOut
    BY <1>1
       DEF Next, vars, Returning, QuotaExhausted, Post, Fails, UsageLimit, CooldownEnds,
           Raises, NewMessage, Grow, Finish, WidgetChanges, Meta, Unanswered, PollFails
  <2>2. ASSUME PollReads PROVE result'.failed = reader.failed
    <3>1. \A text : Polled(text) => result'.failed = reader.failed
      BY DEF Polled, Returns
    <3> QED
      BY <1>1, <2>2, <3>1 DEF PollReads, Returning
  <2>3. ASSUME TimesOut PROVE result'.failed = reader.failed
    <3>1. result' = [text |-> emitted, failed |-> reader.failed, abnormal |-> TRUE]
      BY <1>1, <2>3 DEF TimesOut, Returns, Returning
    <3> QED
      BY <3>1
  <2> QED
    BY <1>1, <2>1, <2>2, <2>3, StreamTells DEF FailureTold
<1>2. CallInv /\ TextInv /\ [Next]_vars =>
        [Returning /\ reader.failed => FailureTold]_vars
  BY <1>1
<1>3. Spec => [][Returning /\ reader.failed => FailureTold]_vars
  BY <1>2, TextInductive, PTL DEF Spec
<1> QED
  BY <1>3 DEF ConnectorErrorIsTold, FailureTold
=============================================================================
