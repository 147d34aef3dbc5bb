------------------------------- MODULE ToolCall -------------------------------
(***************************************************************************)
(* ConversationClient.tool_call (sse.py), behind the code_interpreter and  *)
(* canvas_execute tools: one POST, and everything its stream says of the   *)
(* calls to tools, of what they answered and of the assistant's text.      *)
(*                                                                         *)
(* A message begins with its envelope.  On the v1 wire patches follow; on  *)
(* the classic one the message is sent again and again.  The k-th piece of *)
(* the content of the m-th message is <<m, k>>.                            *)
(***************************************************************************)
EXTENDS Naturals, SequencesExt

CONSTANTS
    MaxMessages,    \* bound: messages of the turn
    MaxLength       \* bound: pieces of a message

ASSUME CallAssumption == MaxMessages \in Nat /\ MaxLength \in Nat

VARIABLES
    wire,       \* "classic" or "v1"
    call,       \* where the call stands
    turn,       \* the messages upstream has written
    origin,     \* history: the message each envelope brought, by msg_seq
    reader,     \* _delta and the locals of tool_call
    returned    \* the dict that was returned

callVars == <<wire, call, turn, origin, reader, returned>>

\* Text to all, hidden thoughts, a call of a tool, what a tool answers, and
\* what the system or the user says.
Kind == {"text", "thought", "call", "response", "note"}

Recorded == {"call", "response"}

Content == Seq(Nat \X Nat)

Status == {"in_progress", "finished_successfully", "cut"}

Message == [kind : Kind, length : Nat, status : Status]

IsReader(r) ==
    /\ r.kind \in Kind \cup {"none"}            \* author and recipient
    /\ r.content \in Content /\ r.status \in Status
    /\ r.path \in {"none", "text", "other"}     \* last_path
    /\ r.seq \in Nat                            \* msg_seq
    /\ r.last \in Content                       \* last_text
    /\ r.streamed \in Content                   \* text_parts, joined
    /\ \A n \in DOMAIN r.entries :           \* calls_by_msg, responses_by_msg
         n \in Nat /\ r.entries[n].kind \in Recorded /\ r.entries[n].content \in Content
    /\ r.completed \in BOOLEAN                  \* message_completed

CallTypeOK ==
    /\ wire \in {"classic", "v1"}
    /\ call \in {"setup", "streaming", "returned", "raised"}
    /\ turn \in Seq(Message) /\ Len(turn) <= MaxMessages
    /\ origin \in Seq(DOMAIN turn) /\ Len(origin) = reader.seq
    /\ IsReader(reader)
    /\ returned.content \in Content /\ returned.done \in BOOLEAN

NoEntries == [n \in {} |-> {}]

CallInit ==
    /\ wire \in {"classic", "v1"}
    /\ call = "setup"
    /\ turn = <<>> /\ origin = <<>>
    /\ reader = [kind |-> "none", content |-> <<>>, status |-> "in_progress",
                 path |-> "none", seq |-> 0, last |-> <<>>, streamed |-> <<>>,
                 entries |-> NoEntries, completed |-> FALSE]
    /\ returned = [content |-> <<>>, entries |-> NoEntries, done |-> FALSE]

-----------------------------------------------------------------------------
(* What a frame does to the locals                                         *)

Piece(m, k) == <<m, k>>

Whole(m, n) == [k \in 1 .. n |-> Piece(m, k)]

\* What a snapshot adds to the text before it, or all of it.
NewPart(old, new) ==
    IF IsPrefix(old, new) THEN SubSeq(new, Len(old) + 1, Len(new)) ELSE new

\* Mutant of Record: what an entry says first, it says for good.
RecordFirst(r, n) ==
    [k \in DOMAIN r.entries \cup {n} |->
        IF k \in DOMAIN r.entries THEN r.entries[k]
                                  ELSE [kind |-> r.kind, content |-> r.content]]

Record(r, n) ==
    [k \in DOMAIN r.entries \cup {n} |->
        IF k = n THEN [kind |-> r.kind, content |-> r.content] ELSE r.entries[k]]

\* After every frame: a newer lifecycle supersedes the one before it, and the
\* entry of the message is rewritten.
Seen(r) ==
    LET finished == r.status = "finished_successfully"
    IN CASE r.kind = "text" ->
              [r EXCEPT !.completed = finished, !.last = r.content,
                        !.streamed = IF finished THEN @
                                     ELSE @ \o NewPart(r.last, r.content)]
         [] r.kind = "thought"  -> [r EXCEPT !.completed = FALSE]
         [] r.kind = "call"     -> [r EXCEPT !.completed = FALSE, !.entries = Record(r, r.seq)]
         [] r.kind = "response" -> [r EXCEPT !.completed = finished, !.entries = Record(r, r.seq)]
         [] OTHER -> r

\* _delta.reset
Envelope(m, kind, content, status) ==
    /\ reader' = Seen([reader EXCEPT !.kind = kind, !.content = content,
                                     !.status = status, !.path = "none", !.seq = @ + 1])
    /\ origin' = Append(origin, m)

\* _delta.apply, for a patch of the content, of the status, of anything else.
Patch(r) == reader' = Seen(r) /\ UNCHANGED origin

AppendOp(piece) == Patch([reader EXCEPT !.content = Append(@, piece), !.path = "text"])

ReplaceOp(content) == Patch([reader EXCEPT !.content = content, !.path = "text"])

StatusOp(status) == Patch([reader EXCEPT !.status = status, !.path = "other"])

OtherOp == Patch([reader EXCEPT !.path = "other"])

\* A bare string without a path carried no patch.
BareDelta(piece) ==
    /\ reader.path # "other"
    /\ IF reader.path = "text" THEN AppendOp(piece) ELSE UNCHANGED <<reader, origin>>

-----------------------------------------------------------------------------
(* Upstream writes                                                         *)

Live == call = "streaming"

Open == turn # <<>> /\ Last(turn).status = "in_progress"

Newest == Len(turn)

Reads == UNCHANGED <<wire, call, returned>>

NewMessage(kind) ==
    /\ Live /\ ~Open /\ Newest < MaxMessages
    /\ \E n \in 0 .. (IF kind \in Recorded \cup {"text"} THEN 1 ELSE 0) :
         /\ n <= MaxLength
         /\ turn' = Append(turn, [kind |-> kind, length |-> n, status |-> "in_progress"])
         /\ Envelope(Newest + 1, kind, Whole(Newest + 1, n), "in_progress")
    /\ Reads

\* A text may grow by a piece the classic wire sends alone: the next snapshot
\* brings it again.
Grow ==
    /\ Live /\ Open
    /\ LET m == Last(turn)
           n == m.length + 1
       IN /\ m.kind \in Recorded \cup {"text"} /\ n <= MaxLength
          /\ turn' = [turn EXCEPT ![Newest].length = n]
          /\ \/ wire = "classic" /\ Envelope(Newest, m.kind, Whole(Newest, n), "in_progress")
             \/ wire = "classic" /\ m.kind = "text" /\ BareDelta(Piece(Newest, n))
             \/ wire = "v1" /\ AppendOp(Piece(Newest, n))
             \/ wire = "v1" /\ ReplaceOp(Whole(Newest, n))
             \/ wire = "v1" /\ reader.path = "text" /\ BareDelta(Piece(Newest, n))
    /\ Reads

Finish(status) ==
    /\ Live /\ Open
    /\ turn' = [turn EXCEPT ![Newest].status = status]
    /\ \/ /\ wire = "classic"
          /\ Envelope(Newest, Last(turn).kind, Whole(Newest, Last(turn).length), status)
       \/ wire = "v1" /\ StatusOp(status)
    /\ Reads

Metadata == Live /\ wire = "v1" /\ turn # <<>> /\ OtherOp /\ UNCHANGED turn /\ Reads

-----------------------------------------------------------------------------
(* The request and its end                                                 *)

Post == call = "setup" /\ call' = "streaming" /\ UNCHANGED <<wire, turn, origin, reader, returned>>

\* The setup or the POST fails, an error frame comes, the connection breaks.
Refused ==
    /\ call \in {"setup", "streaming"} /\ call' = "raised"
    /\ UNCHANGED <<wire, turn, origin, reader, returned>>

\* [DONE], or the connection closes.
StreamEnds(done) ==
    /\ Live
    /\ IF done \/ reader.completed
         THEN /\ call' = "returned"
              /\ returned' = [content |-> IF reader.last # <<>> THEN reader.last
                                                               ELSE reader.streamed,
                              entries |-> reader.entries, done |-> done]
         ELSE call' = "raised" /\ UNCHANGED returned
    /\ UNCHANGED <<wire, turn, origin, reader>>

CallNext ==
    \/ Post
    \/ Refused
    \/ \E kind \in Kind : NewMessage(kind)
    \/ Grow
    \/ \E status \in {"finished_successfully", "cut"} : Finish(status)
    \/ Metadata
    \/ \E done \in BOOLEAN : StreamEnds(done)

CallSpec == CallInit /\ [][CallNext]_callVars

-----------------------------------------------------------------------------
(* Properties *)

MessagesOf(kinds) == {m \in DOMAIN turn : turn[m].kind \in kinds}

Latest(kinds) == CHOOSE m \in MessagesOf(kinds) : \A i \in MessagesOf(kinds) : i <= m

\* The last envelope of its message.
LastOf(n) == \A i \in DOMAIN origin : origin[i] = origin[n] => i <= n

\* One entry for every envelope of a call or of an answer, and for nothing
\* else, in order; it says what the message said by then, and the last one of
\* a message says all of it.
EntriesAreTurn(entries) ==
    /\ DOMAIN entries = {n \in DOMAIN origin : turn[origin[n]].kind \in Recorded}
    /\ \A n \in DOMAIN entries :
         LET m == turn[origin[n]]
         IN /\ entries[n].kind = m.kind
            /\ \E k \in 0 .. m.length : entries[n].content = Whole(origin[n], k)
            /\ LastOf(n) => entries[n].content = Whole(origin[n], m.length)

\* What a call returns is the turn.  On the v1 wire, where a message has one
\* envelope, every call of a tool and every answer of one is there once; the
\* classic wire sends a message again as it grows, and the code keeps an entry
\* for each time.  A text is returned whole when it is the latest and, on the
\* classic wire, has ended; and without [DONE] the last word was a finished one.
ResultIsTurn ==
    [][Live /\ call' = "returned" =>
         /\ EntriesAreTurn(returned'.entries)
         /\ wire = "v1" => origin = [m \in DOMAIN turn |-> m]
         /\ MessagesOf({"text"}) # {} =>
              LET m == Latest({"text"})
              IN turn[m].length > 0 /\ (wire = "v1" \/ turn[m].status # "in_progress")
                   => returned'.content = Whole(m, turn[m].length)
         /\ returned'.done
              \/ /\ MessagesOf(Kind \ {"note"}) # {}
                 /\ LET m == Latest(Kind \ {"note"})
                    IN /\ turn[m].kind \in {"text", "response"}
                       /\ turn[m].status = "finished_successfully"]_callVars
=============================================================================
