------------------------- MODULE LightResearchProofs -------------------------
(***************************************************************************)
(* What LightResearch promises of one call of deep_research, for any       *)
(* number of rounds and rounds of any length: the parser keeps step with   *)
(* what upstream writes, and a plain report is a finished answer.          *)
(***************************************************************************)
EXTENDS LightResearch, TLAPS

USE BoundsAssumption

-----------------------------------------------------------------------------
(* The invariant                                                           *)

\* Patches fall on the newest message: it is the one they are anchored to, what
\* came of it before its envelope waits in the prefix, and on the v1 wire the
\* text they go on with is its text.
Anchored(t, r) ==
    /\ wire.format = "classic" => r.path = "none"
    /\ t = <<>> => r.cur = "none" /\ r.text = <<>> /\ r.prefix = <<>> /\ r.done = <<>>
    /\ t # <<>> =>
         LET n == Len(t)
             m == t[n]
         IN /\ m.shown => r.seen /\ r.cur = m.kind /\ r.prefix = <<>>
            /\ ~m.shown =>
                 /\ m.kind = "answer" /\ ~r.seen /\ r.cur \in {"none", "answer"}
                 /\ r.prefix = IF wire.format = "v1" THEN Text(n, m.length) ELSE <<>>
            /\ wire.format = "v1" /\ m.kind = "answer" => r.text = Text(n, m.length)

\* What the parser holds after it has read text.
Reads(r, text, finished) ==
    /\ r.last = text
    /\ r.completed <=> finished
    /\ r.done = IF finished THEN text ELSE <<>>

\* ReaderInStep, of a turn and a reader; and of the messages that count there is
\* a latest one.
Counts(t, m) == m \in DOMAIN t /\ t[m].kind # "thought"

LatestOf(t, m) == Counts(t, m) /\ \A i \in DOMAIN t : Counts(t, i) => i <= m

ReadsMessage(r, m, msg) ==
    Reads(r, IF msg.kind = "answer" THEN Text(m, msg.length) ELSE <<>>,
             msg.kind = "answer" /\ msg.status = "finished_successfully")

InStep(t, r) ==
    /\ (\A m \in DOMAIN t : ~Counts(t, m)) => r.last = <<>> /\ ~r.completed
    /\ \A m \in DOMAIN t : LatestOf(t, m) => ReadsMessage(r, m, t[m])

HasLatest(t) ==
    (\E m \in DOMAIN t : Counts(t, m)) => \E m \in DOMAIN t : LatestOf(t, m)

Kept(t, r) ==
    t \in Seq(Message) /\ r \in Reader /\ Anchored(t, r) /\ InStep(t, r) /\ HasLatest(t)

\* In the first round the handler has heard nothing yet.
FirstIsUnheard == stage \in {"setup", "streaming"} /\ round = 0 => heard.clean = NoEvent

LightInv ==
    /\ TypeOK
    /\ Live => Kept(turn, reader)
    /\ FirstIsUnheard

-----------------------------------------------------------------------------
(* Texts                                                                   *)

LEMMA TextType ==
    ASSUME TypeOK, NEW m \in Nat, NEW n \in Nat
    PROVE  /\ Text(m, n) \in Texts
           /\ Len(Text(m, n)) = n
           /\ Text(m, n) = <<>> <=> n = 0
           /\ \A k \in 1 .. n : Text(m, n)[k] = <<round, m, k>>
<1>1. round \in Nat
  BY DEF TypeOK
<1> QED
  BY <1>1 DEF Text, Texts

LEMMA PrefixAt ==
    ASSUME NEW S, NEW a \in Seq(S), NEW b \in Seq(S)
    PROVE  IsPrefix(a, b) <=> Len(a) <= Len(b) /\ \A k \in 1 .. Len(a) : a[k] = b[k]
<1>1. CASE Len(a) <= Len(b)
  <2> DEFINE c == SubSeq(a, 1, Len(a))
             d == SubSeq(b, 1, Len(a))
  <2>1. /\ c \in Seq(S) /\ Len(c) = Len(a) /\ \A k \in 1 .. Len(a) : c[k] = a[k]
        /\ d \in Seq(S) /\ Len(d) = Len(a) /\ \A k \in 1 .. Len(a) : d[k] = b[k]
    BY <1>1
  <2>2. IsPrefix(a, b) <=> c = d
    BY <1>1 DEF IsPrefix
  <2> HIDE DEF c, d
  <2> QED
    BY <1>1, <2>1, <2>2
<1>2. CASE ~(Len(a) <= Len(b))
  BY <1>2 DEF IsPrefix
<1> QED
  BY <1>1, <1>2

LEMMA SuffixAt ==
    ASSUME NEW S, NEW a \in Seq(S), NEW b \in Seq(S), a # <<>>, IsSuffix(a, b)
    PROVE  a[Len(a)] = b[Len(b)]
<1> DEFINE c == Reverse(a)
           d == Reverse(b)
<1>1. c \in Seq(S) /\ Len(c) = Len(a) /\ c[1] = a[Len(a)]
  BY DEF Reverse
<1>2. d \in Seq(S) /\ Len(d) = Len(b) /\ (b # <<>> => d[1] = b[Len(b)])
  BY DEF Reverse
<1>3. IsPrefix(c, d)
  BY DEF IsSuffix
<1> HIDE DEF c, d
<1>4. Len(c) <= Len(d) /\ c[1] = d[1]
  BY <1>1, <1>2, <1>3, PrefixAt
<1> QED
  BY <1>1, <1>2, <1>4

LEMMA TextGrows ==
    ASSUME TypeOK, NEW m \in Nat, NEW n \in Nat
    PROVE  /\ Append(Text(m, n), <<round, m, n + 1>>) = Text(m, n + 1)
           /\ <<round, m, n + 1>> \in Nat \X Nat \X Nat
<1> DEFINE s == Text(m, n)
           p == <<round, m, n + 1>>
           u == Text(m, n + 1)
<1>1. p \in Nat \X Nat \X Nat
  BY DEF TypeOK
<1>2. s \in Seq(Nat \X Nat \X Nat) /\ Len(s) = n /\ \A k \in 1 .. n : s[k] = <<round, m, k>>
  BY TextType DEF Texts
<1>0. n + 1 \in Nat
  OBVIOUS
<1>3. u \in Seq(Nat \X Nat \X Nat) /\ Len(u) = n + 1
      /\ \A k \in 1 .. n + 1 : u[k] = <<round, m, k>>
  BY <1>0, TextType DEF Texts
<1>4. u[n + 1] = p /\ \A k \in 1 .. n : u[k] = s[k]
  <2>1. n + 1 \in 1 .. n + 1 /\ \A k \in 1 .. n : k \in 1 .. n + 1
    OBVIOUS
  <2> HIDE DEF s, u
  <2> QED
    BY <1>2, <1>3, <2>1
<1> HIDE DEF s, p, u
<1>5. Append(s, p) \in Seq(Nat \X Nat \X Nat) /\ Len(Append(s, p)) = n + 1
  BY <1>1, <1>2
<1>6. \A k \in 1 .. n + 1 : Append(s, p)[k] = u[k]
  BY <1>1, <1>2, <1>4
<1>7. Append(s, p) = u
  BY <1>3, <1>5, <1>6
<1> QED
  BY <1>1, <1>7 DEF s, p, u

Joined(prefix, part) == IF prefix = <<>> THEN part ELSE Merged(prefix, part)

\* What a late envelope brings: the text so far, its latest piece, nothing, or the
\* next piece.
LatePart(m, l, n, part) ==
    \E from \in Nat \ {0} :
        /\ from \in {1, n, n + 1}
        /\ n > l => from = n
        /\ part = SubSeq(Text(m, n), from, n)

\* Joined with what came before it, it is the whole text.
LEMMA LatePartJoins ==
    ASSUME TypeOK, NEW m \in Nat, NEW l \in Nat, NEW n \in Nat, n \in {l, l + 1},
           NEW part, LatePart(m, l, n, part)
    PROVE  part \in Texts /\ Joined(Text(m, l), part) = Text(m, n)
<1> PICK from \in Nat \ {0} :
      /\ from \in {1, n, n + 1}
      /\ (n > l => from = n)
      /\ part = SubSeq(Text(m, n), from, n)
  BY DEF LatePart
<1> DEFINE P == Nat \X Nat \X Nat
           s == Text(m, l)
           u == Text(m, n)
           w == SubSeq(u, from, n)
<1> SUFFICES w \in Texts /\ (IF s = <<>> THEN w ELSE Merged(s, w)) = u
  BY DEF Joined
<1>0. n \in Nat /\ from \in Nat \ {0} /\ from <= n + 1
  OBVIOUS
<1>1. s \in Seq(P) /\ Len(s) = l /\ (s = <<>> <=> l = 0)
      /\ \A k \in 1 .. l : s[k] = <<round, m, k>>
  BY TextType DEF Texts
<1>2. u \in Seq(P) /\ Len(u) = n /\ \A k \in 1 .. n : u[k] = <<round, m, k>>
  BY <1>0, TextType DEF Texts
<1>3. \A k \in 1 .. l : s[k] = u[k]
  <2>1. \A k \in 1 .. l : k \in 1 .. n
    BY <1>0
  <2> HIDE DEF s, u, P
  <2> QED
    BY <1>1, <1>2, <2>1
<1>4. l >= 1 /\ n = l + 1 => s[l] # u[n]
  <2>1. l # n => <<round, m, l>> # <<round, m, n>>
    OBVIOUS
  <2>2. l >= 1 /\ n = l + 1 => s[l] = <<round, m, l>> /\ u[n] = <<round, m, n>>
    BY <1>0, <1>1, <1>2
  <2> QED
    BY <2>1, <2>2
<1>e. Texts = Seq(P) /\ (n = l => s = u)
  BY DEF Texts
<1> HIDE DEF s, u, P
<1>5. w \in Seq(P) /\ Len(w) = n + 1 - from
      /\ \A k \in 1 .. n + 1 - from : w[k] = u[from + k - 1]
  BY <1>0, <1>2
<1>6. from = 1 => w = u
  BY <1>0, <1>2, <1>5
<1> HIDE DEF w
<1>7. CASE l = 0
  BY <1>0, <1>1, <1>5, <1>6, <1>7, <1>e
<1>8. CASE l >= 1 /\ from = 1 /\ n = l
  <2>1. IsPrefix(s, w)
    BY <1>1, <1>2, <1>3, <1>5, <1>6, <1>8 DEF IsPrefix
  <2>2. Merged(s, w) = w
    BY <2>1 DEF Merged
  <2> QED
    BY <1>1, <1>5, <1>6, <1>8, <1>e, <2>2
<1>9. CASE l > 1 /\ n = l /\ from \in {l, l + 1}
  <2>1. ~IsPrefix(s, w)
    BY <1>1, <1>5, <1>9 DEF IsPrefix
  <2>2. IsSuffix(w, s)
    BY <1>1, <1>2, <1>3, <1>5, <1>9 DEF IsSuffix, IsPrefix, Reverse
  <2>3. Merged(s, w) = s
    BY <2>1, <2>2 DEF Merged
  <2> QED
    BY <1>1, <1>5, <1>9, <1>e, <2>3
<1>10. CASE l = 1 /\ n = l /\ from = l + 1
  <2>1. ~IsPrefix(s, w)
    BY <1>1, <1>5, <1>10 DEF IsPrefix
  <2>2. IsSuffix(w, s)
    BY <1>1, <1>5, <1>10 DEF IsSuffix, IsPrefix, Reverse
  <2>3. Merged(s, w) = s
    BY <2>1, <2>2 DEF Merged
  <2> QED
    BY <1>1, <1>5, <1>10, <1>e, <2>3
<1>11. CASE l >= 1 /\ n = l + 1
  <2>1. from = n /\ Len(w) = 1 /\ w[1] = u[n]
    BY <1>5, <1>11
  <2>2. ~IsPrefix(s, w)
    BY <1>1, <1>3, <1>4, <1>5, <1>11, <2>1 DEF IsPrefix
  <2>3. ~IsSuffix(w, s)
    BY <1>1, <1>3, <1>4, <1>5, <1>11, <2>1, SuffixAt
  <2> DEFINE v == s \o w
  <2>4. v \in Seq(P) /\ Len(v) = n /\ \A k \in 1 .. n : v[k] = IF k <= l THEN s[k] ELSE w[k - l]
    BY <1>1, <1>5, <1>11, <2>1
  <2> HIDE DEF v
  <2>6. ASSUME NEW k \in 1 .. n PROVE v[k] = u[k]
    <3>1. CASE k <= l
      <4>1. k \in 1 .. l /\ v[k] = s[k]
        BY <2>4, <3>1
      <4> QED
        BY <1>3, <4>1
    <3>2. CASE k = n
      <4>1. k - l = 1 /\ ~(k <= l)
        BY <1>11, <3>2
      <4>2. v[k] = w[1]
        BY <2>4, <4>1
      <4> QED
        BY <2>1, <3>2, <4>2
    <3> QED
      BY <1>11, <3>1, <3>2
  <2>7. v \in Seq(P) /\ u \in Seq(P) /\ Len(v) = Len(u) /\ \A k \in 1 .. Len(u) : v[k] = u[k]
    BY <1>2, <2>4, <2>6
  <2>8. v = u
    BY <2>7
  <2>5. Merged(s, w) = u
    BY <2>2, <2>3, <2>8 DEF Merged, v
  <2> QED
    BY <1>1, <1>5, <1>11, <1>e, <2>5
<1> QED
  BY <1>0, <1>7, <1>8, <1>9, <1>10, <1>11

-----------------------------------------------------------------------------
(* What a frame makes of the reader                                        *)

LEMMA EnvelopeReads ==
    ASSUME TypeOK, NEW kind \in Kind, NEW whole \in Texts, NEW text \in Texts, NEW status,
           Envelope(kind, whole, status),
           text = Joined(reader.prefix, whole)
    PROVE  /\ reader' \in Reader
           /\ reader'.path = "none" /\ reader'.seen /\ reader'.cur = kind
           /\ kind = "answer" => /\ reader'.prefix = <<>> /\ reader'.text = text
                                 /\ Reads(reader', text, status = "finished_successfully")
           /\ kind # "answer" => reader'.prefix = reader.prefix
           /\ kind \in {"tool", "dispatch"} => Reads(reader', <<>>, FALSE)
           /\ kind = "thought" => /\ reader'.last = reader.last /\ reader'.done = reader.done
                                  /\ reader'.completed = reader.completed
<1>1. reader \in Reader /\ <<>> \in Texts
  BY DEF TypeOK, Texts
<1>2. CASE kind \in {"tool", "dispatch"}
  <2>1. reader' = ToolEnvelope([reader EXCEPT !.path = "none", !.seen = TRUE], kind)
    BY <1>2 DEF Envelope
  <2> QED
    BY <1>1, <1>2, <2>1 DEF ToolEnvelope, Invalidated, Reads, Reader, Kind
<1>3. CASE kind = "thought"
  <2>1. reader' = [reader EXCEPT !.path = "none", !.seen = TRUE, !.cur = kind, !.text = <<>>]
    BY <1>1, <1>3 DEF Envelope, Reader
  <2> QED
    BY <1>1, <1>3, <2>1 DEF Reader, Kind
<1>4. CASE kind = "answer"
  <2> DEFINE read == [reader EXCEPT !.path = "none", !.seen = TRUE, !.cur = kind,
                                    !.text = text, !.prefix = <<>>]
  <2>1. reader' = TextUpdate(read, text, status)
    BY <1>1, <1>4 DEF Envelope, Joined, Reader
  <2>2. /\ read \in Reader
        /\ read.path = "none" /\ read.seen /\ read.cur = kind /\ read.text = text
        /\ read.prefix = <<>>
    BY <1>1, <1>4 DEF Reader, Kind
  <2> HIDE DEF read
  <2> QED
    BY <1>1, <1>4, <2>1, <2>2 DEF TextUpdate, Invalidated, Reads, Reader, Kind
<1> QED
  BY <1>2, <1>3, <1>4 DEF Kind

LEMMA PatchReads ==
    ASSUME TypeOK, Anchor = "answer", NEW text \in Texts, NEW piece \in Nat \X Nat \X Nat,
           NEW status,
           \/ ReplaceOp(text, status)
           \/ AppendOp(piece) /\ text = Append(reader.text, piece)
    PROVE  /\ reader' \in Reader
           /\ reader'.path = "text" /\ reader'.cur = "answer" /\ reader'.text = text
           /\ reader'.seen = reader.seen
           /\ reader'.prefix = IF reader.seen THEN reader.prefix ELSE text
           /\ ReplaceOp(text, status) =>
                Reads(reader', text, status = "finished_successfully")
           /\ AppendOp(piece) => Reads(reader', Append(reader.last, piece), FALSE)
<1> DEFINE read == TextPatched(text)
<1>1. reader \in Reader /\ <<>> \in Texts /\ Append(reader.last, piece) \in Texts
  BY DEF TypeOK, Texts, Reader
<1>2. /\ read \in Reader
      /\ read.path = "text" /\ read.cur = "answer" /\ read.text = text
      /\ read.seen = reader.seen /\ read.last = reader.last
      /\ read.prefix = IF reader.seen THEN reader.prefix ELSE text
  BY <1>1 DEF TextPatched, Reader, Kind
<1>3. AppendOp(piece) => reader' = AppendDelta(TextPatched(Append(reader.text, piece)), piece)
  BY DEF AppendOp
<1>4. ReplaceOp(text, status) => reader' = TextUpdate(read, text, status)
  BY DEF ReplaceOp
<1> HIDE DEF read
<1>5. ASSUME ReplaceOp(text, status)
      PROVE  /\ reader' \in Reader
             /\ reader'.path = "text" /\ reader'.cur = "answer" /\ reader'.text = text
             /\ reader'.seen = reader.seen
             /\ reader'.prefix = IF reader.seen THEN reader.prefix ELSE text
             /\ Reads(reader', text, status = "finished_successfully")
  BY <1>1, <1>2, <1>4, <1>5 DEF TextUpdate, Invalidated, Reads, Reader
<1>6. ASSUME AppendOp(piece)
      PROVE  /\ reader' \in Reader
             /\ reader'.path = "text" /\ reader'.cur = "answer"
             /\ reader'.text = Append(reader.text, piece)
             /\ reader'.seen = reader.seen
             /\ reader'.prefix = IF reader.seen THEN reader.prefix
                                                ELSE Append(reader.text, piece)
             /\ Reads(reader', Append(reader.last, piece), FALSE)
  <2> DEFINE grown == Append(reader.text, piece)
             fresh == TextPatched(grown)
  <2>1. grown \in Texts
    BY <1>1 DEF Texts, Reader
  <2> HIDE DEF grown
  <2>2. /\ fresh \in Reader
        /\ fresh.path = "text" /\ fresh.cur = "answer" /\ fresh.text = grown
        /\ fresh.seen = reader.seen /\ fresh.last = reader.last
        /\ fresh.prefix = IF reader.seen THEN reader.prefix ELSE grown
    BY <1>1, <2>1 DEF TextPatched, Reader, Kind
  <2>3. reader' = AppendDelta(fresh, piece)
    BY <1>3, <1>6 DEF grown
  <2> HIDE DEF fresh
  <2>4. /\ reader' \in Reader
        /\ reader'.path = "text" /\ reader'.cur = "answer" /\ reader'.text = grown
        /\ reader'.seen = reader.seen
        /\ reader'.prefix = IF reader.seen THEN reader.prefix ELSE grown
        /\ Reads(reader', Append(reader.last, piece), FALSE)
    BY <1>1, <2>1, <2>2, <2>3 DEF AppendDelta, Invalidated, Reads, Reader
  <2> QED
    BY <2>4 DEF grown
<1> QED
  BY <1>5, <1>6

LEMMA StatusReads ==
    ASSUME TypeOK, NEW status, StatusOp(status)
    PROVE  /\ reader' \in Reader
           /\ reader'.path = "other" /\ reader'.cur = Anchor
           /\ reader'.text = reader.text /\ reader'.prefix = reader.prefix
           /\ reader'.seen = reader.seen
           /\ Anchor = "answer" =>
                Reads(reader', reader.text, status = "finished_successfully")
           /\ Anchor # "answer" =>
                /\ reader'.last = reader.last /\ reader'.done = reader.done
                /\ reader'.completed = reader.completed
<1> DEFINE read == [reader EXCEPT !.path = "other", !.cur = Anchor]
<1>1. reader \in Reader /\ <<>> \in Texts /\ Anchor \in Kind \cup {"none"}
  BY DEF TypeOK, Texts, Anchor, Reader, Kind
<1>2. /\ read \in Reader
      /\ read.path = "other" /\ read.cur = Anchor /\ read.text = reader.text
      /\ read.prefix = reader.prefix /\ read.seen = reader.seen
      /\ read.last = reader.last /\ read.done = reader.done
      /\ read.completed = reader.completed
  BY <1>1 DEF Reader
<1>3. reader' = IF Anchor = "answer" THEN TextUpdate(read, reader.text, status) ELSE read
  BY DEF StatusOp
<1> HIDE DEF read
<1>4. reader.text \in Texts
  BY <1>1 DEF Reader
<1> QED
  BY <1>1, <1>2, <1>3, <1>4 DEF TextUpdate, Invalidated, Reads, Reader

\* A bare delta of the classic wire.
LEMMA DeltaReads ==
    ASSUME TypeOK, NEW piece \in Nat \X Nat \X Nat, reader.path = "none", BareDelta(piece),
           ~reader.seen \/ reader.cur = "answer"
    PROVE  /\ reader' \in Reader
           /\ reader'.path = "none" /\ reader'.cur = reader.cur
           /\ reader'.text = reader.text /\ reader'.prefix = reader.prefix
           /\ reader'.seen = reader.seen
           /\ Reads(reader', Append(reader.last, piece), FALSE)
<1>1. reader \in Reader /\ <<>> \in Texts /\ Append(reader.last, piece) \in Texts
  BY DEF TypeOK, Texts, Reader
<1>2. reader' = AppendDelta(reader, piece)
  BY DEF BareDelta
<1> QED
  BY <1>1, <1>2 DEF AppendDelta, Invalidated, Reads, Reader

-----------------------------------------------------------------------------
(* What a message makes of the turn                                        *)

\* The newest message is the latest that counts, unless it is a thought.
LEMMA NewestRead ==
    ASSUME NEW t \in Seq(Message), t # <<>>, NEW r, t[Len(t)].kind # "thought",
           ReadsMessage(r, Len(t), t[Len(t)])
    PROVE  InStep(t, r) /\ HasLatest(t)
<1>1. Len(t) \in DOMAIN t /\ LatestOf(t, Len(t)) /\ \A i \in DOMAIN t : i \in Nat /\ i <= Len(t)
  BY DEF LatestOf, Counts
<1>2. \A m \in DOMAIN t : LatestOf(t, m) => m = Len(t)
  BY <1>1 DEF LatestOf
<1>3. HasLatest(t)
  BY <1>1 DEF HasLatest
<1>4. ~(\A m \in DOMAIN t : ~Counts(t, m))
  BY <1>1 DEF LatestOf
<1> QED
  BY <1>1, <1>2, <1>3, <1>4 DEF InStep

\* A thought, new or newest, leaves the latest message what it is, and so may any
\* frame that leaves the text alone.
LEMMA ThoughtRead ==
    ASSUME NEW t \in Seq(Message), NEW u \in Seq(Message), NEW r, NEW q,
           InStep(t, r), HasLatest(t),
           q.last = r.last, q.done = r.done, q.completed = r.completed,
           \/ u = t
           \/ \E msg \in Message : msg.kind = "thought" /\ u = Append(t, msg)
           \/ /\ t # <<>> /\ t[Len(t)].kind = "thought"
              /\ \E msg \in Message : msg.kind = "thought" /\ u = [t EXCEPT ![Len(t)] = msg]
    PROVE  InStep(u, q) /\ HasLatest(u)
<1>1. \A m \in DOMAIN t : m \in DOMAIN u /\ (t[m] = u[m] \/ (~Counts(t, m) /\ ~Counts(u, m)))
  BY DEF Counts
<1>2. \A m \in DOMAIN u : Counts(u, m) => m \in DOMAIN t /\ Counts(t, m) /\ u[m] = t[m]
  BY DEF Counts
<1>3. \A m \in DOMAIN t : Counts(t, m) => Counts(u, m) /\ u[m] = t[m]
  BY <1>1 DEF Counts
<1>4. \A m : LatestOf(u, m) <=> LatestOf(t, m)
  BY <1>2, <1>3 DEF LatestOf, Counts
<1>5. HasLatest(u)
  BY <1>2, <1>3, <1>4 DEF HasLatest, LatestOf, Counts
<1>6. \A m \in DOMAIN u : LatestOf(u, m) => ReadsMessage(q, m, u[m])
  <2> SUFFICES ASSUME NEW m \in DOMAIN u, LatestOf(u, m) PROVE ReadsMessage(q, m, u[m])
    OBVIOUS
  <2>1. LatestOf(t, m) /\ m \in DOMAIN t /\ u[m] = t[m]
    BY <1>2, <1>4 DEF LatestOf
  <2>2. ReadsMessage(r, m, t[m])
    BY <2>1 DEF InStep
  <2> QED
    BY <2>1, <2>2 DEF ReadsMessage, Reads
<1>7. (\A m \in DOMAIN u : ~Counts(u, m)) => q.last = <<>> /\ ~q.completed
  BY <1>3, <1>1 DEF InStep
<1> QED
  BY <1>5, <1>6, <1>7 DEF InStep

\* The newest message, changed.
LEMMA NewestChanged ==
    ASSUME NEW t \in Seq(Message), t # <<>>, NEW msg \in Message
    PROVE  LET u == [t EXCEPT ![Len(t)] = msg]
           IN u \in Seq(Message) /\ u # <<>> /\ Len(u) = Len(t) /\ u[Len(t)] = msg
  OBVIOUS

LEMMA NewestAdded ==
    ASSUME NEW t \in Seq(Message), NEW msg \in Message
    PROVE  LET u == Append(t, msg)
           IN u \in Seq(Message) /\ u # <<>> /\ Len(u) = Len(t) + 1 /\ u[Len(t) + 1] = msg
  OBVIOUS

LEMMA MessageChanged ==
    ASSUME NEW m \in Message, NEW n \in Nat, NEW status \in {"finished_successfully", "cut"},
           NEW msg,
           \/ msg = [m EXCEPT !.shown = TRUE, !.length = n]
           \/ msg = [m EXCEPT !.length = n, !.shown = TRUE]
           \/ msg = [m EXCEPT !.length = n]
           \/ msg = [m EXCEPT !.status = status, !.shown = TRUE]
           \/ msg = [m EXCEPT !.status = status]
    PROVE  msg \in Message /\ msg.kind = m.kind
  BY DEF Message

-----------------------------------------------------------------------------
(* The invariant is kept while a round streams                             *)

LEMMA StreamKeeps ==
    ASSUME LightInv, Live, Streams, Kept(turn', reader'),
           thread' \in [known : BOOLEAN, parent : BOOLEAN]
    PROVE  LightInv'
<1>1. UNCHANGED <<wire, stage, round, heard, result>>
  BY DEF Streams
<1>2. \A m, n : Text(m, n)' = Text(m, n)
  BY <1>1 DEF Text
<1>3. Kept(turn, reader)'
  BY <1>1, <1>2 DEF Kept, Anchored, InStep, HasLatest, LatestOf, Counts, ReadsMessage, Reads
<1>4. TypeOK'
  BY <1>1 DEF LightInv, TypeOK, Kept
<1> QED
  BY <1>1, <1>3, <1>4 DEF LightInv, FirstIsUnheard, Live

LEMMA ThreadType ==
    ASSUME TypeOK, NEW assistant \in BOOLEAN, Identified(assistant)
    PROVE  thread' \in [known : BOOLEAN, parent : BOOLEAN]
<1>1. PICK known \in {thread.known, TRUE} :
        thread' = [known |-> known, parent |-> thread.parent \/ assistant]
  BY DEF Identified
<1>2. known \in BOOLEAN /\ (thread.parent \/ assistant) \in BOOLEAN
  BY DEF TypeOK
<1> QED
  BY <1>1, <1>2

\* The newest message is an answer, shown or not, and this is how the reader has it.
LEMMA AnswerKept ==
    ASSUME TypeOK, NEW t \in Seq(Message), t # <<>>, NEW r \in Reader,
           t[Len(t)].kind = "answer",
           Reads(r, Text(Len(t), t[Len(t)].length),
                    t[Len(t)].status = "finished_successfully"),
           wire.format = "classic" => r.path = "none",
           wire.format = "v1" => r.text = Text(Len(t), t[Len(t)].length),
           t[Len(t)].shown => r.seen /\ r.cur = "answer" /\ r.prefix = <<>>,
           ~t[Len(t)].shown =>
             /\ ~r.seen /\ r.cur \in {"none", "answer"}
             /\ r.prefix = IF wire.format = "v1" THEN Text(Len(t), t[Len(t)].length)
                                                 ELSE <<>>
    PROVE  Kept(t, r)
<1>1. ReadsMessage(r, Len(t), t[Len(t)])
  BY DEF ReadsMessage, Reads
<1>2. InStep(t, r) /\ HasLatest(t)
  BY <1>1, NewestRead
<1>3. Anchored(t, r)
  BY DEF Anchored
<1> QED
  BY <1>2, <1>3 DEF Kept

\* The newest message is another one, shown.
LEMMA OtherKept ==
    ASSUME TypeOK, NEW t \in Seq(Message), t # <<>>, NEW r \in Reader,
           t[Len(t)].kind # "answer", t[Len(t)].shown, InStep(t, r), HasLatest(t),
           wire.format = "classic" => r.path = "none",
           r.seen, r.cur = t[Len(t)].kind, r.prefix = <<>>
    PROVE  Kept(t, r)
  BY DEF Kept, Anchored

LEMMA ToolInStep ==
    ASSUME NEW t \in Seq(Message), t # <<>>, NEW r,
           t[Len(t)].kind \in {"tool", "dispatch"}, Reads(r, <<>>, FALSE)
    PROVE  InStep(t, r) /\ HasLatest(t)
<1>1. ReadsMessage(r, Len(t), t[Len(t)])
  BY DEF ReadsMessage, Reads
<1> QED
  BY <1>1, NewestRead

LEMMA NewMessageKeeps ==
    ASSUME LightInv, NEW kind \in Kind, NEW question \in BOOLEAN,
           NewMessage(kind, question)
    PROVE  LightInv'
<1>1. TypeOK /\ Live /\ Kept(turn, reader) /\ Streams /\ Shown
  BY DEF LightInv, NewMessage
<1>2. PICK n \in 0 .. (IF kind = "answer" THEN 1 ELSE 0), shown \in BOOLEAN :
        /\ turn' = Append(turn, [kind |-> kind, length |-> n, question |-> question,
                                 shown |-> shown, status |-> "in_progress"])
        /\ \/ /\ shown
              /\ Envelope(kind, Text(Newest + 1, n), "in_progress")
              /\ Identified(kind # "tool")
           \/ /\ ~shown /\ n = 0 /\ kind = "answer" /\ ~reader.seen
              /\ UNCHANGED <<reader, thread>>
  BY DEF NewMessage
<1> DEFINE msg == [kind |-> kind, length |-> n, question |-> question,
                   shown |-> shown, status |-> "in_progress"]
           new == Newest + 1
<1>3. turn \in Seq(Message) /\ Newest \in Nat /\ n \in Nat /\ new \in Nat /\ new = Len(turn) + 1
  BY <1>1 DEF Kept, Newest
<1>4. /\ msg \in Message /\ msg.kind = kind /\ msg.length = n /\ msg.shown = shown
      /\ msg.status = "in_progress"
  BY <1>3 DEF Message
<1>5. turn' = Append(turn, msg)
  BY <1>2
<1> HIDE DEF msg
<1>6. turn' \in Seq(Message) /\ turn' # <<>> /\ Len(turn') = new /\ turn'[new] = msg
  BY <1>3, <1>4, <1>5, NewestAdded
<1>7. Text(new, n) \in Texts
  BY <1>1, <1>3, TextType
<1>8. reader.prefix = <<>> /\ (wire.format = "classic" => reader.path = "none")
  BY <1>1 DEF Kept, Anchored, Shown, Last
<1> HIDE DEF new
<1>9. CASE shown /\ Envelope(kind, Text(new, n), "in_progress") /\ Identified(kind # "tool")
  <2>1. thread' \in [known : BOOLEAN, parent : BOOLEAN]
    BY <1>1, <1>9, ThreadType
  <2>2. /\ reader' \in Reader
        /\ reader'.path = "none" /\ reader'.seen /\ reader'.cur = kind
        /\ reader'.prefix = <<>>
        /\ kind = "answer" => /\ reader'.text = Text(new, n)
                              /\ Reads(reader', Text(new, n), FALSE)
        /\ kind \in {"tool", "dispatch"} => Reads(reader', <<>>, FALSE)
        /\ kind = "thought" => /\ reader'.last = reader.last /\ reader'.done = reader.done
                               /\ reader'.completed = reader.completed
    BY <1>1, <1>7, <1>8, <1>9, EnvelopeReads DEF Joined, Reads
  <2>3. CASE kind = "answer"
    <3>1. Kept(turn', reader')
      BY <1>1, <1>4, <1>6, <1>9, <2>2, <2>3, AnswerKept DEF Reads
    <3> QED
      BY <1>1, <2>1, <3>1, StreamKeeps
  <2>4. CASE kind # "answer"
    <3>1. InStep(turn', reader') /\ HasLatest(turn')
      <4>1. CASE kind \in {"tool", "dispatch"}
        BY <1>4, <1>6, <2>2, <4>1, ToolInStep DEF Reads
      <4>2. CASE kind = "thought"
        BY <1>1, <1>4, <1>5, <1>6, <2>2, <4>2, ThoughtRead DEF Kept
      <4> QED
        BY <2>4, <4>1, <4>2 DEF Kind
    <3>2. Kept(turn', reader')
      BY <1>1, <1>4, <1>6, <1>9, <2>2, <2>4, <3>1, OtherKept
    <3> QED
      BY <1>1, <2>1, <3>2, StreamKeeps
  <2> QED
    BY <2>3, <2>4
<1>10. CASE ~shown /\ n = 0 /\ kind = "answer" /\ ~reader.seen /\ UNCHANGED <<reader, thread>>
  <2>1. turn = <<>>
    BY <1>1, <1>10 DEF Kept, Anchored, Shown, Last
  <2>2. /\ reader.cur = "none" /\ reader.text = <<>> /\ reader.prefix = <<>>
        /\ reader.done = <<>> /\ reader.last = <<>> /\ ~reader.completed
    BY <1>1, <2>1 DEF Kept, Anchored, InStep
  <2>3. Text(new, 0) = <<>>
    BY <1>1, <1>3, TextType
  <2>4. Reads(reader', Text(new, n), FALSE)
    BY <1>10, <2>2, <2>3 DEF Reads
  <2>5. Kept(turn', reader')
    BY <1>1, <1>4, <1>6, <1>8, <1>10, <2>2, <2>3, <2>4, AnswerKept DEF Reads, Kept
  <2> QED
    BY <1>1, <1>10, <2>5, StreamKeeps DEF TypeOK
<1> QED
  BY <1>2, <1>9, <1>10 DEF new

LEMMA LateEnvelopeKeeps ==
    ASSUME LightInv, LateEnvelope PROVE LightInv'
<1>1. /\ TypeOK /\ Live /\ Kept(turn, reader) /\ Streams /\ Open
      /\ ~Last(turn).shown /\ wire.format = "v1" /\ Identified(TRUE)
  BY DEF LightInv, LateEnvelope
<1> DEFINE m == turn[Len(turn)]
           l == m.length
<1>a. /\ turn \in Seq(Message) /\ turn # <<>> /\ Len(turn) \in Nat \ {0} /\ m \in Message
      /\ m.status = "in_progress" /\ ~m.shown
  BY <1>1 DEF Kept, Open, Last
<1>2. /\ turn \in Seq(Message) /\ turn # <<>> /\ Len(turn) \in Nat \ {0} /\ m \in Message
      /\ l \in Nat /\ m.status = "in_progress" /\ ~m.shown
  BY <1>a DEF Message
<1>3. PICK n \in {l, l + 1} :
        /\ turn' = [turn EXCEPT ![Newest].shown = TRUE, ![Newest].length = n]
        /\ \E from \in {1, n, n + 1} \ {0} :
             /\ n > l => from = n
             /\ Envelope("answer", SubSeq(Text(Newest, n), from, n), "in_progress")
  BY DEF LateEnvelope, Last
<1>4. PICK from \in {1, n, n + 1} \ {0} :
        /\ n > l => from = n
        /\ Envelope("answer", SubSeq(Text(Len(turn), n), from, n), "in_progress")
  BY <1>3 DEF Newest
<1>8. m.kind = "answer" /\ ~reader.seen /\ reader.prefix = Text(Len(turn), l)
  BY <1>1, <1>2 DEF Kept, Anchored
<1>n. n \in Nat
  BY <1>2
<1> DEFINE msg == [m EXCEPT !.shown = TRUE, !.length = n]
           part == SubSeq(Text(Len(turn), n), from, n)
<1>6. turn' = [turn EXCEPT ![Len(turn)] = msg]
  BY <1>2, <1>3 DEF Newest
<1> HIDE DEF m, l
<1>5. /\ msg \in Message /\ msg.kind = m.kind /\ msg.length = n /\ msg.shown
      /\ msg.status = "in_progress"
  BY <1>2, <1>n DEF Message
<1> HIDE DEF msg
<1>7. turn' \in Seq(Message) /\ turn' # <<>> /\ Len(turn') = Len(turn) /\ turn'[Len(turn)] = msg
  BY <1>2, <1>5, <1>6, NewestChanged
<1>9. /\ part \in Texts
      /\ Joined(reader.prefix, part) = Text(Len(turn), n)
  <2>1. LatePart(Len(turn), l, n, part)
    BY <1>4, <1>n DEF LatePart
  <2>2. Len(turn) \in Nat /\ l \in Nat /\ n \in {l, l + 1}
    BY <1>2
  <2> HIDE DEF part
  <2>3. part \in Texts /\ Joined(Text(Len(turn), l), part) = Text(Len(turn), n)
    BY <1>1, <1>n, <2>1, <2>2, LatePartJoins
  <2> QED
    BY <1>8, <2>3
<1> HIDE DEF part
<1>10. Text(Len(turn), n) \in Texts
  BY <1>1, <1>2, <1>n, TextType
<1>11. /\ reader' \in Reader
       /\ reader'.path = "none" /\ reader'.seen /\ reader'.cur = "answer"
       /\ reader'.prefix = <<>> /\ reader'.text = Text(Len(turn), n)
       /\ Reads(reader', Text(Len(turn), n), FALSE)
  <2>1. Envelope("answer", part, "in_progress")
    BY <1>4 DEF part
  <2>2. "answer" \in Kind
    BY DEF Kind
  <2> QED
    BY <1>1, <1>9, <1>10, <2>1, <2>2, EnvelopeReads DEF Reads
<1>12. Kept(turn', reader')
  BY <1>1, <1>5, <1>7, <1>8, <1>11, AnswerKept DEF Reads
<1> QED
  BY <1>1, <1>12, StreamKeeps, ThreadType

\* What is known of the newest message before a frame that is about it.
LEMMA NewestHeld ==
    ASSUME TypeOK, Kept(turn, reader), turn # <<>>, NEW m, m = turn[Len(turn)]
    PROVE  /\ turn \in Seq(Message) /\ Len(turn) \in Nat \ {0} /\ m \in Message
           /\ m.length \in Nat /\ Text(Len(turn), m.length) \in Texts
           /\ m.kind = "answer" => Anchor = "answer"
           /\ m.kind # "answer" => Anchor = m.kind /\ m.shown
           /\ m.shown => reader.seen /\ reader.cur = m.kind /\ reader.prefix = <<>>
           /\ ~m.shown =>
                /\ ~reader.seen /\ reader.cur \in {"none", "answer"}
                /\ reader.prefix = IF wire.format = "v1" THEN Text(Len(turn), m.length)
                                                         ELSE <<>>
           /\ wire.format = "classic" => reader.path = "none" /\ reader.prefix = <<>>
           /\ wire.format = "v1" /\ m.kind = "answer" =>
                reader.text = Text(Len(turn), m.length)
           /\ m.kind # "thought" => ReadsMessage(reader, Len(turn), m)
<1>1. turn \in Seq(Message) /\ Anchored(turn, reader) /\ InStep(turn, reader)
  BY DEF Kept
<1>2. Len(turn) \in Nat \ {0} /\ m \in Message
  BY <1>1
<1>3. m.length \in Nat
  BY <1>2 DEF Message
<1>4. Text(Len(turn), m.length) \in Texts
  BY <1>2, <1>3, TextType
<1>5. /\ m.shown => reader.seen /\ reader.cur = m.kind /\ reader.prefix = <<>>
      /\ ~m.shown =>
           /\ m.kind = "answer" /\ ~reader.seen /\ reader.cur \in {"none", "answer"}
           /\ reader.prefix = IF wire.format = "v1" THEN Text(Len(turn), m.length)
                                                    ELSE <<>>
      /\ wire.format = "classic" => reader.path = "none"
      /\ wire.format = "v1" /\ m.kind = "answer" => reader.text = Text(Len(turn), m.length)
  BY <1>1 DEF Anchored
<1>6. wire.format = "classic" => reader.prefix = <<>>
  BY <1>2, <1>5
<1>7. /\ m.kind = "answer" => Anchor = "answer"
      /\ m.kind # "answer" => Anchor = m.kind /\ m.shown
  BY <1>5 DEF Anchor
<1>8. m.kind # "thought" => ReadsMessage(reader, Len(turn), m)
  <2>1. Len(turn) \in DOMAIN turn /\ \A i \in DOMAIN turn : i <= Len(turn)
    BY <1>1, <1>2
  <2>2. m.kind # "thought" => LatestOf(turn, Len(turn))
    BY <2>1 DEF LatestOf, Counts
  <2> QED
    BY <1>1, <2>1, <2>2 DEF InStep
<1> QED
  BY <1>1, <1>2, <1>3, <1>4, <1>5, <1>6, <1>7, <1>8

LEMMA GrowKeeps ==
    ASSUME LightInv, Grow PROVE LightInv'
<1>1. /\ TypeOK /\ Live /\ Kept(turn, reader) /\ Streams /\ Open /\ turn # <<>>
  BY DEF LightInv, Grow, Open
<1> DEFINE at == Len(turn)
           m == turn[at]
           l == m.length
           n == l + 1
           piece == <<round, at, n>>
<1>2. m.kind = "answer" /\ m.status = "in_progress"
  BY DEF Grow, Open, Last
<1>3. \/ /\ wire.format = "classic"
         /\ turn' = [turn EXCEPT ![at].length = n, ![at].shown = TRUE]
         /\ Envelope("answer", Text(at, n), "in_progress")
         /\ Identified(TRUE)
      \/ /\ turn' = [turn EXCEPT ![at].length = n]
         /\ \/ wire.format = "classic" /\ BareDelta(piece)
            \/ /\ wire.format = "v1"
               /\ AppendOp(piece) \/ ReplaceOp(Text(at, n), "in_progress")
         /\ UNCHANGED thread
  BY DEF Grow, Newest, Last, BareDelta
<1>4. /\ turn \in Seq(Message) /\ at \in Nat \ {0} /\ m \in Message /\ l \in Nat
      /\ Anchor = "answer"
      /\ m.shown => reader.seen /\ reader.cur = "answer" /\ reader.prefix = <<>>
      /\ ~m.shown =>
           /\ ~reader.seen /\ reader.cur \in {"none", "answer"}
           /\ reader.prefix = IF wire.format = "v1" THEN Text(at, l) ELSE <<>>
      /\ wire.format = "classic" => reader.path = "none" /\ reader.prefix = <<>>
      /\ wire.format = "v1" => reader.text = Text(at, l)
      /\ ReadsMessage(reader, at, m)
  BY <1>1, <1>2, NewestHeld
<1>5. reader.last = Text(at, l)
  BY <1>2, <1>4 DEF ReadsMessage, Reads
<1>6. /\ Append(Text(at, l), piece) = Text(at, n) /\ piece \in Nat \X Nat \X Nat
      /\ n \in Nat
  BY <1>1, <1>4, TextGrows
<1>7. Text(at, n) \in Texts
  BY <1>1, <1>4, <1>6, TextType
<1> DEFINE longer == [m EXCEPT !.length = n]
           shown == [m EXCEPT !.length = n, !.shown = TRUE]
<1>8. /\ longer \in Message /\ longer.kind = "answer" /\ longer.length = n
      /\ longer.status = "in_progress" /\ longer.shown = m.shown
      /\ shown \in Message /\ shown.kind = "answer" /\ shown.length = n
      /\ shown.status = "in_progress" /\ shown.shown
  <2> HIDE DEF m, n
  <2> QED
    BY <1>2, <1>4, <1>6 DEF Message
<1>9. \/ /\ wire.format = "classic"
         /\ turn' = [turn EXCEPT ![at] = shown]
         /\ Envelope("answer", Text(at, n), "in_progress")
         /\ Identified(TRUE)
      \/ /\ turn' = [turn EXCEPT ![at] = longer]
         /\ \/ wire.format = "classic" /\ BareDelta(piece)
            \/ /\ wire.format = "v1"
               /\ AppendOp(piece) \/ ReplaceOp(Text(at, n), "in_progress")
         /\ UNCHANGED thread
  BY <1>3, <1>4
<1> HIDE DEF m, l, n, piece, longer, shown
<1>10. CASE /\ wire.format = "classic"
            /\ turn' = [turn EXCEPT ![at] = shown]
            /\ Envelope("answer", Text(at, n), "in_progress")
            /\ Identified(TRUE)
  <2>1. turn' \in Seq(Message) /\ turn' # <<>> /\ Len(turn') = at /\ turn'[at] = shown
    BY <1>1, <1>4, <1>8, <1>10, NewestChanged
  <2>2. "answer" \in Kind /\ Text(at, n) = Joined(reader.prefix, Text(at, n))
    BY <1>4, <1>10 DEF Kind, Joined
  <2>3. /\ reader' \in Reader
        /\ reader'.path = "none" /\ reader'.seen /\ reader'.cur = "answer"
        /\ reader'.prefix = <<>> /\ reader'.text = Text(at, n)
        /\ Reads(reader', Text(at, n), FALSE)
    BY <1>1, <1>7, <1>10, <2>2, EnvelopeReads DEF Reads
  <2>4. Kept(turn', reader')
    BY <1>1, <1>8, <1>10, <2>1, <2>3, AnswerKept DEF Reads
  <2> QED
    BY <1>1, <1>10, <2>4, StreamKeeps, ThreadType
<1>11. CASE /\ turn' = [turn EXCEPT ![at] = longer]
            /\ wire.format = "classic" /\ BareDelta(piece)
            /\ UNCHANGED thread
  <2>1. turn' \in Seq(Message) /\ turn' # <<>> /\ Len(turn') = at /\ turn'[at] = longer
    BY <1>1, <1>4, <1>8, <1>11, NewestChanged
  <2>2. /\ reader' \in Reader
        /\ reader'.path = "none" /\ reader'.cur = reader.cur
        /\ reader'.text = reader.text /\ reader'.prefix = reader.prefix
        /\ reader'.seen = reader.seen
        /\ Reads(reader', Append(reader.last, piece), FALSE)
    BY <1>1, <1>4, <1>6, <1>11, DeltaReads
  <2>3. Reads(reader', Text(at, n), FALSE)
    BY <1>5, <1>6, <2>2
  <2>4. Kept(turn', reader')
    BY <1>1, <1>4, <1>8, <1>11, <2>1, <2>2, <2>3, AnswerKept DEF Reads
  <2> QED
    BY <1>1, <1>11, <2>4, StreamKeeps DEF TypeOK
<1>12. CASE /\ turn' = [turn EXCEPT ![at] = longer]
            /\ wire.format = "v1"
            /\ AppendOp(piece) \/ ReplaceOp(Text(at, n), "in_progress")
            /\ UNCHANGED thread
  <2>1. turn' \in Seq(Message) /\ turn' # <<>> /\ Len(turn') = at /\ turn'[at] = longer
    BY <1>1, <1>4, <1>8, <1>12, NewestChanged
  <2>2. Text(at, n) = Append(reader.text, piece) /\ Text(at, n) = Append(reader.last, piece)
    BY <1>4, <1>5, <1>6, <1>12
  <2>3. /\ reader' \in Reader
        /\ reader'.path = "text" /\ reader'.cur = "answer" /\ reader'.text = Text(at, n)
        /\ reader'.seen = reader.seen
        /\ reader'.prefix = IF reader.seen THEN reader.prefix ELSE Text(at, n)
        /\ Reads(reader', Text(at, n), FALSE)
    BY <1>1, <1>4, <1>6, <1>7, <1>12, <2>2, PatchReads DEF Reads
  <2>4. Kept(turn', reader')
    BY <1>1, <1>4, <1>8, <1>12, <2>1, <2>3, AnswerKept DEF Reads
  <2> QED
    BY <1>1, <1>12, <2>4, StreamKeeps DEF TypeOK
<1> QED
  BY <1>9, <1>10, <1>11, <1>12

LEMMA FinishKeeps ==
    ASSUME LightInv, NEW status \in {"finished_successfully", "cut"}, Finish(status)
    PROVE  LightInv'
<1>1. /\ TypeOK /\ Live /\ Kept(turn, reader) /\ Streams /\ turn # <<>>
  BY DEF LightInv, Finish, Open
<1> DEFINE at == Len(turn)
           m == turn[at]
           n == m.length
           whole == Text(at, n)
           ended == [m EXCEPT !.status = status]
           shown == [m EXCEPT !.status = status, !.shown = TRUE]
<1>2. \/ /\ wire.format = "classic"
         /\ turn' = [turn EXCEPT ![at].status = status, ![at].shown = TRUE]
         /\ Envelope(m.kind, whole, status)
         /\ Identified(m.kind # "tool")
      \/ /\ wire.format = "v1"
         /\ turn' = [turn EXCEPT ![at].status = status]
         /\ StatusOp(status)
         /\ UNCHANGED thread
  BY DEF Finish, Newest, Last
<1>3. /\ turn \in Seq(Message) /\ at \in Nat \ {0} /\ m \in Message /\ n \in Nat
      /\ whole \in Texts
      /\ m.kind = "answer" => Anchor = "answer"
      /\ m.kind # "answer" => Anchor = m.kind /\ m.shown
      /\ m.shown => reader.seen /\ reader.cur = m.kind /\ reader.prefix = <<>>
      /\ ~m.shown =>
           /\ ~reader.seen /\ reader.cur \in {"none", "answer"}
           /\ reader.prefix = IF wire.format = "v1" THEN whole ELSE <<>>
      /\ wire.format = "classic" => reader.path = "none" /\ reader.prefix = <<>>
      /\ wire.format = "v1" /\ m.kind = "answer" => reader.text = whole
      /\ m.kind # "thought" => ReadsMessage(reader, at, m)
  BY <1>1, NewestHeld
<1>4. /\ ended \in Message /\ ended.kind = m.kind /\ ended.length = n
      /\ ended.status = status /\ ended.shown = m.shown
      /\ shown \in Message /\ shown.kind = m.kind /\ shown.length = n
      /\ shown.status = status /\ shown.shown
  <2> HIDE DEF m
  <2> QED
    BY <1>3 DEF Message
<1>5. m.kind \in Kind /\ (m.kind # "tool") \in BOOLEAN
  <2> HIDE DEF m
  <2> QED
    BY <1>3 DEF Message
<1>6. \/ /\ wire.format = "classic"
         /\ turn' = [turn EXCEPT ![at] = shown]
         /\ Envelope(m.kind, whole, status)
         /\ Identified(m.kind # "tool")
      \/ /\ wire.format = "v1"
         /\ turn' = [turn EXCEPT ![at] = ended]
         /\ StatusOp(status)
         /\ UNCHANGED thread
  BY <1>2, <1>3
<1>k. InStep(turn, reader) /\ HasLatest(turn) /\ turn[Len(turn)].kind = m.kind
  BY <1>1 DEF Kept
<1> HIDE DEF m, n, whole, ended, shown
<1>7. CASE /\ wire.format = "classic"
           /\ turn' = [turn EXCEPT ![at] = shown]
           /\ Envelope(m.kind, whole, status)
           /\ Identified(m.kind # "tool")
  <2>1. turn' \in Seq(Message) /\ turn' # <<>> /\ Len(turn') = at /\ turn'[at] = shown
    BY <1>1, <1>3, <1>4, <1>7, NewestChanged
  <2>4. turn'[Len(turn')].kind = m.kind
    BY <1>4, <2>1
  <2>2. whole = Joined(reader.prefix, whole)
    BY <1>3, <1>7 DEF Joined
  <2>3. /\ reader' \in Reader
        /\ reader'.path = "none" /\ reader'.seen /\ reader'.cur = m.kind
        /\ reader'.prefix = <<>>
        /\ m.kind = "answer" => /\ reader'.text = whole
                                /\ Reads(reader', whole, status = "finished_successfully")
        /\ m.kind \in {"tool", "dispatch"} => Reads(reader', <<>>, FALSE)
        /\ m.kind = "thought" => /\ reader'.last = reader.last /\ reader'.done = reader.done
                                 /\ reader'.completed = reader.completed
    BY <1>1, <1>3, <1>5, <1>7, <2>2, EnvelopeReads
  <2>6. Kept(turn', reader')
    <3>1. CASE m.kind = "answer"
      BY <1>1, <1>4, <1>7, <2>1, <2>3, <3>1, AnswerKept DEF whole, Reads
    <3>2. CASE m.kind # "answer"
      <4>1. InStep(turn', reader') /\ HasLatest(turn')
        <5>1. CASE m.kind \in {"tool", "dispatch"}
          BY <2>1, <2>3, <2>4, <5>1, ToolInStep DEF Reads
        <5>2. CASE m.kind = "thought"
          BY <1>1, <1>3, <1>4, <1>7, <1>k, <2>1, <2>3, <5>2, ThoughtRead
        <5> QED
          BY <1>5, <3>2, <5>1, <5>2 DEF Kind
      <4> QED
        BY <1>1, <1>4, <1>7, <2>1, <2>3, <3>2, <4>1, OtherKept
    <3> QED
      BY <3>1, <3>2
  <2> QED
    BY <1>1, <1>5, <1>7, <2>6, StreamKeeps, ThreadType
<1>8. CASE /\ wire.format = "v1"
           /\ turn' = [turn EXCEPT ![at] = ended]
           /\ StatusOp(status)
           /\ UNCHANGED thread
  <2>1. turn' \in Seq(Message) /\ turn' # <<>> /\ Len(turn') = at /\ turn'[at] = ended
    BY <1>1, <1>3, <1>4, <1>8, NewestChanged
  <2>4. turn'[Len(turn')].kind = m.kind
    BY <1>4, <2>1
  <2>2. /\ reader' \in Reader
        /\ reader'.cur = Anchor /\ reader'.text = reader.text
        /\ reader'.prefix = reader.prefix /\ reader'.seen = reader.seen
        /\ Anchor = "answer" =>
             Reads(reader', reader.text, status = "finished_successfully")
        /\ Anchor # "answer" =>
             /\ reader'.last = reader.last /\ reader'.done = reader.done
             /\ reader'.completed = reader.completed
    BY <1>1, <1>8, StatusReads
  <2>6. Kept(turn', reader')
    <3>1. CASE m.kind = "answer"
      BY <1>1, <1>3, <1>4, <1>8, <2>1, <2>2, <3>1, AnswerKept DEF whole, Reads
    <3>2. CASE m.kind # "answer"
      <4>1. InStep(turn', reader') /\ HasLatest(turn')
        <5>1. CASE m.kind \in {"tool", "dispatch"}
          <6>1. Reads(reader', <<>>, FALSE)
            BY <1>3, <2>2, <3>2, <5>1 DEF ReadsMessage, Reads
          <6> QED
            BY <2>1, <2>4, <5>1, <6>1, ToolInStep DEF Reads
        <5>2. CASE m.kind = "thought"
          BY <1>1, <1>3, <1>4, <1>8, <1>k, <2>1, <2>2, <5>2, ThoughtRead
        <5> QED
          BY <1>5, <3>2, <5>1, <5>2 DEF Kind
      <4> QED
        BY <1>1, <1>3, <1>4, <1>8, <2>1, <2>2, <3>2, <4>1, OtherKept
    <3> QED
      BY <3>1, <3>2
  <2> QED
    BY <1>1, <1>8, <2>6, StreamKeeps DEF TypeOK
<1> QED
  BY <1>6, <1>7, <1>8

\* A frame that changes neither the turn nor what the parser holds of its text.
LEMMA NoteKeeps ==
    ASSUME LightInv, OtherOutput \/ SystemNote PROVE LightInv'
<1>1. /\ TypeOK /\ Live /\ Kept(turn, reader) /\ Streams /\ turn' = turn
  BY DEF LightInv, OtherOutput, SystemNote
<1>2. turn \in Seq(Message) /\ InStep(turn, reader) /\ HasLatest(turn)
      /\ Anchored(turn, reader) /\ reader \in Reader
  BY <1>1 DEF Kept
<1>3. CASE OtherOutput
  <2>1. turn # <<>> /\ wire.format = "v1" /\ UNCHANGED thread
    BY <1>2, <1>3 DEF OtherOutput, Newest
  <2>2. PICK cur \in {reader.cur, Anchor} :
          /\ reader' = [reader EXCEPT !.path = "other", !.cur = cur]
          /\ cur # reader.cur => turn[Len(turn)].kind = "answer"
    BY <1>3 DEF OtherOutput, OtherOp, Last
  <2>3. cur \in Kind \cup {"none"}
    BY <1>2 DEF Anchor, Reader, Kind
  <2>4. /\ reader' \in Reader
        /\ reader'.last = reader.last /\ reader'.done = reader.done
        /\ reader'.completed = reader.completed /\ reader'.text = reader.text
        /\ reader'.prefix = reader.prefix /\ reader'.seen = reader.seen
        /\ reader'.cur = cur
    BY <1>2, <2>2, <2>3 DEF Reader
  <2>5. InStep(turn, reader') /\ HasLatest(turn)
    BY <1>2, <2>4, ThoughtRead
  <2>6. cur = reader.cur \/ (~reader.seen /\ cur = "answer" /\ turn[Len(turn)].kind = "answer")
    BY <2>2 DEF Anchor
  <2>7. Anchored(turn, reader')
    BY <1>2, <2>1, <2>4, <2>6 DEF Anchored
  <2> QED
    BY <1>1, <1>2, <2>1, <2>4, <2>5, <2>7, StreamKeeps DEF Kept, TypeOK
<1>4. CASE SystemNote
  <2>1. /\ reader' = [reader EXCEPT !.path = "none", !.seen = TRUE]
        /\ Identified(FALSE) /\ Shown
    BY <1>4 DEF SystemNote
  <2>2. /\ reader' \in Reader
        /\ reader'.last = reader.last /\ reader'.done = reader.done
        /\ reader'.completed = reader.completed /\ reader'.text = reader.text
        /\ reader'.prefix = reader.prefix /\ reader'.seen
        /\ reader'.cur = reader.cur /\ reader'.path = "none"
    BY <1>2, <2>1 DEF Reader
  <2>3. InStep(turn, reader') /\ HasLatest(turn)
    BY <1>2, <2>2, ThoughtRead
  <2>4. Anchored(turn, reader')
    BY <1>2, <2>1, <2>2 DEF Anchored, Shown, Last
  <2> QED
    BY <1>1, <1>2, <2>1, <2>2, <2>3, <2>4, StreamKeeps, ThreadType DEF Kept
<1> QED
  BY <1>3, <1>4

-----------------------------------------------------------------------------
(* The invariant is kept around a round                                    *)

LEMMA PostKeeps ==
    ASSUME LightInv, Post PROVE LightInv'
<1>1. /\ TypeOK /\ turn' = <<>> /\ reader' = FreshReader /\ stage' = "streaming"
      /\ UNCHANGED <<wire, round, thread, heard, result>> /\ stage = "setup"
  BY DEF LightInv, Post, Ends
<1>2. FreshReader \in Reader /\ <<>> \in Seq(Message) /\ DOMAIN <<>> = {}
  BY DEF FreshReader, Reader, Texts, Kind
<1>3. TypeOK'
  BY <1>1, <1>2 DEF TypeOK
<1>4. Kept(turn, reader)'
  <2>1. turn' \in Seq(Message) /\ reader' \in Reader /\ turn' = <<>> /\ DOMAIN turn' = {}
    BY <1>1, <1>2
  <2>2. /\ reader'.cur = "none" /\ reader'.text = <<>> /\ reader'.prefix = <<>>
        /\ reader'.done = <<>> /\ reader'.last = <<>> /\ ~reader'.completed
        /\ reader'.path = "none"
    BY <1>1 DEF FreshReader
  <2> QED
    BY <2>1, <2>2 DEF Kept, Anchored, InStep, HasLatest
<1> QED
  BY <1>1, <1>3, <1>4 DEF LightInv, FirstIsUnheard

LEMMA EndKeeps ==
    ASSUME LightInv, Challenged \/ Fails PROVE LightInv'
<1>1. /\ TypeOK /\ UNCHANGED <<wire, round, thread, turn, reader, heard, result>>
      /\ stage' \in {"browser", "raised"}
  BY DEF LightInv, Challenged, Fails, Ends
<1>2. TypeOK'
  BY <1>1 DEF TypeOK
<1> QED
  BY <1>1, <1>2 DEF LightInv, FirstIsUnheard, Live

LEMMA EventTypes ==
    /\ NoEvent \in DoneEvent
    /\ \A text \in Texts : \A abnormal, revokes \in BOOLEAN :
         [text |-> text, abnormal |-> abnormal, revokes |-> revokes] \in DoneEvent
    /\ \A h \in [clean : DoneEvent, last : DoneEvent], e \in DoneEvent :
         Hears(h, e) \in [clean : DoneEvent, last : DoneEvent] /\ Chosen(h) \in DoneEvent
<1>1. NoEvent \in DoneEvent
  BY DEF NoEvent, DoneEvent, Texts
<1>2. \A text \in Texts : \A abnormal, revokes \in BOOLEAN :
        [text |-> text, abnormal |-> abnormal, revokes |-> revokes] \in DoneEvent
  BY DEF DoneEvent
<1> QED
  BY <1>1, <1>2 DEF Hears, Chosen

\* The three done events the end of a stream can make.
Plain == [text |-> reader.done, abnormal |-> FALSE, revokes |-> FALSE]
Unresolved == [text |-> reader.done, abnormal |-> TRUE, revokes |-> TRUE]
Incomplete == [text |-> reader.last, abnormal |-> TRUE, revokes |-> round > 0]

LEMMA StreamEndsCases ==
    ASSUME LightInv, StreamEnds
    PROVE  /\ TypeOK /\ Live /\ UNCHANGED <<wire, thread, turn, reader>>
           /\ {Plain, Unresolved, Incomplete} \subseteq DoneEvent
           /\ \/ ~reader.completed /\ Returns(Hears(heard, Incomplete))
              \/ /\ reader.completed /\ Continues
                 /\ heard' = Hears(heard, Plain)
                 /\ round' = round + 1 /\ stage' = "setup" /\ UNCHANGED result
              \/ reader.completed /\ Asks
                 /\ Returns(Hears(Hears(heard, Plain), Unresolved))
              \/ reader.completed /\ ~Asks /\ Returns(Hears(heard, Plain))
<1>1. TypeOK /\ Live /\ UNCHANGED <<wire, thread, turn, reader>>
  BY DEF LightInv, StreamEnds
<1>2. reader.done \in Texts /\ reader.last \in Texts /\ (round > 0) \in BOOLEAN
  BY <1>1 DEF TypeOK, Reader
<1>3. {Plain, Unresolved, Incomplete} \subseteq DoneEvent
  BY <1>2, EventTypes DEF Plain, Unresolved, Incomplete
<1>4. IF ~reader.completed THEN Returns(Hears(heard, Incomplete))
      ELSE IF Continues
             THEN /\ heard' = Hears(heard, Plain)
                  /\ round' = round + 1
                  /\ stage' = "setup"
                  /\ UNCHANGED result
      ELSE IF Asks THEN Returns(Hears(Hears(heard, Plain), Unresolved))
                   ELSE Returns(Hears(heard, Plain))
  BY DEF StreamEnds, Plain, Unresolved, Incomplete
<1> QED
  BY <1>1, <1>3, <1>4

LEMMA StreamEndsKeeps ==
    ASSUME LightInv, StreamEnds PROVE LightInv'
<1>1. /\ TypeOK /\ Live /\ UNCHANGED <<wire, thread, turn, reader>>
      /\ {Plain, Unresolved, Incomplete} \subseteq DoneEvent
  BY StreamEndsCases
<1>2. ASSUME NEW h \in [clean : DoneEvent, last : DoneEvent], Returns(h)
      PROVE  LightInv'
  <2>1. heard' = h /\ result' = Chosen(h) /\ stage' = "returned" /\ round' = round
    BY <1>2 DEF Returns
  <2>2. result' \in DoneEvent
    BY <1>2, <2>1, EventTypes
  <2>3. TypeOK'
    BY <1>1, <1>2, <2>1, <2>2 DEF TypeOK
  <2> QED
    BY <2>1, <2>3 DEF LightInv, FirstIsUnheard, Live
<1>3. \A e \in DoneEvent : Hears(heard, e) \in [clean : DoneEvent, last : DoneEvent]
  BY <1>1, EventTypes DEF TypeOK
<1>4. Hears(Hears(heard, Plain), Unresolved) \in [clean : DoneEvent, last : DoneEvent]
  BY <1>1, <1>3, EventTypes
<1>5. ASSUME Continues, heard' = Hears(heard, Plain), round' = round + 1, stage' = "setup",
             UNCHANGED result
      PROVE  LightInv'
  <2>1. round' \in 1 .. MaxRounds
    BY <1>1, <1>5 DEF Continues, TypeOK
  <2>2. heard' \in [clean : DoneEvent, last : DoneEvent]
    BY <1>1, <1>3, <1>5
  <2>3. TypeOK'
    BY <1>1, <1>5, <2>1, <2>2 DEF TypeOK
  <2> QED
    BY <1>5, <2>1, <2>3 DEF LightInv, FirstIsUnheard, Live
<1> QED
  BY <1>1, <1>2, <1>3, <1>4, <1>5, StreamEndsCases

LEMMA LightStep ==
    ASSUME LightInv, [Next]_vars PROVE LightInv'
<1>1. CASE Post
  BY <1>1, PostKeeps
<1>2. CASE Challenged \/ Fails
  BY <1>2, EndKeeps
<1>3. CASE \E kind \in Kind, question \in BOOLEAN : NewMessage(kind, question)
  BY <1>3, NewMessageKeeps
<1>4. CASE LateEnvelope
  BY <1>4, LateEnvelopeKeeps
<1>5. CASE Grow
  BY <1>5, GrowKeeps
<1>6. CASE \E status \in {"finished_successfully", "cut"} : Finish(status)
  BY <1>6, FinishKeeps
<1>7. CASE OtherOutput \/ SystemNote
  BY <1>7, NoteKeeps
<1>8. CASE StreamEnds
  BY <1>8, StreamEndsKeeps
<1>9. CASE UNCHANGED vars
  <2>1. UNCHANGED <<wire, stage, round, thread, turn, reader, heard, result>>
    BY <1>9 DEF vars
  <2>2. TypeOK' /\ FirstIsUnheard' /\ (Live' <=> Live)
    BY <2>1 DEF LightInv, TypeOK, FirstIsUnheard, Live
  <2>3. Live => Kept(turn, reader)'
    <3>1. \A m, n : Text(m, n)' = Text(m, n)
      BY <2>1 DEF Text
    <3> QED
      BY <2>1, <3>1 DEF LightInv, Kept, Anchored, InStep, HasLatest, LatestOf, Counts,
                        ReadsMessage, Reads
  <2> QED
    BY <2>2, <2>3 DEF LightInv
<1> QED
  BY <1>1, <1>2, <1>3, <1>4, <1>5, <1>6, <1>7, <1>8, <1>9 DEF Next

LEMMA LightAlways == Spec => []LightInv
<1>1. Init => LightInv
  <2> SUFFICES ASSUME Init PROVE LightInv
    OBVIOUS
  <2>1. FreshReader \in Reader /\ NoEvent \in DoneEvent /\ 0 \in 0 .. MaxRounds
    BY EventTypes DEF FreshReader, Reader, Texts, Kind
  <2>2. TypeOK
    BY <2>1 DEF Init, TypeOK
  <2> QED
    BY <2>2 DEF Init, LightInv, Live, FirstIsUnheard
<1>2. LightInv /\ [Next]_vars => LightInv'
  BY LightStep
<1> QED
  BY <1>1, <1>2, PTL DEF Spec

-----------------------------------------------------------------------------
(* The theorems                                                            *)

\* The call's state is always well formed, whatever the rounds are and however
\* many messages they have: no event, frame or follow-up takes a local of
\* ConversationClient.deep_research or of its handler out of its type.
THEOREM LightTypes == Spec => []TypeOK
<1>1. LightInv => TypeOK
  BY DEF LightInv
<1> QED
  BY <1>1, LightAlways, PTL

LEMMA RelevantCounts ==
    /\ Relevant = {} <=> \A m \in DOMAIN turn : ~Counts(turn, m)
    /\ \A m : IsLatest(m) <=> m \in DOMAIN turn /\ LatestOf(turn, m)
  BY DEF Relevant, IsLatest, LatestOf, Counts

\* _frame, _text_update, _invalidate: for every number and length of messages and
\* on both wires, what the parser holds is the text of the latest answer, and it
\* takes it for complete exactly when upstream has finished it.  The invariant
\* behind it says where patches fall: on the newest message, whose text before
\* its envelope waits in _implicit_prefix.
THEOREM ParserInStep == Spec => []ReaderInStep
<1>1. ASSUME LightInv PROVE ReaderInStep
  <2> SUFFICES ASSUME Live PROVE
        /\ Relevant = {} => reader.last = <<>> /\ ~reader.completed
        /\ \A m \in Relevant : IsLatest(m) =>
             LET msg == turn[m]
                 whole == IF msg.kind = "answer" THEN Text(m, msg.length) ELSE <<>>
                 completed == /\ msg.kind = "answer"
                              /\ msg.status = "finished_successfully"
             IN /\ reader.last = whole
                /\ reader.completed = completed
                /\ reader.done = IF completed THEN whole ELSE <<>>
    BY DEF ReaderInStep
  <2>1. InStep(turn, reader) /\ reader.completed \in BOOLEAN
    BY <1>1 DEF LightInv, Kept, Reader
  <2>2. Relevant = {} => reader.last = <<>> /\ ~reader.completed
    BY <2>1, RelevantCounts DEF InStep
  <2>3. ASSUME NEW m \in Relevant, IsLatest(m) PROVE ReadsMessage(reader, m, turn[m])
    BY <2>1, <2>3, RelevantCounts DEF InStep
  <2>4. ASSUME NEW m \in Relevant, ReadsMessage(reader, m, turn[m])
        PROVE  LET msg == turn[m]
                   whole == IF msg.kind = "answer" THEN Text(m, msg.length) ELSE <<>>
                   completed == /\ msg.kind = "answer"
                                /\ msg.status = "finished_successfully"
               IN /\ reader.last = whole
                  /\ reader.completed = completed
                  /\ reader.done = IF completed THEN whole ELSE <<>>
    <3> DEFINE completed == turn[m].kind = "answer" /\ turn[m].status = "finished_successfully"
    <3>1. (reader.completed <=> completed) /\ completed \in BOOLEAN
      BY <2>4 DEF ReadsMessage, Reads
    <3>2. reader.completed = completed
      <4> HIDE DEF completed
      <4> QED
        BY <2>1, <3>1, Zenon
    <3>3. /\ reader.last = IF turn[m].kind = "answer" THEN Text(m, turn[m].length) ELSE <<>>
          /\ reader.done = IF completed
                            THEN IF turn[m].kind = "answer" THEN Text(m, turn[m].length)
                                                            ELSE <<>>
                            ELSE <<>>
      BY <2>4 DEF ReadsMessage, Reads
    <3> QED
      BY <3>2, <3>3, Zenon
  <2> QED
    BY <2>2, <2>3, <2>4, Zenon
<1> QED
  BY <1>1, LightAlways, PTL

\* What the handler chooses is plain only if the parser's round was complete and
\* was not a question; an unfinished follow-up revokes what came before it.
LEMMA PlainResult ==
    ASSUME LightInv, StreamEnds, stage' = "returned", ~result'.abnormal
    PROVE  reader.completed /\ ~Asks /\ result'.text = reader.done
<1>1. /\ TypeOK /\ Live /\ heard.clean \in DoneEvent
      /\ round = 0 => heard.clean = NoEvent
  BY DEF LightInv, StreamEnds, FirstIsUnheard, Live, TypeOK
<1>2. Plain.text = reader.done /\ ~Plain.abnormal /\ ~Plain.revokes
  BY DEF Plain
<1>3. Unresolved.abnormal /\ Unresolved.revokes
  BY DEF Unresolved
<1>4. Incomplete.abnormal /\ (Incomplete.revokes <=> round > 0)
  BY DEF Incomplete
<1>5. NoEvent.abnormal
  BY DEF NoEvent
<1>6. ASSUME NEW h, NEW e, e.revokes PROVE Chosen(Hears(h, e)) = e
  BY <1>6 DEF Chosen, Hears
<1>7. \/ ~reader.completed /\ Returns(Hears(heard, Incomplete))
      \/ reader.completed /\ Asks /\ Returns(Hears(Hears(heard, Plain), Unresolved))
      \/ reader.completed /\ ~Asks /\ Returns(Hears(heard, Plain))
  BY StreamEndsCases
<1>8. CASE ~reader.completed /\ Returns(Hears(heard, Incomplete))
  <2>1. Chosen(Hears(heard, Incomplete)) = Incomplete
    BY <1>1, <1>4, <1>6 DEF Chosen, Hears, TypeOK
  <2> QED
    BY <1>4, <1>8, <2>1 DEF Returns
<1>9. CASE reader.completed /\ Asks /\ Returns(Hears(Hears(heard, Plain), Unresolved))
  BY <1>3, <1>6, <1>9 DEF Returns
<1>10. CASE reader.completed /\ ~Asks /\ Returns(Hears(heard, Plain))
  <2>1. Chosen(Hears(heard, Plain)) = Plain
    BY <1>2, <1>5 DEF Chosen, Hears
  <2> QED
    BY <1>2, <1>10, <2>1 DEF Returns
<1> QED
  BY <1>7, <1>8, <1>9, <1>10

\* A report that does not warn its reader is the whole text of a finished answer,
\* the latest of the last round, and not a question: for any number of follow-ups,
\* neither an earlier round's text nor one a tool call overtook is passed off as
\* the report (_has_incomplete_report in server.py, and the events it chooses among).
THEOREM PlainReports == Spec => PlainReportIsFinished
<1> DEFINE Returned == stage = "streaming" /\ stage' = "returned" /\ ~result'.abnormal
           Finished ==
               \E m \in Relevant :
                  /\ IsLatest(m)
                  /\ turn[m].kind = "answer"
                  /\ turn[m].status = "finished_successfully"
                  /\ turn[m].question => turn[m].length = 0
                  /\ result'.text = Text(m, turn[m].length)
<1>1. ASSUME LightInv, Next, Returned PROVE Finished
  <2>1. StreamEnds
    BY <1>1 DEF Next, Post, Challenged, Fails, Ends, NewMessage, LateEnvelope, Grow, Finish,
                OtherOutput, SystemNote, Streams
  <2>2. reader.completed /\ ~Asks /\ result'.text = reader.done
    BY <1>1, <2>1, PlainResult
  <2>3. TypeOK /\ InStep(turn, reader) /\ HasLatest(turn) /\ turn \in Seq(Message)
    BY <1>1 DEF LightInv, Live, Kept
  <2>4. PICK m \in DOMAIN turn : LatestOf(turn, m)
    BY <2>2, <2>3 DEF InStep, HasLatest
  <2>5. ReadsMessage(reader, m, turn[m])
    BY <2>3, <2>4 DEF InStep
  <2>6. /\ turn[m].kind = "answer" /\ turn[m].status = "finished_successfully"
        /\ reader.done = Text(m, turn[m].length)
    BY <2>2, <2>5 DEF ReadsMessage, Reads
  <2>7. m \in Nat /\ turn[m].length \in Nat
    <3>1. m \in Nat /\ turn[m] \in Message
      BY <2>3
    <3> QED
      BY <3>1 DEF Message
  <2>8. turn[m].question => turn[m].length = 0
    <3> SUFFICES ASSUME turn[m].length # 0 PROVE ~turn[m].question
      OBVIOUS
    <3> DEFINE n == turn[m].length
               s == Text(m, n)
    <3>1. s # <<>> /\ s[1] = <<round, m, 1>> /\ s \in Seq(Nat \X Nat \X Nat)
      <4>1. n \in Nat /\ n # 0 /\ 1 \in 1 .. n
        BY <2>7
      <4> HIDE DEF n
      <4> QED
        BY <2>3, <2>7, <4>1, TextType DEF Texts
    <3> HIDE DEF s
    <3>2. Head(s) = s[1]
      BY <3>1
    <3>3. Head(reader.done)[2] = m
      BY <2>6, <3>1, <3>2 DEF s
    <3> QED
      BY <2>2, <2>6, <3>1, <3>3 DEF Asks, s
  <2>9. IsLatest(m) /\ m \in Relevant
    BY <2>4, RelevantCounts DEF IsLatest
  <2> QED
    BY <2>2, <2>6, <2>8, <2>9
<1>2. ASSUME LightInv, [Next]_vars PROVE [Returned => Finished]_vars
  BY <1>1, <1>2
<1>3. LightInv /\ [Next]_vars => [Returned => Finished]_vars
  BY <1>2
<1> HIDE DEF Returned, Finished
<1>4. Spec => [][Returned => Finished]_vars
  BY <1>3, LightAlways, PTL DEF Spec
<1> QED
  BY <1>4 DEF PlainReportIsFinished, Returned, Finished

=============================================================================
