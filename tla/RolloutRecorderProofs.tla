------------------------ MODULE RolloutRecorderProofs ------------------------
(***************************************************************************)
(* RecorderInv is an invariant of RolloutRecorder, for any number of       *)
(* recorders, calls, faults and crashes, and with it                       *)
(* MetaComesFirst, PromisesAreKept and ItemsAccountedFor.                  *)
(*                                                                         *)
(* What RecorderInv says of one writer is a formula of the file and of the *)
(* record of the writer.  A first group of lemmas follows that formula     *)
(* through what can happen to either; the steps of the specification are   *)
(* put together from them.                                                 *)
(***************************************************************************)
EXTENDS RolloutRecorder, FiniteSetTheorems, FunctionTheorems, TLAPS

\* What a writer's record is made of.
LEMMA WriterTyped ==
  ASSUME NEW w \in Writer
  PROVE  /\ w.pending \in Seq(Nat) /\ w.chan \in Seq(Command) /\ w.queued \in Seq(Nat)
         /\ Len(w.pending) \in Nat /\ Len(w.chan) \in Nat /\ Len(w.queued) \in Nat /\ w.written \in Nat
         /\ DOMAIN w.pending = 1 .. Len(w.pending) /\ DOMAIN w.chan = 1 .. Len(w.chan)
         /\ DOMAIN w.queued = 1 .. Len(w.queued)
         /\ \A k \in DOMAIN w.pending : w.pending[k] \in Nat
         /\ \A k \in DOMAIN w.chan : w.chan[k] \in Command /\ w.chan[k].n \in Nat
         /\ \A k \in DOMAIN w.queued : w.queued[k] \in Nat
         /\ w.cmd \in Command /\ w.cmd.n \in Nat
<1>1. w.pending \in Seq(Nat) /\ w.chan \in Seq(Command) /\ w.queued \in Seq(Nat) /\ w.cmd \in Command /\ w.written \in Nat
  BY DEF Writer
<1>2. \A k \in DOMAIN w.chan : w.chan[k] \in Command
  BY <1>1
<1>3. \A c \in Command : c.n \in Nat
  BY DEF Command
<1> QED BY <1>1, <1>2, <1>3

\* A file with one more line.
LEMMA LineAdded ==
  ASSUME NEW f \in Seq(Line), NEW l \in Line, NEW g, g = Append(f, l)
  PROVE  /\ g \in Seq(Line) /\ Len(f) \in Nat /\ Len(g) = Len(f) + 1
         /\ DOMAIN f = 1 .. Len(f) /\ DOMAIN g = 1 .. Len(f) + 1
         /\ \A k \in DOMAIN f : k \in DOMAIN g /\ g[k] = f[k]
         /\ g[Len(f) + 1] = l
         /\ \A k \in DOMAIN g : k \in DOMAIN f \/ k = Len(f) + 1
OBVIOUS

LEMMA OnFileGrows ==
  ASSUME NEW f \in Seq(Line), NEW l \in Line, NEW g, g = Append(f, l), NEW i
  PROVE  /\ OnFile(f, i) => OnFile(g, i)
         /\ OnFile(g, i) => OnFile(f, i) \/ l = ItemLine(i)
         /\ l = ItemLine(i) => OnFile(g, i)
         /\ HasMeta(f) => HasMeta(g)
         /\ l = MetaLine => HasMeta(g)
         /\ NoBody(f) /\ ~IsBody(l) => NoBody(g)
<1>1. /\ \A k \in DOMAIN f : k \in DOMAIN g /\ g[k] = f[k]
      /\ Len(f) + 1 \in DOMAIN g /\ g[Len(f) + 1] = l
      /\ \A k \in DOMAIN g : k \in DOMAIN f \/ k = Len(f) + 1
  BY LineAdded
<1>2. OnFile(f, i) => OnFile(g, i)
  BY <1>1 DEF OnFile
<1>3. OnFile(g, i) => OnFile(f, i) \/ l = ItemLine(i)
  BY <1>1 DEF OnFile
<1>4. l = ItemLine(i) => OnFile(g, i)
  BY <1>1 DEF OnFile
<1>5. (HasMeta(f) => HasMeta(g)) /\ (l = MetaLine => HasMeta(g))
  BY <1>1 DEF HasMeta
<1>6. NoBody(f) /\ ~IsBody(l) => NoBody(g)
  BY <1>1 DEF NoBody
<1> QED BY <1>2, <1>3, <1>4, <1>5, <1>6

LEMMA ItemLineIs == ASSUME NEW i, NEW j PROVE /\ ItemLine(i).kind = "item" /\ ItemLine(i).n = i
                                              /\ (ItemLine(i) = ItemLine(j) => i = j)
                                              /\ ItemLine(i) # MetaLine
BY DEF ItemLine, MetaLine

\* A line that is no item of the writer moves none of its items.
LEMMA ItemsStay ==
  ASSUME NEW f \in Seq(Line), NEW w \in Writer, NEW r, NEW l \in Line, NEW g, g = Append(f, l), WriterInv(f, r, w),
         l.kind = "item" => l.n \notin Numbers(w)
  PROVE  OwnInv(g, w) /\ ItemsInOrder(g, w) /\ Covered(g, w)
<1>0. /\ Len(f) \in Nat /\ DOMAIN f = 1 .. Len(f)
      /\ \A k \in DOMAIN f : k \in DOMAIN g /\ g[k] = f[k]
      /\ g[Len(f) + 1] = l
      /\ \A k \in DOMAIN g : k \in DOMAIN f \/ k = Len(f) + 1
  BY LineAdded
<1>1. ASSUME NEW i \in Numbers(w) PROVE OnFile(g, i) <=> OnFile(f, i)
  <2>1. l # ItemLine(i)
    BY ItemLineIs
  <2>2. (OnFile(f, i) => OnFile(g, i)) /\ (OnFile(g, i) => OnFile(f, i) \/ l = ItemLine(i))
    BY OnFileGrows
  <2> QED BY <2>1, <2>2
<1>2. \A i : OnFile(f, i) => OnFile(g, i)
  BY OnFileGrows
<1>3. OwnInv(g, w)
  BY <1>2 DEF WriterInv, OwnInv
<1>4. ItemsInOrder(g, w)
  <2>1. \A j, k \in DOMAIN g :
          /\ j < k
          /\ g[j].kind = "item" /\ g[j].n \in Numbers(w)
          /\ g[k].kind = "item" /\ g[k].n \in Numbers(w)
          => g[j].n < g[k].n
    BY <1>0 DEF WriterInv, ItemsInOrder
  <2>2. \A i, j \in Numbers(w) : i < j /\ OnFile(g, j) => OnFile(g, i)
    BY <1>1 DEF WriterInv, ItemsInOrder
  <2>3. \A i \in Numbers(w), j \in Buffered(w) \cup InChannel(w) : OnFile(g, i) => i < j
    BY <1>1 DEF WriterInv, ItemsInOrder
  <2> QED BY <2>1, <2>2, <2>3 DEF WriterInv, ItemsInOrder
<1>5. Covered(g, w)
  BY <1>2 DEF WriterInv, Covered
<1> QED BY <1>3, <1>4, <1>5

\* A line of somebody else, complete or not, changes nothing for a writer.
LEMMA OthersWrite ==
  ASSUME NEW f \in Seq(Line), NEW w \in Writer, NEW r, NEW l \in Line, NEW g, g = Append(f, l), WriterInv(f, r, w),
         l.kind = "item" => l.n \notin Numbers(w), IsBody(l) => ~w.meta
  PROVE  WriterInv(g, r, w)
<1>1. OwnInv(g, w) /\ ItemsInOrder(g, w) /\ Covered(g, w)
  BY ItemsStay
<1>2. HasMeta(f) => HasMeta(g)
  BY OnFileGrows
<1>3. w.meta => NoBody(g)
  BY OnFileGrows DEF WriterInv, MetaInv
<1>4. MetaInv(g, r, w)
  BY <1>2, <1>3 DEF WriterInv, MetaInv
<1> QED BY <1>1, <1>4 DEF WriterInv

\* The items stay accounted for while the writer holds them in the same
\* places, or ends and drops its channel.
LEMMA SameItems ==
  ASSUME NEW f, NEW w \in Writer, NEW v \in Writer, OwnInv(f, w), ItemsInOrder(f, w), Covered(f, w),
         v.queued = w.queued, v.pending = w.pending, v.written = w.written,
         v.chan = w.chan \/ (v.chan = <<>> /\ v.st = "gone"),
         v.cmd = w.cmd \/ v.cmd.op = "none", w.st # "gone" \/ v.st = "gone"
  PROVE  OwnInv(f, v) /\ ItemsInOrder(f, v) /\ Covered(f, v)
<1>1. Numbers(v) = Numbers(w) /\ Buffered(v) = Buffered(w)
  BY DEF Numbers, Buffered
<1>2. \A k \in DOMAIN v.chan : k \in DOMAIN w.chan /\ v.chan[k] = w.chan[k]
  BY WriterTyped
<1>3. InChannel(v) \subseteq InChannel(w)
  BY <1>2 DEF InChannel
<1>4. v.cmd.op \in Barriers => v.cmd = w.cmd
  BY DEF Barriers
<1>5. OwnInv(f, v)
  BY <1>1, <1>2, <1>4 DEF OwnInv
<1>6. ItemsInOrder(f, v)
  BY <1>1, <1>2, <1>3 DEF ItemsInOrder
<1>7. Covered(f, v)
  <2>1. CASE v.st = "gone"
    BY <2>1 DEF Covered
  <2>2. CASE v.st # "gone"
    <3>1. w.st # "gone" /\ v.chan = w.chan
      BY <2>2
    <3>2. ASSUME NEW k, NEW j, Behind(w, k, j) PROVE Behind(v, k, j)
      BY <1>4, <3>1, <3>2 DEF Behind
    <3> QED BY <1>1, <3>1, <3>2 DEF Covered
  <2> QED BY <2>1, <2>2
<1> QED BY <1>5, <1>6, <1>7

LEMMA WriterRests ==
  ASSUME NEW f, NEW r, NEW w \in Writer, NEW v \in Writer, WriterInv(f, r, w), PlaceInv(v),
         v.queued = w.queued, v.pending = w.pending, v.written = w.written, v.meta = w.meta,
         v.chan = w.chan \/ (v.chan = <<>> /\ v.st = "gone"),
         v.cmd = w.cmd \/ v.cmd.op = "none",
         v.st \in {w.st, "gone"}, w.st # "gone" \/ v.st = "gone",
         v.at = "items" => ~v.meta, v.at = "meta" => v.meta, v.st # "none"
  PROVE  WriterInv(f, r, v)
<1>1. OwnInv(f, v) /\ ItemsInOrder(f, v) /\ Covered(f, v)
  BY SameItems DEF WriterInv
<1>2. MetaInv(f, r, v)
  BY DEF WriterInv, MetaInv, PlaceInv
<1> QED BY <1>1, <1>2 DEF WriterInv

LEMMA SuffixTyped ==
  ASSUME NEW s \in Seq(Nat), NEW n \in Nat, n <= Len(s)
  PROVE  LET p == SubSeq(s, n + 1, Len(s)) IN
         /\ p \in Seq(Nat) /\ Len(p) = Len(s) - n
         /\ \A k \in 1 .. Len(p) : n + k \in n + 1 .. Len(s) /\ p[k] = s[n + k]
         /\ \A k \in n + 1 .. Len(s) : k - n \in 1 .. Len(p) /\ p[k - n] = s[k]
         /\ (n = Len(s) => p = <<>>)
<1> DEFINE p == SubSeq(s, n + 1, Len(s))
<1>1. Len(s) \in Nat /\ \A k \in n + 1 .. Len(s) : s[k] \in Nat
  OBVIOUS
<1>2. p \in Seq(Nat) /\ Len(p) = Len(s) - n
  BY <1>1
<1>3. \A k \in 1 .. Len(p) : p[k] = s[n + k]
  BY <1>1, <1>2
<1> HIDE DEF p
<1>4. \A k \in 1 .. Len(p) : n + k \in n + 1 .. Len(s)
  BY <1>1, <1>2
<1>5. \A k \in n + 1 .. Len(s) : k - n \in 1 .. Len(p) /\ n + (k - n) = k
  BY <1>1, <1>2
<1>6. \A k \in n + 1 .. Len(s) : p[k - n] = s[k]
  BY <1>3, <1>5
<1>7. n = Len(s) => p = <<>>
  BY <1>1, <1>2
<1> QED BY <1>2, <1>3, <1>4, <1>5, <1>6, <1>7 DEF p

\* pending_items.drain: what is on the file leaves the buffer.
LEMMA WriterDrains ==
  ASSUME NEW f, NEW r, NEW w \in Writer, WriterInv(f, r, w)
  PROVE  /\ Drained(w) \in Writer /\ WriterInv(f, r, Drained(w)) /\ Drained(w).written = 0
         /\ Drained(w).queued = w.queued /\ Drained(w).st = w.st /\ Drained(w).cmd = w.cmd
         /\ Drained(w).chan = w.chan /\ Drained(w).at = w.at /\ Drained(w).meta = w.meta
         /\ (w.written = Len(w.pending) => Drained(w).pending = <<>>)
<1> DEFINE n == w.written
           p == SubSeq(w.pending, n + 1, Len(w.pending))
           v == Drained(w)
<1>0. /\ w.pending \in Seq(Nat) /\ Len(w.pending) \in Nat /\ n \in Nat /\ n <= Len(w.pending)
      /\ DOMAIN w.pending = 1 .. Len(w.pending)
  BY WriterTyped DEF WriterInv, PlaceInv
<1>1. /\ p \in Seq(Nat) /\ Len(p) = Len(w.pending) - n
      /\ \A k \in 1 .. Len(p) : n + k \in n + 1 .. Len(w.pending) /\ p[k] = w.pending[n + k]
      /\ \A k \in n + 1 .. Len(w.pending) : k - n \in 1 .. Len(p) /\ p[k - n] = w.pending[k]
  BY <1>0, SuffixTyped
<1>2. n = Len(w.pending) => p = <<>>
  BY <1>0, SuffixTyped
<1>3. /\ v \in Writer /\ v.pending = p /\ v.written = 0 /\ v.queued = w.queued /\ v.st = w.st /\ v.cmd = w.cmd
      /\ v.chan = w.chan /\ v.at = w.at /\ v.meta = w.meta
  BY <1>1 DEF Drained, Writer
<1> HIDE DEF p, v, n
<1>4. Numbers(v) = Numbers(w) /\ InChannel(v) = InChannel(w)
  BY <1>3 DEF Numbers, InChannel
<1>5. \A k \in 1 .. Len(p) : n + k \in n + 1 .. Len(w.pending) /\ p[k] = w.pending[n + k]
  BY <1>1
<1>6. Buffered(v) = Buffered(w)
  <2>1. ASSUME NEW k \in n + 1 .. Len(w.pending) PROVE \E j \in 1 .. Len(p) : p[j] = w.pending[k]
    BY <1>1
  <2>2. Buffered(v) = {p[j] : j \in 1 .. Len(p)}
    BY <1>1, <1>3 DEF Buffered
  <2>3. Buffered(w) = {w.pending[j] : j \in n + 1 .. Len(w.pending)}
    BY DEF Buffered, n
  <2> QED BY <1>5, <2>1, <2>2, <2>3
<1>7. PlaceInv(v)
  BY <1>1, <1>3 DEF WriterInv, PlaceInv
<1>8. MetaInv(f, r, v)
  BY <1>3 DEF WriterInv, MetaInv
<1>9. OwnInv(f, v)
  <2>1. \A k \in DOMAIN v.pending : v.pending[k] \in Numbers(v)
    <3>1. \A k \in 1 .. Len(p) : n + k \in DOMAIN w.pending /\ p[k] = w.pending[n + k]
      BY <1>0, <1>5
    <3>2. DOMAIN p = 1 .. Len(p)
      BY <1>1
    <3> QED BY <1>3, <1>4, <3>1, <3>2 DEF WriterInv, OwnInv
  <2>2. \A k \in 1 .. v.written : OnFile(f, v.pending[k])
    BY <1>3
  <2> QED BY <1>3, <1>4, <2>1, <2>2 DEF WriterInv, OwnInv
<1>10. ItemsInOrder(f, v)
  <2>1. ASSUME NEW j \in v.written + 1 .. Len(v.pending), NEW k \in v.written + 1 .. Len(v.pending), j < k
        PROVE  v.pending[j] < v.pending[k]
    <3>1. j \in 1 .. Len(p) /\ k \in 1 .. Len(p)
      BY <1>3
    <3>2. n + j < n + k
      BY <1>0, <2>1, <3>1
    <3>3. n + j \in n + 1 .. Len(w.pending) /\ n + k \in n + 1 .. Len(w.pending)
      BY <1>5, <3>1
    <3>4. w.pending[n + j] < w.pending[n + k]
      BY <3>2, <3>3 DEF WriterInv, ItemsInOrder, n
    <3> QED BY <1>3, <1>5, <3>1, <3>4
  <2> QED BY <1>3, <1>4, <1>6, <2>1 DEF WriterInv, ItemsInOrder
<1>11. Covered(f, v)
  <2>1. ASSUME NEW k, NEW j, Behind(w, k, j) PROVE Behind(v, k, j)
    BY <1>3, <2>1 DEF Behind
  <2> QED BY <1>3, <1>6, <2>1 DEF WriterInv, Covered
<1> QED BY <1>2, <1>3, <1>7, <1>8, <1>9, <1>10, <1>11 DEF WriterInv, v, n

\* A recorder that has just been opened.
LEMMA WriterOpens ==
  /\ Created \in Writer /\ Resumed \in Writer /\ Unopened \in Writer
  /\ \A r \in {1} : WriterInv(<<>>, r, Created)
  /\ \A f, r : HasMeta(f) => WriterInv(f, r, Resumed)
  /\ \A f, r : WriterInv(f, r, Unopened)
  /\ Numbers(Created) = {} /\ Numbers(Resumed) = {} /\ Numbers(Unopened) = {}
  /\ Created.queued = <<>> /\ Resumed.queued = <<>> /\ Unopened.queued = <<>>
<1>1. /\ <<>> \in Seq(Nat) /\ <<>> \in Seq(Command) /\ Len(<<>>) = 0 /\ DOMAIN <<>> = {}
      /\ Cmd("none", 0, NoCaller) \in Command /\ Cmd("none", 0, NoCaller).op = "none"
  BY DEF Cmd, Command
<1> DEFINE Empty(w) ==
       /\ w \in Writer /\ w.pending = <<>> /\ w.chan = <<>> /\ w.queued = <<>> /\ w.at = "recv"
       /\ w.cmd.op = "none" /\ w.written = 0
<1>2. ASSUME NEW w, Empty(w), NEW f, NEW r, MetaInv(f, r, w)
      PROVE  WriterInv(f, r, w) /\ Numbers(w) = {}
  <2>1. Numbers(w) = {} /\ Buffered(w) = {} /\ InChannel(w) = {}
    BY <1>1, <1>2 DEF Numbers, Buffered, InChannel
  <2>2. PlaceInv(w)
    BY <1>1, <1>2 DEF PlaceInv
  <2>3. OwnInv(f, w)
    BY <1>1, <1>2 DEF OwnInv, Barriers
  <2>4. ItemsInOrder(f, w)
    BY <1>1, <1>2, <2>1 DEF ItemsInOrder
  <2>5. Covered(f, w)
    BY <1>1, <1>2 DEF Covered
  <2> QED BY <1>2, <2>1, <2>2, <2>3, <2>4, <2>5 DEF WriterInv
<1>3. /\ Empty(Unopened) /\ ~Unopened.meta /\ Unopened.st = "none"
      /\ Empty(Created) /\ Created.meta /\ Created.st = "up"
      /\ Empty(Resumed) /\ ~Resumed.meta /\ Resumed.st = "up"
  BY <1>1 DEF Unopened, Created, Resumed, Writer
<1>4. \A f, r : MetaInv(f, r, Unopened)
  BY <1>3 DEF MetaInv
<1>5. \A f, r : HasMeta(f) => MetaInv(f, r, Resumed)
  BY <1>3 DEF MetaInv
<1>6. MetaInv(<<>>, 1, Created)
  BY <1>1, <1>3 DEF MetaInv, NoBody
<1>7. (\A f, r : WriterInv(f, r, Unopened)) /\ Numbers(Unopened) = {}
  BY <1>2, <1>3, <1>4
<1>8. (\A f, r : HasMeta(f) => WriterInv(f, r, Resumed))
  BY <1>2, <1>3, <1>5
<1>9. WriterInv(<<>>, 1, Created)
  BY <1>2, <1>3, <1>6
<1>10. Numbers(Created) = {} /\ Numbers(Resumed) = {}
  BY <1>1, <1>3 DEF Numbers
<1> QED BY <1>3, <1>7, <1>8, <1>9, <1>10

LEMMA Appended ==
  ASSUME NEW S, NEW s \in Seq(S), NEW x \in S
  PROVE  LET q == Append(s, x) IN
         /\ q \in Seq(S) /\ Len(s) \in Nat /\ Len(q) = Len(s) + 1 /\ DOMAIN s = 1 .. Len(s) /\ DOMAIN q = 1 .. Len(s) + 1
         /\ \A k \in DOMAIN s : k \in DOMAIN q /\ q[k] = s[k]
         /\ q[Len(s) + 1] = x /\ Len(s) + 1 \in DOMAIN q
         /\ \A k \in DOMAIN q : k \in DOMAIN s \/ k = Len(s) + 1
OBVIOUS

\* A barrier enters the channel: it counts all the items that did before.
LEMMA BarrierSent ==
  ASSUME NEW f, NEW r, NEW w \in Writer, WriterInv(f, r, w), w.st = "up",
         NEW x \in Command, x.op \in Barriers, x.n = Len(w.queued)
  PROVE  LET v == [w EXCEPT !.chan = Append(@, x)] IN
         v \in Writer /\ WriterInv(f, r, v) /\ v.queued = w.queued /\ v.meta = w.meta
<1> DEFINE q == Append(w.chan, x)
           v == [w EXCEPT !.chan = q]
           n == Len(w.chan) + 1
<1>0. /\ q \in Seq(Command) /\ DOMAIN w.chan = 1 .. Len(w.chan) /\ DOMAIN q = 1 .. n /\ q[n] = x /\ Len(w.chan) \in Nat
      /\ \A k \in DOMAIN w.chan : k \in DOMAIN q /\ q[k] = w.chan[k]
      /\ \A k \in DOMAIN q : k \in DOMAIN w.chan \/ k = n
  BY WriterTyped, Appended
<1>1. v \in Writer /\ v.chan = q
  BY <1>0 DEF Writer
<1>2. /\ v.queued = w.queued /\ v.pending = w.pending /\ v.written = w.written /\ v.cmd = w.cmd
      /\ v.meta = w.meta /\ v.at = w.at /\ v.st = w.st
  BY DEF Writer
<1> HIDE DEF v, q, n
<1>3. Numbers(v) = Numbers(w) /\ Buffered(v) = Buffered(w)
  BY <1>2 DEF Numbers, Buffered
<1>4. x.op # "add"
  BY DEF Barriers
<1>5. InChannel(v) = InChannel(w)
  BY <1>0, <1>1, <1>4 DEF InChannel
<1>6. PlaceInv(v) /\ MetaInv(f, r, v)
  BY <1>2 DEF WriterInv, PlaceInv, MetaInv
<1>7. OwnInv(f, v)
  <2>1. Len(w.queued) \in Nat
    BY WriterTyped
  <2> QED BY <1>0, <1>1, <1>2, <1>3, <1>4, <2>1 DEF WriterInv, OwnInv
<1>8. ItemsInOrder(f, v)
  <2>1. \A j, k \in DOMAIN v.chan :
          j < k /\ v.chan[j].op = "add" /\ v.chan[k].op = "add" => v.chan[j].n < v.chan[k].n
    BY <1>0, <1>1, <1>4 DEF WriterInv, ItemsInOrder
  <2> QED BY <1>2, <1>3, <1>5, <2>1 DEF WriterInv, ItemsInOrder
<1>9. Covered(f, v)
  <2>1. ASSUME NEW k, NEW j \in DOMAIN w.chan, Behind(w, k, j) PROVE j \in DOMAIN v.chan /\ Behind(v, k, j)
    <3>1. \A i \in 1 .. j : i \in DOMAIN w.chan /\ v.chan[i] = w.chan[i]
      BY <1>0, <1>1
    <3>2. j \in 1 .. j
      BY <1>0
    <3> QED BY <1>0, <1>1, <1>2, <2>1, <3>1, <3>2 DEF Behind
  <2> QED BY <1>2, <1>3, <2>1 DEF WriterInv, Covered
<1> QED BY <1>1, <1>2, <1>6, <1>7, <1>8, <1>9 DEF WriterInv, v, q

\* An item enters the channel with a number above all others.
LEMMA ItemSent ==
  ASSUME NEW f \in Seq(Line), NEW r, NEW w \in Writer, WriterInv(f, r, w), w.st = "up",
         NEW x \in Command, x.op = "add", \A i \in Numbers(w) : i < x.n, ~OnFile(f, x.n),
         NEW v \in Writer, v.chan = Append(w.chan, x), v.queued = Append(w.queued, x.n), v.pending = w.pending,
         v.written = w.written, v.cmd = w.cmd, v.meta = w.meta, v.at = w.at, v.st = w.st
  PROVE  WriterInv(f, r, v) /\ Numbers(v) = Numbers(w) \cup {x.n}
<1> DEFINE q == Append(w.chan, x)
           u == Append(w.queued, x.n)
           n == Len(w.chan) + 1
           m == Len(w.queued) + 1
<1>t. /\ w.chan \in Seq(Command) /\ w.queued \in Seq(Nat) /\ x.n \in Nat
      /\ \A i \in Numbers(w) : i \in Nat
  <2>1. w.chan \in Seq(Command) /\ w.queued \in Seq(Nat) /\ \A k \in DOMAIN w.queued : w.queued[k] \in Nat
    BY WriterTyped
  <2>2. x.n \in Nat
    BY DEF Command
  <2> QED BY <2>1, <2>2 DEF Numbers
<1>0. /\ q \in Seq(Command) /\ DOMAIN w.chan = 1 .. Len(w.chan) /\ DOMAIN q = 1 .. n /\ q[n] = x /\ Len(w.chan) \in Nat
      /\ \A k \in DOMAIN w.chan : k \in DOMAIN q /\ q[k] = w.chan[k]
      /\ \A k \in DOMAIN q : k \in DOMAIN w.chan \/ k = n
  BY <1>t, Appended
<1>1. /\ u \in Seq(Nat) /\ DOMAIN w.queued = 1 .. Len(w.queued) /\ DOMAIN u = 1 .. m /\ u[m] = x.n /\ Len(w.queued) \in Nat
      /\ Len(u) = m
      /\ \A k \in DOMAIN w.queued : k \in DOMAIN u /\ u[k] = w.queued[k]
      /\ \A k \in DOMAIN u : k \in DOMAIN w.queued \/ k = m
  BY <1>t, Appended
<1>2. v \in Writer /\ v.chan = q /\ v.queued = u
  OBVIOUS
<1> HIDE DEF q, u
<1>3. /\ v.pending = w.pending /\ v.written = w.written /\ v.cmd = w.cmd
      /\ v.meta = w.meta /\ v.at = w.at /\ v.st = w.st
  OBVIOUS
<1>4. Numbers(v) = Numbers(w) \cup {x.n}
  <2>1. m \in DOMAIN u
    BY <1>1
  <2> HIDE DEF m
  <2>2. {u[k] : k \in DOMAIN u} = {w.queued[k] : k \in DOMAIN w.queued} \cup {x.n}
    <3>1. \A k \in DOMAIN u : u[k] \in {w.queued[i] : i \in DOMAIN w.queued} \cup {x.n}
      BY <1>1
    <3>2. \A i \in DOMAIN w.queued : w.queued[i] \in {u[k] : k \in DOMAIN u}
      BY <1>1
    <3>3. x.n \in {u[k] : k \in DOMAIN u}
      BY <1>1, <2>1
    <3> QED BY <3>1, <3>2, <3>3
  <2> QED BY <1>2, <2>2 DEF Numbers
<1>5. Buffered(v) = Buffered(w) /\ InChannel(v) = InChannel(w) \cup {x.n}
  <2>1. Buffered(v) = Buffered(w)
    BY <1>3 DEF Buffered
  <2>2. InChannel(v) = InChannel(w) \cup {x.n}
    BY <1>0, <1>2 DEF InChannel
  <2> QED BY <2>1, <2>2
<1>6. Buffered(w) \subseteq Numbers(w) /\ InChannel(w) \subseteq Numbers(w)
  <2>1. /\ \A k \in DOMAIN w.pending : w.pending[k] \in Numbers(w)
        /\ \A k \in w.written + 1 .. Len(w.pending) : k \in DOMAIN w.pending
    BY WriterTyped DEF WriterInv, OwnInv
  <2>2. Buffered(w) \subseteq Numbers(w)
    BY <2>1 DEF Buffered
  <2>3. InChannel(w) \subseteq Numbers(w)
    BY DEF WriterInv, OwnInv, InChannel
  <2> QED BY <2>2, <2>3
<1>7. PlaceInv(v) /\ MetaInv(f, r, v)
  BY <1>3 DEF WriterInv, PlaceInv, MetaInv
<1>8. OwnInv(f, v)
  <2>1. x.op \notin Barriers
    BY DEF Barriers
  <2>2. \A k \in DOMAIN v.chan :
       /\ v.chan[k].op = "add" => v.chan[k].n \in Numbers(v)
       /\ v.chan[k].op \in Barriers => v.chan[k].n <= Len(v.queued)
    <3>1. ASSUME NEW k \in DOMAIN w.chan
          PROVE  /\ w.chan[k].op = "add" => w.chan[k].n \in Numbers(v)
                 /\ w.chan[k].op \in Barriers => w.chan[k].n <= Len(u)
      <4>1. w.chan[k].n \in Nat
        BY WriterTyped
      <4> QED BY <1>1, <1>4, <4>1 DEF WriterInv, OwnInv
    <3>2. x.n \in Numbers(v)
      BY <1>4
    <3> QED BY <1>0, <1>2, <2>1, <3>1, <3>2
  <2>3. v.cmd.op \in Barriers => v.cmd.n <= Len(v.queued)
    <3>1. w.cmd.n \in Nat
      BY WriterTyped
    <3> QED BY <1>1, <1>2, <1>3, <3>1 DEF WriterInv, OwnInv
  <2> QED BY <1>3, <1>4, <2>2, <2>3 DEF WriterInv, OwnInv
<1>9. ItemsInOrder(f, v)
  <2>1. \A i, j \in Numbers(v) : i < j /\ OnFile(f, j) => OnFile(f, i)
    BY <1>t, <1>4 DEF WriterInv, ItemsInOrder
  <2>2. ASSUME NEW j \in DOMAIN f, NEW k \in DOMAIN f, j < k, f[j].kind = "item", f[j].n \in Numbers(v), f[k].kind = "item",
               f[k].n \in Numbers(v)
        PROVE  f[j].n < f[k].n
    <3>1. \A i \in DOMAIN f : f[i].kind = "item" => f[i] = ItemLine(f[i].n)
      <4>1. \A l \in Line : l.kind = "item" => l = ItemLine(l.n)
        BY DEF Line, ItemLine
      <4> QED BY <4>1
    <3>2. f[j].n # x.n /\ f[k].n # x.n
      BY <2>2, <3>1 DEF OnFile
    <3> QED BY <1>4, <2>2, <3>2 DEF WriterInv, ItemsInOrder
  <2>3. \A j, k \in v.written + 1 .. Len(v.pending) : j < k => v.pending[j] < v.pending[k]
    BY <1>3 DEF WriterInv, ItemsInOrder
  <2>4. \A j, k \in DOMAIN v.chan :
       j < k /\ v.chan[j].op = "add" /\ v.chan[k].op = "add" => v.chan[j].n < v.chan[k].n
    <3>1. \A k \in DOMAIN w.chan : w.chan[k].op = "add" => w.chan[k].n < x.n
      BY DEF WriterInv, OwnInv
    <3>2. ASSUME NEW j \in DOMAIN q, NEW k \in DOMAIN q, j < k, q[j].op = "add", q[k].op = "add"
          PROVE  q[j].n < q[k].n
      <4>1. j \in DOMAIN w.chan
        BY <1>0, <3>2
      <4>2. CASE k \in DOMAIN w.chan
        <5>1. q[j] = w.chan[j] /\ q[k] = w.chan[k]
          BY <1>0, <4>1, <4>2
        <5>2. \A a, b \in DOMAIN w.chan : a < b /\ w.chan[a].op = "add" /\ w.chan[b].op = "add" => w.chan[a].n < w.chan[b].n
          BY DEF WriterInv, ItemsInOrder
        <5> QED BY <3>2, <4>1, <4>2, <5>1, <5>2
      <4>3. CASE k = n
        BY <1>0, <3>1, <3>2, <4>1, <4>3
      <4> QED BY <1>0, <4>2, <4>3
    <3> QED BY <1>2, <3>2
  <2>5. \A i \in Numbers(v), j \in Buffered(v) \cup InChannel(v) : OnFile(f, i) => i < j
    BY <1>4, <1>5 DEF WriterInv, ItemsInOrder
  <2>6. \A i \in Buffered(v), j \in InChannel(v) : i < j
    BY <1>5, <1>6 DEF WriterInv, ItemsInOrder
  <2> QED BY <2>1, <2>2, <2>3, <2>4, <2>5, <2>6 DEF ItemsInOrder
<1>10. Covered(f, v)
  <2>1. ASSUME NEW k \in DOMAIN w.queued, NEW j \in DOMAIN w.chan, Behind(w, k, j) PROVE j \in DOMAIN v.chan /\ Behind(v, k, j)
    <3>1. \A i \in 1 .. j : i \in DOMAIN w.chan /\ v.chan[i] = w.chan[i]
      BY <1>0, <1>2, SMTT(30)
    <3>2. j \in 1 .. j /\ v.queued[k] = w.queued[k]
      BY <1>0, <1>1, <1>2
    <3> QED BY <1>0, <1>2, <1>3, <2>1, <3>1, <3>2 DEF Behind
  <2>2. n \in DOMAIN v.chan /\ Behind(v, m, n)
    <3>1. n \in DOMAIN q /\ q[n] = x /\ u[m] = x.n
      BY <1>0, <1>1
    <3>2. \A i \in 1 .. n : q[i].op \in Barriers => q[i].n < m
      <4>1. x.op \notin Barriers
        BY DEF Barriers
      <4>2. \A i \in DOMAIN w.chan : w.chan[i].n \in Nat /\ (w.chan[i].op \in Barriers => w.chan[i].n <= Len(w.queued))
        BY WriterTyped DEF WriterInv, OwnInv
      <4>3. \A i \in DOMAIN w.chan : w.chan[i].op \in Barriers => w.chan[i].n < m
        BY <1>1, <4>2
      <4> QED BY <1>0, <4>1, <4>3
    <3>3. w.cmd.op \in Barriers => w.cmd.n < m
      <4>1. w.cmd.n \in Nat
        BY WriterTyped
      <4> QED BY <1>1, <4>1 DEF WriterInv, OwnInv
    <3> QED BY <1>2, <1>3, <3>1, <3>2, <3>3 DEF Behind
  <2> HIDE DEF n, m
  <2> QED BY <1>1, <1>2, <1>3, <1>5, <2>1, <2>2 DEF WriterInv, Covered
<1> QED BY <1>2, <1>3, <1>4, <1>7, <1>8, <1>9, <1>10 DEF WriterInv, q, u

LEMMA FirstTaken ==
  ASSUME NEW S, NEW s \in Seq(S), s # <<>>
  PROVE  /\ Head(s) = s[1] /\ Head(s) \in S /\ 1 \in DOMAIN s
         /\ Tail(s) \in Seq(S) /\ Len(s) \in Nat /\ Len(Tail(s)) = Len(s) - 1
         /\ DOMAIN s = 1 .. Len(s) /\ DOMAIN Tail(s) = 1 .. Len(s) - 1
         /\ \A k \in DOMAIN Tail(s) : k \in Nat /\ k + 1 \in DOMAIN s /\ Tail(s)[k] = s[k + 1]
         /\ \A k \in DOMAIN s : k = 1 \/ (k - 1 \in DOMAIN Tail(s) /\ Tail(s)[k - 1] = s[k])
<1>1. /\ Head(s) = s[1] /\ Head(s) \in S /\ Tail(s) \in Seq(S) /\ Len(s) \in Nat /\ Len(s) > 0 /\ Len(Tail(s)) = Len(s) - 1
      /\ DOMAIN s = 1 .. Len(s)
  OBVIOUS
<1>2. DOMAIN Tail(s) = 1 .. Len(s) - 1
  BY <1>1
<1>3. \A k \in 1 .. Len(s) - 1 : Tail(s)[k] = s[k + 1]
  BY <1>1
<1>4. \A k \in 1 .. Len(s) - 1 : k \in Nat /\ k + 1 \in 1 .. Len(s)
  BY <1>1
<1>5. \A k \in 1 .. Len(s) : k = 1 \/ (k - 1 \in 1 .. Len(s) - 1 /\ (k - 1) + 1 = k)
  BY <1>1
<1>6. \A k \in 1 .. Len(s) : k = 1 \/ Tail(s)[k - 1] = s[k]
  BY <1>3, <1>5
<1> QED BY <1>1, <1>2, <1>3, <1>4, <1>5, <1>6

\* rollout_writer takes a command; an item goes to the end of the buffer.
LEMMA CommandTaken ==
  ASSUME NEW f, NEW r, NEW w \in Writer, WriterInv(f, r, w), w.st = "up", w.at = "recv", w.chan # <<>>,
         NEW v \in Writer, v.chan = Tail(w.chan), v.cmd = Head(w.chan), v.queued = w.queued, v.written = 0,
         v.meta = w.meta, v.st = w.st, v.at = w.at,
         v.pending = IF v.cmd.op = "add" THEN Append(w.pending, v.cmd.n) ELSE w.pending
  PROVE  WriterInv(f, r, v)
<1> DEFINE q == Tail(w.chan)
           x == Head(w.chan)
           p == IF x.op = "add" THEN Append(w.pending, x.n) ELSE w.pending
           n == Len(w.pending) + 1
<1>0. /\ w.chan \in Seq(Command) /\ w.pending \in Seq(Nat) /\ Len(w.pending) \in Nat /\ DOMAIN w.pending = 1 .. Len(w.pending)
      /\ \A c \in Command : c.n \in Nat
      /\ w.written = 0
  BY WriterTyped DEF WriterInv, PlaceInv, Command
<1>1. /\ x = w.chan[1] /\ x \in Command /\ 1 \in DOMAIN w.chan /\ q \in Seq(Command)
      /\ DOMAIN w.chan = 1 .. Len(w.chan) /\ DOMAIN q = 1 .. Len(w.chan) - 1 /\ Len(w.chan) \in Nat
      /\ \A k \in DOMAIN q : k \in Nat /\ k + 1 \in DOMAIN w.chan /\ q[k] = w.chan[k + 1]
      /\ \A k \in DOMAIN w.chan : k = 1 \/ (k - 1 \in DOMAIN q /\ q[k - 1] = w.chan[k])
  BY <1>0, FirstTaken
<1>2. /\ p \in Seq(Nat) /\ DOMAIN p = 1 .. Len(p) /\ Len(p) \in Nat
      /\ \A k \in DOMAIN w.pending : k \in DOMAIN p /\ p[k] = w.pending[k]
      /\ \A k \in DOMAIN p : k \in DOMAIN w.pending \/ (k = n /\ x.op = "add" /\ p[n] = x.n)
      /\ x.op = "add" => n \in DOMAIN p /\ p[n] = x.n
  <2>1. CASE x.op = "add"
    <3>1. x.n \in Nat
      BY <1>0, <1>1
    <3> QED BY <1>0, <2>1, <3>1, Appended
  <2>2. CASE x.op # "add"
    BY <1>0, <2>2
  <2> QED BY <2>1, <2>2
<1>4. v \in Writer /\ v.chan = q /\ v.cmd = x /\ v.pending = p
  OBVIOUS
<1> HIDE DEF q, p, n, x
<1>5. v.queued = w.queued /\ v.written = 0 /\ v.meta = w.meta /\ v.st = w.st /\ v.at = w.at
  OBVIOUS
<1>7. Numbers(v) = Numbers(w)
  BY <1>5 DEF Numbers
<1>s. v.written + 1 .. Len(v.pending) = DOMAIN p /\ w.written + 1 .. Len(w.pending) = DOMAIN w.pending
  <2>1. 0 + 1 = 1
    OBVIOUS
  <2> QED BY <1>0, <1>2, <1>4, <1>5, <2>1
<1>8. \A k : k \in Buffered(v) <=> k \in Buffered(w) \/ (x.op = "add" /\ k = x.n)
  <2>1. Buffered(w) = {w.pending[k] : k \in DOMAIN w.pending}
    BY <1>s DEF Buffered
  <2>2. Buffered(v) = {p[k] : k \in DOMAIN p}
    BY <1>4, <1>s DEF Buffered
  <2> QED BY <1>2, <2>1, <2>2
<1>9. \A k : k \in InChannel(v) => \E j \in DOMAIN w.chan : j > 1 /\ w.chan[j].op = "add" /\ w.chan[j].n = k
  BY <1>1, <1>4 DEF InChannel
<1>10. InChannel(v) \subseteq InChannel(w) /\ (x.op = "add" => x.n \in InChannel(w))
  <2>1. InChannel(v) \subseteq InChannel(w)
    <3>1. ASSUME NEW i \in InChannel(v) PROVE i \in InChannel(w)
      <4>1. PICK j \in DOMAIN w.chan : j > 1 /\ w.chan[j].op = "add" /\ w.chan[j].n = i
        BY <1>9
      <4> QED BY <4>1 DEF InChannel
    <3> QED BY <3>1
  <2>2. x.op = "add" => x.n \in InChannel(w)
    BY <1>1 DEF InChannel
  <2> QED BY <2>1, <2>2
<1>11. PlaceInv(v) /\ MetaInv(f, r, v)
  <2>1. PlaceInv(v)
    <3>1. v.at = "recv" /\ v.st = "up" /\ v.written = 0 /\ Len(v.pending) \in Nat
      BY <1>2, <1>4, <1>5
    <3> QED BY <3>1 DEF PlaceInv
  <2>2. MetaInv(f, r, v)
    BY <1>5 DEF WriterInv, MetaInv
  <2> QED BY <2>1, <2>2
<1>12. OwnInv(f, v)
  <2>1. \A k \in DOMAIN v.pending : v.pending[k] \in Numbers(v)
    <3>1. x.op = "add" => x.n \in Numbers(w)
      BY <1>1 DEF WriterInv, OwnInv
    <3> QED BY <1>2, <1>4, <1>7, <3>1 DEF WriterInv, OwnInv
  <2>2. \A k \in DOMAIN v.chan :
       /\ v.chan[k].op = "add" => v.chan[k].n \in Numbers(v)
       /\ v.chan[k].op \in Barriers => v.chan[k].n <= Len(v.queued)
    BY <1>1, <1>4, <1>5, <1>7 DEF WriterInv, OwnInv
  <2>3. v.cmd.op \in Barriers => v.cmd.n <= Len(v.queued)
    BY <1>1, <1>4, <1>5 DEF WriterInv, OwnInv
  <2>4. \A k \in 1 .. v.written : OnFile(f, v.pending[k])
    BY <1>5
  <2> QED BY <2>1, <2>2, <2>3, <2>4 DEF OwnInv
<1>13. ItemsInOrder(f, v)
  <2>1. ASSUME NEW j \in v.written + 1 .. Len(v.pending), NEW k \in v.written + 1 .. Len(v.pending), j < k
        PROVE  v.pending[j] < v.pending[k]
    <3>1. j \in DOMAIN p /\ k \in DOMAIN p
      BY <1>s
    <3>2. j \in DOMAIN w.pending
      BY <1>0, <1>2, <2>1, <3>1 DEF n
    <3>3. CASE k \in DOMAIN w.pending
      <4>1. w.pending[j] < w.pending[k]
        BY <1>s, <2>1, <3>2, <3>3 DEF WriterInv, ItemsInOrder
      <4> QED BY <1>2, <1>4, <3>2, <3>3, <4>1
    <3>4. CASE k \notin DOMAIN w.pending
      <4>1. x.op = "add" /\ p[k] = x.n
        BY <1>2, <3>1, <3>4
      <4>2. w.pending[j] \in Buffered(w)
        BY <1>s, <3>2 DEF Buffered
      <4>3. w.pending[j] < x.n
        BY <1>10, <4>1, <4>2 DEF WriterInv, ItemsInOrder
      <4> QED BY <1>2, <1>4, <3>2, <4>1, <4>3
    <3> QED BY <3>3, <3>4
  <2>2. ASSUME NEW j \in DOMAIN v.chan, NEW k \in DOMAIN v.chan, j < k, v.chan[j].op = "add", v.chan[k].op = "add"
        PROVE  v.chan[j].n < v.chan[k].n
    <3>1. j + 1 \in DOMAIN w.chan /\ k + 1 \in DOMAIN w.chan /\ j + 1 < k + 1
      BY <1>1, <1>4, <2>2
    <3>2. q[j] = w.chan[j + 1] /\ q[k] = w.chan[k + 1]
      BY <1>1, <1>4
    <3> QED BY <1>4, <2>2, <3>1, <3>2 DEF WriterInv, ItemsInOrder
  <2>3. \A i \in Numbers(v), j \in Buffered(v) \cup InChannel(v) : OnFile(f, i) => i < j
    BY <1>7, <1>8, <1>10 DEF WriterInv, ItemsInOrder
  <2>4. ASSUME NEW i \in Buffered(v), NEW j \in InChannel(v) PROVE i < j
    <3>1. CASE i \in Buffered(w)
      BY <1>10, <3>1 DEF WriterInv, ItemsInOrder
    <3>2. CASE i \notin Buffered(w)
      <4>1. x.op = "add" /\ i = x.n
        BY <1>8, <3>2
      <4>2. PICK k \in DOMAIN w.chan : k > 1 /\ w.chan[k].op = "add" /\ w.chan[k].n = j
        BY <1>9
      <4> QED BY <1>1, <4>1, <4>2 DEF WriterInv, ItemsInOrder
    <3> QED BY <3>1, <3>2
  <2>5. /\ \A i, j \in Numbers(v) : i < j /\ OnFile(f, j) => OnFile(f, i)
        /\ \A j, k \in DOMAIN f :
             /\ j < k
             /\ f[j].kind = "item" /\ f[j].n \in Numbers(v)
             /\ f[k].kind = "item" /\ f[k].n \in Numbers(v)
             => f[j].n < f[k].n
    BY <1>7 DEF WriterInv, ItemsInOrder
  <2> QED BY <2>1, <2>2, <2>3, <2>4, <2>5 DEF ItemsInOrder
<1>14. Covered(f, v)
  <2>1. ASSUME NEW k \in DOMAIN w.queued, NEW j \in DOMAIN w.chan, Behind(w, k, j)
        PROVE  w.queued[k] \in Buffered(v) \/ \E i \in DOMAIN v.chan : Behind(v, k, i)
    <3>1. CASE j = 1
      BY <1>1, <1>8, <2>1, <3>1 DEF Behind
    <3>2. CASE j # 1
      <4>1. j - 1 \in DOMAIN q /\ q[j - 1] = w.chan[j] /\ 1 \in 1 .. j
        BY <1>1, <3>2
      <4>2. ASSUME NEW i \in 1 .. j - 1, q[i].op \in Barriers PROVE q[i].n < k
        <5>1. i \in DOMAIN q /\ i + 1 \in 1 .. j
          BY <1>1, <4>1
        <5>2. q[i] = w.chan[i + 1]
          BY <1>1, <5>1
        <5> QED BY <2>1, <4>2, <5>1, <5>2 DEF Behind
      <4>3. x.op \in Barriers => x.n < k
        BY <1>1, <2>1, <4>1 DEF Behind
      <4>4. q[j - 1].op = "add" /\ q[j - 1].n = w.queued[k]
        BY <2>1, <4>1 DEF Behind
      <4>5. Behind(v, k, j - 1)
        BY <1>4, <1>5, <4>2, <4>3, <4>4 DEF Behind
      <4> QED BY <1>4, <4>1, <4>5
    <3> QED BY <3>1, <3>2
  <2> QED BY <1>5, <1>8, <2>1 DEF WriterInv, Covered
<1> QED BY <1>11, <1>12, <1>13, <1>14 DEF WriterInv

\* write_pending_items_once: the next item of the buffer becomes a line.
LEMMA ItemWritten ==
  ASSUME NEW f \in Seq(Line), NEW r, NEW w \in Writer, WriterInv(f, r, w), w.at = "items", w.written < Len(w.pending),
         NEW v \in Writer, v.written = w.written + 1, v.queued = w.queued, v.pending = w.pending, v.chan = w.chan,
         v.cmd = w.cmd, v.meta = w.meta, v.at = w.at, v.st = w.st
  PROVE  /\ WriterInv(Append(f, ItemLine(w.pending[w.written + 1])), r, v)
         /\ w.pending[w.written + 1] \in Numbers(w)
         /\ ItemLine(w.pending[w.written + 1]) \in Line /\ HasMeta(f)
<1> DEFINE n == w.written + 1
           x == w.pending[n]
           g == Append(f, ItemLine(x))
<1>g. g = Append(f, ItemLine(x))
  OBVIOUS
<1> HIDE DEF g
<1>0. /\ n \in DOMAIN w.pending /\ n \in Nat /\ w.written \in Nat /\ Len(w.pending) \in Nat /\ n <= Len(w.pending)
      /\ DOMAIN w.pending = 1 .. Len(w.pending) /\ w.pending \in Seq(Nat) /\ x = w.pending[n]
      /\ \A k \in 1 .. n : k \in 1 .. w.written \/ k = n
      /\ \A k \in n + 1 .. Len(w.pending) : k \in n .. Len(w.pending) /\ k > n
      /\ \A k \in n .. Len(w.pending) : k = n \/ k \in n + 1 .. Len(w.pending)
      /\ n \in n .. Len(w.pending)
  <2>1. w.written \in Nat /\ Len(w.pending) \in Nat /\ DOMAIN w.pending = 1 .. Len(w.pending) /\ w.pending \in Seq(Nat)
    BY WriterTyped
  <2> DEFINE m == Len(w.pending)
  <2>2. m \in Nat /\ w.written < m
    BY <2>1
  <2> HIDE DEF m
  <2>3. n \in Nat /\ n \in 1 .. m /\ n <= m /\ \A k \in 1 .. n : k \in 1 .. w.written \/ k = n
    BY <2>1, <2>2
  <2> HIDE DEF n
  <2>4. /\ \A k \in n + 1 .. m : k \in n .. m /\ k > n
        /\ \A k \in n .. m : k = n \/ k \in n + 1 .. m
        /\ n \in n .. m
    BY <2>2, <2>3
  <2> QED BY <2>1, <2>3, <2>4 DEF m, n
<1>1. x \in Nat /\ ItemLine(x) \in Line
  BY <1>0, WriterTyped DEF ItemLine, Line
<1>2. /\ v \in Writer /\ v.written = n /\ v.queued = w.queued /\ v.pending = w.pending /\ v.chan = w.chan /\ v.cmd = w.cmd
      /\ v.meta = w.meta /\ v.at = w.at /\ v.st = w.st
  OBVIOUS
<1>3. w.st = "up" /\ ~w.meta /\ HasMeta(f)
  BY DEF WriterInv, PlaceInv, MetaInv
<1>4. x \in Numbers(w)
  BY <1>0 DEF WriterInv, OwnInv
<1> HIDE DEF n, x
<1>5. Buffered(w) = {w.pending[k] : k \in n .. Len(w.pending)} /\ Buffered(v) = {w.pending[k] : k \in n + 1 .. Len(w.pending)}
  BY <1>2 DEF Buffered, n
<1>6. /\ x \in Buffered(w)
      /\ Buffered(v) \subseteq Buffered(w)
      /\ \A j \in Buffered(w) : j = x \/ j \in Buffered(v)
  BY <1>0, <1>5
<1>7. \A j \in Buffered(v) : x < j
  <2>1. ASSUME NEW k \in n + 1 .. Len(w.pending) PROVE x < w.pending[k]
    <3>1. k \in n .. Len(w.pending) /\ n < k /\ n \in n .. Len(w.pending)
      BY <1>0
    <3> QED BY <1>0, <3>1 DEF WriterInv, ItemsInOrder, n
  <2> QED BY <1>5, <2>1
<1>8. Numbers(v) = Numbers(w) /\ InChannel(v) = InChannel(w)
  BY <1>2 DEF Numbers, InChannel
<1>9. \A j \in InChannel(w) : x < j
  BY <1>6 DEF WriterInv, ItemsInOrder
<1>10. \A i \in Numbers(w) : OnFile(f, i) => i < x
  BY <1>6 DEF WriterInv, ItemsInOrder
<1>11. ASSUME NEW i PROVE OnFile(g, i) <=> OnFile(f, i) \/ i = x
  <2>1. /\ OnFile(f, i) => OnFile(g, i)
        /\ OnFile(g, i) => OnFile(f, i) \/ ItemLine(x) = ItemLine(i)
        /\ ItemLine(x) = ItemLine(i) => OnFile(g, i)
    BY <1>1, <1>g, OnFileGrows
  <2>2. ItemLine(x) = ItemLine(i) <=> i = x
    BY ItemLineIs
  <2> QED BY <2>1, <2>2
<1>12. PlaceInv(v)
  BY <1>0, <1>2, <1>3 DEF WriterInv, PlaceInv
<1>13. MetaInv(g, r, v)
  <2>1. HasMeta(g)
    BY <1>1, <1>3, <1>g, OnFileGrows
  <2> QED BY <1>2, <1>3, <2>1 DEF MetaInv
<1>14. OwnInv(g, v)
  <2>1. \A k \in 1 .. n : OnFile(g, w.pending[k])
    BY <1>0, <1>11 DEF WriterInv, OwnInv
  <2> QED BY <1>2, <1>8, <2>1 DEF WriterInv, OwnInv
<1>t. \A i \in Numbers(w) : i \in Nat
  BY WriterTyped DEF Numbers
<1>15. ItemsInOrder(g, v)
  <2>1. ASSUME NEW i \in Numbers(w), NEW j \in Numbers(w), i < j, OnFile(g, j) PROVE OnFile(g, i)
    <3>1. CASE OnFile(f, j)
      BY <1>11, <2>1, <3>1 DEF WriterInv, ItemsInOrder
    <3>2. CASE j = x
      <4>1. PICK k \in DOMAIN w.queued : w.queued[k] = i
        BY DEF Numbers
      <4>a. i # x /\ ~(x < i)
        BY <1>1, <1>t, <2>1, <3>2
      <4>2. i \notin Buffered(w)
        BY <1>6, <1>7, <4>a
      <4>3. i \notin InChannel(w)
        BY <1>9, <4>a
      <4>4. ~ \E a \in DOMAIN w.chan : Behind(w, k, a)
        BY <4>1, <4>3 DEF Behind, InChannel
      <4>5. OnFile(f, i)
        BY <1>3, <4>1, <4>2, <4>4 DEF WriterInv, Covered
      <4> QED BY <1>11, <4>5
    <3> QED BY <1>11, <2>1, <3>1, <3>2
  <2>2. ASSUME NEW j \in DOMAIN g, NEW k \in DOMAIN g, j < k,
               g[j].kind = "item", g[j].n \in Numbers(w), g[k].kind = "item", g[k].n \in Numbers(w)
        PROVE  g[j].n < g[k].n
    <3>1. /\ Len(f) \in Nat /\ DOMAIN f = 1 .. Len(f)
          /\ \A a \in DOMAIN f : a \in DOMAIN g /\ g[a] = f[a]
          /\ g[Len(f) + 1] = ItemLine(x)
          /\ \A a \in DOMAIN g : a \in DOMAIN f \/ a = Len(f) + 1
      BY <1>1, <1>g, LineAdded
    <3>2. j \in DOMAIN f
      BY <2>2, <3>1
    <3>3. CASE k \in DOMAIN f
      BY <2>2, <3>1, <3>2, <3>3 DEF WriterInv, ItemsInOrder
    <3>4. CASE k = Len(f) + 1
      <4>1. \A l \in Line : l.kind = "item" => l = ItemLine(l.n)
        BY DEF Line, ItemLine
      <4>2. f[j] \in Line /\ f[j].kind = "item" /\ f[j].n \in Numbers(w)
        BY <2>2, <3>1, <3>2
      <4>3. OnFile(f, f[j].n)
        BY <3>2, <4>1, <4>2 DEF OnFile
      <4> QED BY <1>10, <3>1, <3>2, <3>4, <4>2, <4>3, ItemLineIs
    <3> QED BY <3>1, <3>3, <3>4
  <2>3. \A j, k \in v.written + 1 .. Len(v.pending) : j < k => v.pending[j] < v.pending[k]
    BY <1>0, <1>2 DEF WriterInv, ItemsInOrder, n
  <2>4. \A i \in Numbers(w), j \in Buffered(v) \cup InChannel(w) : OnFile(g, i) => i < j
    BY <1>6, <1>7, <1>9, <1>11 DEF WriterInv, ItemsInOrder
  <2>5. \A i \in Buffered(v), j \in InChannel(v) : i < j
    BY <1>6, <1>8 DEF WriterInv, ItemsInOrder
  <2>6. \A j, k \in DOMAIN v.chan :
          j < k /\ v.chan[j].op = "add" /\ v.chan[k].op = "add" => v.chan[j].n < v.chan[k].n
    BY <1>2 DEF WriterInv, ItemsInOrder
  <2> QED BY <1>8, <2>1, <2>2, <2>3, <2>4, <2>5, <2>6 DEF ItemsInOrder
<1>16. Covered(g, v)
  <2>1. ASSUME NEW k, NEW j, Behind(w, k, j) PROVE Behind(v, k, j)
    BY <1>2, <2>1 DEF Behind
  <2>2. \A i : OnFile(f, i) => OnFile(g, i)
    BY <1>11
  <2>3. \A i \in Buffered(w) : OnFile(g, i) \/ i \in Buffered(v)
    BY <1>6, <1>11
  <2> QED BY <1>2, <2>1, <2>2, <2>3 DEF WriterInv, Covered
<1> QED BY <1>1, <1>3, <1>4, <1>12, <1>13, <1>14, <1>15, <1>16 DEF WriterInv, g, x, n

\* write_session_meta_if_needed.
LEMMA MetaWritten ==
  ASSUME NEW f \in Seq(Line), NEW r, NEW w \in Writer, WriterInv(f, r, w), w.at = "meta",
         NEW g, g = Append(f, MetaLine),
         NEW v \in Writer, v.queued = w.queued, v.pending = w.pending, v.written = w.written, v.chan = w.chan,
         v.cmd = w.cmd, v.st = w.st, v.meta = FALSE, v.at = "items"
  PROVE  WriterInv(g, r, v)
<1>1. /\ v \in Writer /\ v.queued = w.queued /\ v.pending = w.pending /\ v.written = w.written /\ v.chan = w.chan
      /\ v.cmd = w.cmd /\ v.st = w.st /\ v.meta = FALSE /\ v.at = "items"
  OBVIOUS
<1>2. w.st = "up"
  BY DEF WriterInv, PlaceInv
<1>3. MetaLine \in Line /\ MetaLine.kind # "item"
  BY DEF MetaLine, Line
<1>4. OwnInv(g, w) /\ ItemsInOrder(g, w) /\ Covered(g, w)
  BY <1>3, ItemsStay
<1>5. OwnInv(g, v) /\ ItemsInOrder(g, v) /\ Covered(g, v)
  BY <1>1, <1>2, <1>4, SameItems
<1>6. PlaceInv(v)
  BY <1>1, <1>2 DEF WriterInv, PlaceInv
<1>7. HasMeta(g)
  BY <1>3, OnFileGrows
<1>8. MetaInv(g, r, v)
  BY <1>1, <1>7 DEF MetaInv
<1> QED BY <1>1, <1>2, <1>5, <1>6, <1>8 DEF WriterInv

\* What is left of a writer that has ended is what it had accepted.
LEMMA WriterEnds ==
  ASSUME NEW f, NEW r, NEW w \in Writer, WriterInv(f, r, w), NEW v, v = Gone(w)
  PROVE  v \in Writer /\ WriterInv(f, r, v) /\ v.queued = w.queued
<1>1. /\ v \in Writer /\ v.st = "gone" /\ v.queued = w.queued /\ v.pending = <<>> /\ v.chan = <<>> /\ v.cmd.op = "none"
      /\ v.written = 0 /\ v.meta = FALSE /\ v.at = "recv"
  <2>1. w.queued \in Seq(Nat)
    BY WriterTyped
  <2>2. Unopened \in Writer
    BY WriterOpens
  <2>3. v \in Writer
    BY <2>1, <2>2 DEF Writer, Gone
  <2>4. v.st = "gone" /\ v.queued = w.queued
    BY DEF Unopened, Gone
  <2>5. v.pending = <<>> /\ v.chan = <<>> /\ v.cmd.op = "none" /\ v.written = 0 /\ v.meta = FALSE /\ v.at = "recv"
    BY DEF Unopened, Cmd, Gone
  <2> QED BY <2>3, <2>4, <2>5
<1>2. Len(<<>>) = 0 /\ DOMAIN <<>> = {}
  OBVIOUS
<1>3. Buffered(v) = {} /\ InChannel(v) = {} /\ Numbers(v) = Numbers(w)
  BY <1>1, <1>2 DEF Buffered, InChannel, Numbers
<1>4. PlaceInv(v)
  BY <1>1, <1>2 DEF PlaceInv
<1>5. MetaInv(f, r, v)
  BY <1>1 DEF MetaInv
<1>6. OwnInv(f, v)
  BY <1>1, <1>2 DEF OwnInv, Barriers
<1>7. ItemsInOrder(f, v)
  BY <1>1, <1>2, <1>3 DEF WriterInv, ItemsInOrder
<1>8. Covered(f, v)
  BY <1>1 DEF Covered
<1> QED BY <1>1, <1>4, <1>5, <1>6, <1>7, <1>8 DEF WriterInv

-----------------------------------------------------------------------------
(* The file and the numbers *)

\* A line added to a file that has its metadata, or to one that has neither
\* metadata nor items yet.
LEMMA MetaStaysFirst ==
  ASSUME MetaComesFirst, file \in Seq(Line), NEW l \in Line, file' = Append(file, l),
         \/ ~IsBody(l)
         \/ l = MetaLine /\ NoBody(file)
         \/ l # MetaLine /\ HasMeta(file)
  PROVE  MetaComesFirst'
<1> DEFINE n == Len(file) + 1
<1>0. /\ Len(file) \in Nat /\ DOMAIN file = 1 .. Len(file)
      /\ \A k \in DOMAIN file : k \in DOMAIN file' /\ file'[k] = file[k]
      /\ file'[n] = l
      /\ \A k \in DOMAIN file' : k \in DOMAIN file \/ k = n
  BY LineAdded
<1>1. \A k \in DOMAIN file : \A j \in 1 .. k : j \in DOMAIN file
  BY <1>0
<1>2. \A j \in DOMAIN file : j \in 1 .. n
  BY <1>0
<1>n. n \in 1 .. n
  BY <1>0
<1> HIDE DEF n
<1>3. IsBody(MetaLine)
  BY DEF MetaLine, IsBody
<1>4. ASSUME NEW k \in DOMAIN file, IsBody(file'[k]) PROVE \E j \in 1 .. k : file'[j] = MetaLine
  BY <1>0, <1>1, <1>4 DEF MetaComesFirst
<1>5. IsBody(file'[n]) => \E j \in 1 .. n : file'[j] = MetaLine
  BY <1>0, <1>2, <1>n DEF HasMeta
<1>6. file'[n] = MetaLine => \A j \in DOMAIN file : file[j] # MetaLine
  BY <1>0, <1>3 DEF NoBody
<1>7. \A j, k \in DOMAIN file' : file'[j] = MetaLine /\ file'[k] = MetaLine => j = k
  BY <1>0, <1>6 DEF MetaComesFirst
<1> QED BY <1>0, <1>4, <1>5, <1>7 DEF MetaComesFirst

LEMMA TearsCounted ==
  ASSUME NEW f \in Seq(Line), NEW l \in Line, NEW g, g = Append(f, l)
  PROVE  /\ IsFiniteSet(TearsOf(f))
         /\ Cardinality(TearsOf(g)) = Cardinality(TearsOf(f)) + (IF IsTear(l) THEN 1 ELSE 0)
<1> DEFINE n == Len(f) + 1
<1>0. /\ Len(f) \in Nat /\ DOMAIN f = 1 .. Len(f) /\ n \in DOMAIN g /\ n \notin DOMAIN f
      /\ \A k \in DOMAIN f : k \in DOMAIN g /\ g[k] = f[k]
      /\ g[n] = l
      /\ \A k \in DOMAIN g : k \in DOMAIN f \/ k = n
  BY LineAdded
<1> HIDE DEF n
<1>1. IsFiniteSet(DOMAIN f)
  BY <1>0, FS_Interval
<1>2. IsFiniteSet(TearsOf(f))
  BY <1>1, FS_Subset DEF TearsOf
<1>3. CASE IsTear(l)
  <2>1. TearsOf(g) = TearsOf(f) \cup {n} /\ n \notin TearsOf(f)
    BY <1>0, <1>3 DEF TearsOf
  <2>2. Cardinality(TearsOf(f) \cup {n}) = Cardinality(TearsOf(f)) + 1
    BY <1>2, <2>1, FS_AddElement
  <2> QED BY <1>2, <1>3, <2>1, <2>2
<1>4. CASE ~IsTear(l)
  <2>1. TearsOf(g) = TearsOf(f)
    BY <1>0, <1>4 DEF TearsOf
  <2>2. Cardinality(TearsOf(f)) \in Nat
    BY <1>2, FS_CardinalityType
  <2> QED BY <1>2, <1>4, <2>1, <2>2
<1> QED BY <1>3, <1>4

\* No item is accepted.
LEMMA QueuesStay ==
  ASSUME \A r \in Recorders : rec'[r].queued = rec[r].queued
  PROVE  /\ Slots' = Slots /\ NextItem' = NextItem
         /\ \A r \in Recorders : Numbers(rec'[r]) = Numbers(rec[r])
<1>1. \A r \in Recorders : {<<r, k>> : k \in DOMAIN rec'[r].queued} = {<<r, k>> : k \in DOMAIN rec[r].queued}
  OBVIOUS
<1>2. Slots' = Slots
  BY <1>1 DEF Slots
<1>3. \A r \in Recorders : Numbers(rec'[r]) = Numbers(rec[r])
  BY DEF Numbers
<1> QED BY <1>2, <1>3 DEF NextItem

LEMMA NumbersStay ==
  ASSUME NumbersInv, \A r \in Recorders : rec'[r].queued = rec[r].queued, file \in Seq(Line),
         \/ file' = file
         \/ \E l \in Line : /\ file' = Append(file, l)
                            /\ l.kind = "item" => \E r \in Recorders : l.n \in Numbers(rec[r])
  PROVE  NumbersInv'
<1>1. /\ Slots' = Slots /\ NextItem' = NextItem
      /\ \A r \in Recorders : Numbers(rec'[r]) = Numbers(rec[r])
  BY QueuesStay
<1>2. ASSUME NEW k \in DOMAIN file', file'[k].kind = "item" PROVE file'[k].n < NextItem
  <2>1. CASE file' = file
    BY <1>2, <2>1 DEF NumbersInv
  <2>2. CASE file' # file
    <3>1. PICK l \in Line : /\ file' = Append(file, l)
                            /\ l.kind = "item" => \E r \in Recorders : l.n \in Numbers(rec[r])
      BY <2>2
    <3>2. CASE k \in DOMAIN file
      BY <1>2, <3>1, <3>2, LineAdded DEF NumbersInv
    <3>3. CASE k \notin DOMAIN file
      <4>1. file'[k] = l
        BY <3>1, <3>3, LineAdded
      <4> QED BY <1>2, <3>1, <4>1 DEF NumbersInv
    <3> QED BY <3>2, <3>3
  <2> QED BY <2>1, <2>2
<1>3. \A r \in Recorders : \A i \in Numbers(rec'[r]) :
        i < NextItem /\ \A s \in Recorders : i \in Numbers(rec'[s]) => s = r
  BY <1>1 DEF NumbersInv
<1> QED BY <1>1, <1>2, <1>3 DEF NumbersInv

\* An item is accepted under the next number.
LEMMA ItemNumbered ==
  ASSUME NumbersInv, rec \in [Recorders -> Writer], NEW r \in Recorders,
         file \in Seq(Line), file' = file, rec'[r].queued = Append(rec[r].queued, NextItem), Numbers(rec'[r]) = Numbers(rec[r]) \cup {NextItem},
         \A s \in Recorders \ {r} : rec'[s] = rec[s], NextItem \in Nat
  PROVE  NumbersInv'
<1> DEFINE m == Len(rec[r].queued) + 1
<1>1. /\ DOMAIN rec'[r].queued = DOMAIN rec[r].queued \cup {m} /\ m \notin DOMAIN rec[r].queued
  <2>1. rec[r].queued \in Seq(Nat)
    BY WriterTyped
  <2>2. DOMAIN Append(rec[r].queued, NextItem) = 1 .. m /\ DOMAIN rec[r].queued = 1 .. Len(rec[r].queued) /\ Len(rec[r].queued) \in Nat
    BY <2>1, Appended
  <2> QED BY <2>2
<1> HIDE DEF m
<1>2. Slots' = Slots \cup {<<r, m>>} /\ <<r, m>> \notin Slots
  <2>1. \A a : a \in Slots <=> \E s \in Recorders : \E k \in DOMAIN rec[s].queued : a = <<s, k>>
    BY DEF Slots
  <2>2. \A a : a \in Slots' <=> \E s \in Recorders : \E k \in DOMAIN rec'[s].queued : a = <<s, k>>
    BY DEF Slots
  <2>3. <<r, m>> \notin Slots
    BY <1>1, <2>1
  <2>4. ASSUME NEW a PROVE a \in Slots' <=> a \in Slots \/ a = <<r, m>>
    <3>1. a \in Slots' => a \in Slots \/ a = <<r, m>>
      <4>1. SUFFICES ASSUME NEW s \in Recorders, NEW k \in DOMAIN rec'[s].queued, a = <<s, k>>
                     PROVE  a \in Slots \/ a = <<r, m>>
        BY <2>2
      <4>2. CASE s = r
        BY <1>1, <2>1, <4>1, <4>2
      <4>3. CASE s # r
        BY <2>1, <4>1, <4>3
      <4> QED BY <4>2, <4>3
    <3>2. a \in Slots => a \in Slots'
      <4>1. SUFFICES ASSUME NEW s \in Recorders, NEW k \in DOMAIN rec[s].queued, a = <<s, k>>
                     PROVE  a \in Slots'
        BY <2>1
      <4>2. k \in DOMAIN rec'[s].queued
        BY <1>1
      <4> QED BY <2>2, <4>1, <4>2
    <3>3. a = <<r, m>> => a \in Slots'
      BY <1>1, <2>2
    <3> QED BY <3>1, <3>2, <3>3
  <2> QED BY <2>3, <2>4
<1>3. IsFiniteSet(Slots') /\ NextItem' = NextItem + 1
  <2>1. IsFiniteSet(Slots) /\ Cardinality(Slots) \in Nat
    BY FS_CardinalityType DEF NumbersInv
  <2>2. IsFiniteSet(Slots') /\ Cardinality(Slots') = Cardinality(Slots) + 1
    BY <1>2, <2>1, FS_AddElement
  <2> QED BY <2>1, <2>2 DEF NextItem
<1>4. \A s \in Recorders : \A i \in Numbers(rec[s]) : i \in Nat
  BY WriterTyped DEF Numbers
<1>5. \A s \in Recorders : \A i \in Numbers(rec[s]) : i < NextItem
  BY DEF NumbersInv
<1>6. ASSUME NEW s \in Recorders, NEW i \in Numbers(rec'[s])
      PROVE  i < NextItem + 1 /\ \A t \in Recorders : i \in Numbers(rec'[t]) => t = s
  <2>1. \A t \in Recorders : i \in Numbers(rec'[t]) => i \in Numbers(rec[t]) \/ (t = r /\ i = NextItem)
    OBVIOUS
  <2>2. i \in Numbers(rec[s]) \/ (s = r /\ i = NextItem)
    BY <2>1
  <2>3. i < NextItem + 1
    BY <1>4, <1>5, <2>2
  <2>4. ASSUME NEW t \in Recorders, i \in Numbers(rec'[t]) PROVE t = s
    <3>1. i \in Numbers(rec[t]) \/ (t = r /\ i = NextItem)
      BY <2>1, <2>4
    <3>2. \A u \in Recorders : NextItem \notin Numbers(rec[u])
      BY <1>4, <1>5
    <3> QED BY <2>2, <3>1, <3>2 DEF NumbersInv
  <2> QED BY <2>3, <2>4
<1>7. \A k \in DOMAIN file : file[k].kind = "item" => file[k].n < NextItem + 1
  <2>1. \A k \in DOMAIN file : file[k] \in Line
    OBVIOUS
  <2>2. \A l \in Line : l.n \in Nat
    BY DEF Line
  <2> QED BY <2>1, <2>2 DEF NumbersInv
<1> QED BY <1>3, <1>6, <1>7 DEF NumbersInv

-----------------------------------------------------------------------------
(* Putting a step together *)

CallerType == [at : {"idle", "sending", "waiting", "ok", "err"},
               op : Barriers \cup {"add", "none"}, rec : 0 .. MaxRecorders]

CallersInv(c) ==
  /\ c \in [Callers -> CallerType]
  /\ \A d \in Callers : c[d].at = "sending" => c[d].rec # 0 /\ c[d].op # "none"

\* The variables that no part of the formula of a writer mentions.
RestTyped ==
  /\ exists \in BOOLEAN
  /\ session \in [Recorders -> {"none", "init", "open", "failed", "ended"}]
  /\ count \in [{"calls", "troubles"} -> Nat]

\* A line comes from r, or is a copy of the metadata, a name or a tear.
LineFrom(r, l) ==
  /\ l \in Line
  /\ l.kind = "item" => l.n \in Numbers(rec[r])
  /\ ~IsBody(l) \/ (l = MetaLine /\ rec[r].meta) \/ (l # MetaLine /\ HasMeta(file))

FileStep(r) ==
  \/ file' = file /\ tears' = tears
  \/ \E l : /\ LineFrom(r, l) /\ file' = Append(file, l)
            /\ tears' = tears + (IF IsTear(l) THEN 1 ELSE 0)

\* What is new among the promises is on the file.
PromisesStep ==
  /\ promised' \subseteq Line
  /\ \A l \in promised' : l \in promised \/ (~IsTear(l) /\ \E k \in DOMAIN file' : file'[k] = l)

IndexStep == indexed' \subseteq Nat /\ \A i \in indexed' : i \in indexed \/ OnFile(file', i)

LEMMA Assembled ==
  ASSUME RecorderInv, NEW r \in Recorders, FileStep(r), PromisesStep, IndexStep, RestTyped', CallersInv(caller'),
         rec' \in [Recorders -> Writer], \A s \in Recorders : WriterInv(file', s, rec'[s]), NumbersInv'
  PROVE  RecorderInv'
<1>0. file \in Seq(Line) /\ tears \in Nat /\ MetaComesFirst /\ Cardinality(TearsOf(file)) = tears
  BY DEF RecorderInv, TypeOK
<1>1. CASE file' = file /\ tears' = tears
  <2>1. PromisedInv'
    BY <1>1 DEF PromisesStep, RecorderInv, PromisedInv
  <2>2. \A i \in indexed' : OnFile(file', i)
    BY <1>1 DEF IndexStep, RecorderInv
  <2>3. MetaComesFirst' /\ Cardinality(TearsOf(file')) = tears'
    BY <1>0, <1>1 DEF MetaComesFirst
  <2>4. TypeOK'
    BY <1>0, <1>1 DEF TypeOK, RestTyped, CallersInv, CallerType, PromisesStep, IndexStep
  <2> QED BY <2>1, <2>2, <2>3, <2>4 DEF RecorderInv, CallersInv
<1>2. CASE ~(file' = file /\ tears' = tears)
  <2>0. PICK l : /\ LineFrom(r, l) /\ file' = Append(file, l)
                 /\ tears' = tears + (IF IsTear(l) THEN 1 ELSE 0)
    BY <1>2 DEF FileStep
  <2>l. l \in Line
    BY <2>0 DEF LineFrom
  <2>f. file' \in Seq(Line) /\ tears' \in Nat /\ \A k \in DOMAIN file : k \in DOMAIN file' /\ file'[k] = file[k]
    <3>1. file' \in Seq(Line) /\ \A k \in DOMAIN file : k \in DOMAIN file' /\ file'[k] = file[k]
      BY <1>0, <2>0, <2>l, LineAdded
    <3>2. tears' \in Nat
      BY <1>0, <2>0
    <3> QED BY <3>1, <3>2
  <2>1. PromisedInv'
    BY <2>f DEF PromisesStep, RecorderInv, PromisedInv
  <2>2. \A i \in indexed' : OnFile(file', i)
    BY <1>0, <2>0, <2>l, OnFileGrows DEF IndexStep, RecorderInv
  <2>3. MetaComesFirst'
    <3>1. rec[r].meta => NoBody(file)
      BY DEF RecorderInv, WriterInv, MetaInv
    <3> QED BY <1>0, <2>0, <2>l, <3>1, MetaStaysFirst DEF LineFrom
  <2>4. Cardinality(TearsOf(file')) = tears'
    BY <1>0, <2>0, <2>l, TearsCounted
  <2>5. TypeOK'
    BY <2>f DEF TypeOK, RestTyped, CallersInv, CallerType, PromisesStep, IndexStep
  <2> QED BY <2>1, <2>2, <2>3, <2>4, <2>5 DEF RecorderInv, CallersInv
<1> QED BY <1>1, <1>2

\* A step of one writer, which accepts nothing, and what it does to the file.
WriterMoves(r) ==
  /\ rec' \in [Recorders -> Writer]
  /\ rec'[r].queued = rec[r].queued /\ WriterInv(file', r, rec'[r])
  /\ \A s \in Recorders \ {r} : rec'[s] = rec[s]
  /\ CallersInv(caller') /\ PromisesStep

LEMMA OneWriterMoves ==
  ASSUME RecorderInv, NEW r \in Recorders, FileStep(r), WriterMoves(r), IndexStep, RestTyped'
  PROVE  RecorderInv'
<1>0. file \in Seq(Line) /\ rec \in [Recorders -> Writer]
  BY DEF RecorderInv, TypeOK
<1>1. ASSUME NEW s \in Recorders PROVE WriterInv(file', s, rec'[s])
  <2>1. CASE s = r
    BY <2>1 DEF WriterMoves
  <2>2. CASE s # r
    <3>0. rec'[s] = rec[s] /\ WriterInv(file, s, rec[s]) /\ rec[s] \in Writer
      BY <1>0, <2>2 DEF WriterMoves, RecorderInv
    <3>1. CASE file' = file
      BY <3>0, <3>1
    <3>2. CASE file' # file
      <4>1. PICK l : LineFrom(r, l) /\ file' = Append(file, l)
        BY <3>2 DEF FileStep
      <4>2. l.kind = "item" => l.n \notin Numbers(rec[s])
        BY <2>2, <4>1 DEF LineFrom, RecorderInv, NumbersInv
      <4>3. IsBody(l) => ~rec[s].meta
        <5>1. /\ rec[s].meta => s = 1 /\ NoBody(file)
              /\ rec[r].meta => r = 1
          BY DEF RecorderInv, WriterInv, MetaInv
        <5>2. HasMeta(file) => ~NoBody(file)
          BY DEF HasMeta, NoBody, IsBody, MetaLine
        <5> QED BY <2>2, <4>1, <5>1, <5>2 DEF LineFrom
      <4>4. l \in Line
        BY <4>1 DEF LineFrom
      <4> QED BY <1>0, <3>0, <4>1, <4>2, <4>3, <4>4, OthersWrite
    <3> QED BY <3>1, <3>2
  <2> QED BY <2>1, <2>2
<1>2. NumbersInv'
  <2>1. \A s \in Recorders : rec'[s].queued = rec[s].queued
    BY DEF WriterMoves
  <2>2. \/ file' = file
        \/ \E l \in Line : /\ file' = Append(file, l)
                           /\ l.kind = "item" => \E s \in Recorders : l.n \in Numbers(rec[s])
    BY DEF FileStep, LineFrom
  <2>3. NumbersInv
    BY DEF RecorderInv
  <2> QED BY <1>0, <2>1, <2>2, <2>3, NumbersStay
<1> QED BY <1>1, <1>2, Assembled DEF WriterMoves

\* An Ok to a barrier, from a writer with an empty buffer: what was accepted
\* before the barrier was sent is on the file.
LEMMA PromiseOnFile ==
  ASSUME NEW f, NEW r, NEW w \in Writer, WriterInv(f, r, w), w.st = "up", w.written = 0, w.pending = <<>>,
         w.cmd.op \in Barriers, w.cmd.op = "persist" => HasMeta(f), NEW l \in Promise(w, w.cmd)
  PROVE  l \in Line /\ ~IsTear(l) /\ \E k \in DOMAIN f : f[k] = l
<1>1. CASE l = MetaLine /\ w.cmd.op = "persist"
  BY <1>1 DEF MetaLine, Line, HasMeta, IsTear
<1>2. CASE ~(l = MetaLine /\ w.cmd.op = "persist")
  <2>1. PICK k \in 1 .. w.cmd.n : l = ItemLine(w.queued[k])
    BY <1>2 DEF Promise
  <2>2. w.cmd.n \in Nat /\ Len(w.queued) \in Nat /\ w.cmd.n <= Len(w.queued) /\ DOMAIN w.queued = 1 .. Len(w.queued)
    BY WriterTyped DEF WriterInv, OwnInv
  <2>3. k \in DOMAIN w.queued /\ k \in Nat /\ k <= w.cmd.n
    BY <2>2
  <2>4. Buffered(w) = {}
    <3>1. w.written + 1 .. Len(w.pending) = {}
      OBVIOUS
    <3> QED BY <3>1 DEF Buffered
  <2>5. \A j : ~Behind(w, k, j)
    BY <2>2, <2>3 DEF Behind
  <2>6. OnFile(f, w.queued[k])
    BY <2>3, <2>4, <2>5 DEF WriterInv, Covered
  <2>7. w.queued[k] \in Nat
    BY <2>3, WriterTyped
  <2> QED BY <2>1, <2>6, <2>7 DEF OnFile, ItemLine, Line, IsTear
<1> QED BY <1>1, <1>2

LEMMA IdleTyped == Idle \in CallerType /\ Idle.at = "idle"
BY RolloutAssumption DEF Idle, CallerType

LEMMA AnswerTyped ==
  ASSUME NEW c \in Callers, caller[c] \in CallerType, NEW ok \in BOOLEAN
  PROVE  Answered(c, ok) \in CallerType /\ Answered(c, ok).at # "sending"
BY IdleTyped DEF Answered, CallerType

LEMMA Replied ==
  ASSUME RecorderInv, NEW r \in Recorders, NEW w \in Writer, WriterInv(file', r, w), w.st = "up", w.written = 0,
         w.queued = rec[r].queued, NEW ok \in BOOLEAN, Reply(r, w, ok),
         ok /\ w.cmd.op \in Barriers => w.pending = <<>>,
         ok /\ w.cmd.op = "persist" => HasMeta(file')
  PROVE  WriterMoves(r)
<1> DEFINE ends == w.cmd.op = "shutdown" /\ ok
           none == Cmd("none", 0, NoCaller)
           u == [w EXCEPT !.at = "recv", !.try = 1, !.written = 0, !.cmd = none]
           v == IF ends THEN Gone(w) ELSE u
<1>0. rec \in [Recorders -> Writer] /\ caller \in [Callers -> CallerType] /\ promised \subseteq Line
      /\ \A c \in Callers : caller[c].at = "sending" => caller[c].rec # 0 /\ caller[c].op # "none"
  BY DEF RecorderInv, TypeOK, CallerType
<1>1. rec' = [rec EXCEPT ![r] = v]
  BY DEF Reply
<1>2. none \in Command /\ none.op = "none"
  BY DEF Cmd, Command
<1>3. u \in Writer
  <2> HIDE DEF none
  <2> QED BY <1>2 DEF Writer
<1>4. /\ u.at = "recv" /\ u.written = 0 /\ u.cmd = none
      /\ u.st = "up" /\ u.chan = w.chan /\ u.queued = w.queued /\ u.pending = w.pending /\ u.meta = w.meta
  BY DEF Writer
<1> HIDE DEF u, ends
<1>5. PlaceInv(u)
  <2>1. Len(u.pending) \in Nat
    BY <1>3, WriterTyped
  <2> QED BY <1>4, <2>1 DEF PlaceInv
<1>6. WriterInv(file', r, u)
  BY <1>2, <1>3, <1>4, <1>5, WriterRests
<1>7. v \in Writer /\ v.queued = w.queued /\ WriterInv(file', r, v)
  <2>1. CASE ends
    BY <2>1, WriterEnds
  <2>2. CASE ~ends
    BY <1>3, <1>4, <1>6, <2>2
  <2> QED BY <2>1, <2>2
<1> HIDE DEF v
<1>8. /\ rec' \in [Recorders -> Writer] /\ rec'[r] = v /\ \A s \in Recorders \ {r} : rec'[s] = rec[s]
  BY <1>0, <1>1, <1>7
<1>9. CallersInv(caller')
  <2>1. ASSUME NEW c \in Callers
        PROVE  caller'[c] \in CallerType /\ (caller'[c].at = "sending" => caller'[c].rec # 0 /\ caller'[c].op # "none")
    <3>1. caller'[c] = caller[c] \/ \E b \in BOOLEAN : caller'[c] = Answered(c, b)
      BY DEF Reply
    <3> QED BY <1>0, <3>1, AnswerTyped
  <2>2. caller' = [c \in Callers |-> caller'[c]]
    BY DEF Reply
  <2> QED BY <2>1, <2>2 DEF CallersInv
<1>10. PromisesStep
  <2>1. CASE w.cmd.op \in Barriers /\ ok
    <3>1. promised' = promised \cup Promise(w, w.cmd)
      BY <2>1 DEF Reply
    <3>2. \A l \in Promise(w, w.cmd) : l \in Line /\ ~IsTear(l) /\ \E k \in DOMAIN file' : file'[k] = l
      BY <2>1, PromiseOnFile
    <3> QED BY <1>0, <3>1, <3>2 DEF PromisesStep
  <2>2. CASE ~(w.cmd.op \in Barriers /\ ok)
    BY <1>0, <2>2 DEF Reply, PromisesStep
  <2> QED BY <2>1, <2>2
<1> QED BY <1>7, <1>8, <1>9, <1>10 DEF WriterMoves

\* The callers and the promises are left alone.
LEMMA Unanswered ==
  ASSUME RecorderInv, NEW r \in Recorders, NEW v \in Writer, WriterInv(file', r, v), v.queued = rec[r].queued,
         rec' = [rec EXCEPT ![r] = v], UNCHANGED promised, CallersInv(caller')
  PROVE  WriterMoves(r)
<1>1. rec \in [Recorders -> Writer] /\ promised \subseteq Line
  BY DEF RecorderInv, TypeOK
<1> QED BY <1>1 DEF WriterMoves, PromisesStep

LEMMA CallersRest ==
  ASSUME RecorderInv PROVE CallersInv(caller)
BY DEF RecorderInv, TypeOK, CallersInv, CallerType

\* enter_recovery_mode: once more, or the error is the answer.
LEMMA Failed ==
  ASSUME RecorderInv, NEW r \in Recorders, NEW w \in Writer, WriterInv(file', r, w), w.at # "recv", w.written = 0,
         w.queued = rec[r].queued, Fail(r, w)
  PROVE  WriterMoves(r)
<1> DEFINE u == [w EXCEPT !.open = FALSE, !.written = 0]
           v == [u EXCEPT !.try = 2, !.at = "open"]
<1>0. w.st = "up" /\ Len(w.pending) \in Nat
  BY WriterTyped DEF WriterInv, PlaceInv
<1>1. /\ u \in Writer /\ u.queued = w.queued /\ u.pending = w.pending /\ u.meta = w.meta /\ u.written = 0
      /\ u.chan = w.chan /\ u.cmd = w.cmd /\ u.st = w.st /\ u.at = w.at
  BY DEF Writer
<1>2. /\ v \in Writer /\ v.queued = w.queued /\ v.pending = w.pending /\ v.meta = w.meta /\ v.written = 0
      /\ v.chan = w.chan /\ v.cmd = w.cmd /\ v.st = w.st /\ v.at = "open"
  <2> HIDE DEF u
  <2> QED BY <1>1 DEF Writer
<1>3. (w.try = 1 /\ rec' = [rec EXCEPT ![r] = v] /\ UNCHANGED <<caller, promised>>) \/ Reply(r, u, FALSE)
  BY DEF Fail
<1> HIDE DEF u, v
<1>4. PlaceInv(u) /\ PlaceInv(v)
  BY <1>0, <1>1, <1>2 DEF WriterInv, PlaceInv
<1>5. WriterInv(file', r, v)
  BY <1>0, <1>2, <1>4, WriterRests
<1>6. WriterInv(file', r, u)
  <2>1. (u.at = "items" => ~u.meta) /\ (u.at = "meta" => u.meta)
    BY <1>1 DEF WriterInv, MetaInv
  <2> QED BY <1>0, <1>1, <1>4, <2>1, WriterRests
<1>7. CASE Reply(r, u, FALSE)
  BY <1>0, <1>1, <1>6, <1>7, Replied
<1>8. CASE rec' = [rec EXCEPT ![r] = v] /\ UNCHANGED <<caller, promised>>
  BY <1>2, <1>5, <1>8, Unanswered, CallersRest
<1> QED BY <1>3, <1>7, <1>8

-----------------------------------------------------------------------------
(* One lemma for each action *)

LEMMA RestStays ==
  ASSUME RecorderInv
  PROVE  /\ RestTyped
         /\ (UNCHANGED <<exists, session, count>> => RestTyped')
         /\ (UNCHANGED <<exists, session>> /\ (\E f \in {"calls", "troubles"} : Bump(f)) => RestTyped')
         /\ (UNCHANGED indexed => IndexStep)
<1>1. RestTyped /\ indexed \subseteq Nat
  BY DEF RecorderInv, TypeOK, RestTyped
<1>2. UNCHANGED <<exists, session, count>> => RestTyped'
  BY <1>1 DEF RestTyped
<1>3. UNCHANGED <<exists, session>> /\ (\E f \in {"calls", "troubles"} : Bump(f)) => RestTyped'
  BY <1>1 DEF RestTyped, Bump
<1>4. UNCHANGED indexed => IndexStep
  BY <1>1 DEF IndexStep
<1> QED BY <1>1, <1>2, <1>3, <1>4

\* The session and its callers move; file and recorders do not.
LEMMA SessionMoves ==
  ASSUME RecorderInv, UNCHANGED <<file, rec, indexed, promised, tears>>, CallersInv(caller'), RestTyped'
  PROVE  RecorderInv'
<1>1. TypeOK'
  BY DEF RecorderInv, TypeOK, CallersInv, CallerType, RestTyped
<1>2. NumbersInv' /\ MetaComesFirst' /\ PromisedInv'
  BY DEF RecorderInv, NumbersInv, NextItem, Slots, MetaComesFirst, PromisedInv
<1>3. /\ \A r \in Recorders : WriterInv(file', r, rec'[r])
      /\ \A i \in indexed' : OnFile(file', i)
      /\ Cardinality(TearsOf(file')) = tears'
  BY DEF RecorderInv
<1> QED BY <1>1, <1>2, <1>3 DEF RecorderInv, CallersInv

\* A recorder is opened, or becomes the one of the table: no line is written
\* and no answer given.
LEMMA RecorderChanges ==
  ASSUME RecorderInv, NEW r \in Recorders, NEW v \in Writer, rec' = [rec EXCEPT ![r] = v], WriterInv(file, r, v),
         v.queued = rec[r].queued, UNCHANGED <<file, caller, indexed, promised, tears>>, RestTyped'
  PROVE  RecorderInv'
<1>1. CallersInv(caller') /\ IndexStep /\ FileStep(r)
  BY CallersRest, RestStays DEF FileStep
<1>2. WriterMoves(r)
  BY <1>1, Unanswered
<1> QED BY <1>1, <1>2, OneWriterMoves

LEMMA SessionTyped ==
  ASSUME RecorderInv, NEW r \in Recorders, NEW x \in {"none", "init", "open", "failed", "ended"},
         session' = [session EXCEPT ![r] = x], UNCHANGED <<exists, count>>
  PROVE  RestTyped'
<1>1. RestTyped
  BY RestStays
<1> QED BY <1>1 DEF RestTyped

LEMMA CreateThreadInv ==
  ASSUME RecorderInv, CreateThread PROVE RecorderInv'
<1>1. 1 \in Recorders
  BY RolloutAssumption DEF Recorders
<1>2. rec[1].queued = <<>>
  BY <1>1 DEF CreateThread, RecorderInv, WriterInv, PlaceInv
<1>3. Created \in Writer /\ WriterInv(file, 1, Created) /\ Created.queued = <<>>
  BY WriterOpens DEF CreateThread
<1>4. RestTyped'
  BY <1>1, SessionTyped DEF CreateThread, InsertLiveRecorder
<1> QED BY <1>1, <1>2, <1>3, <1>4, RecorderChanges DEF CreateThread, InsertLiveRecorder

\* A file in which some metadata parses has the original.
LEMMA ParsedMeta ==
  ASSUME RecorderInv, NEW l \in Parsed(file), l.kind = "meta" PROVE HasMeta(file)
<1>0. file \in Seq(Line) /\ DOMAIN file = 1 .. Len(file) /\ Len(file) \in Nat
  BY DEF RecorderInv, TypeOK
<1>1. PICK i \in DOMAIN file : file[i] = l
  BY DEF Parsed
<1>2. PICK j \in 1 .. i : file[j] = MetaLine
  BY <1>1 DEF RecorderInv, MetaComesFirst, IsBody
<1>3. j \in DOMAIN file
  BY <1>0, <1>2
<1> QED BY <1>2, <1>3 DEF HasMeta

LEMMA ResumeThreadInv ==
  ASSUME RecorderInv, ResumeThread PROVE RecorderInv'
<1>1. PICK r \in Free : InsertLiveRecorder(r, Resumed)
  BY DEF ResumeThread
<1>2. r \in Recorders /\ rec[r].queued = <<>>
  BY DEF Free, RecorderInv, WriterInv, PlaceInv
<1>3. HasMeta(file)
  <2>1. PICK l \in Parsed(file) : l.kind = "meta"
    BY DEF ResumeThread, Loadable, Loaded
  <2> QED BY <2>1, ParsedMeta
<1>4. Resumed \in Writer /\ WriterInv(file, r, Resumed) /\ Resumed.queued = <<>>
  BY <1>3, WriterOpens
<1>5. RestTyped'
  BY <1>1, <1>2, SessionTyped DEF ResumeThread, InsertLiveRecorder
<1> QED BY <1>1, <1>2, <1>4, <1>5, RecorderChanges DEF ResumeThread, InsertLiveRecorder

LEMMA EndInitInv ==
  ASSUME RecorderInv, NEW r \in Recorders, NEW ok \in BOOLEAN, EndInit(r, ok) PROVE RecorderInv'
<1>1. RestTyped'
  BY SessionTyped DEF EndInit
<1>2. CallersInv(caller')
  BY CallersRest DEF EndInit
<1> QED BY <1>1, <1>2, SessionMoves DEF EndInit

LEMMA DropSessionInv ==
  ASSUME RecorderInv, NEW r \in Recorders, DropSession(r) PROVE RecorderInv'
<1>1. RestTyped'
  BY SessionTyped DEF DropSession
<1>2. CallersInv(caller')
  BY CallersRest DEF DropSession
<1> QED BY <1>1, <1>2, SessionMoves DEF DropSession

LEMMA ShutdownThreadInv ==
  ASSUME RecorderInv, NEW c \in Callers, ShutdownThread(c) PROVE RecorderInv'
<1>1. RestTyped'
  <2>1. RestTyped
    BY RestStays
  <2> QED BY <2>1 DEF ShutdownThread, RestTyped
<1>2. CallersInv(caller')
  BY CallersRest, IdleTyped DEF ShutdownThread, CallersInv
<1> QED BY <1>1, <1>2, SessionMoves DEF ShutdownThread

LEMMA BeginInv ==
  ASSUME RecorderInv, NEW c \in Callers, NEW r \in Recorders, NEW op \in Barriers \cup {"add"}, Begin(c, r, op)
  PROVE  RecorderInv'
<1>1. RestTyped'
  BY RestStays DEF Begin
<1>2. CallersInv(caller')
  <2>1. r \in 0 .. MaxRecorders /\ r # 0
    BY RolloutAssumption DEF Recorders
  <2> DEFINE b == [at |-> "sending", op |-> op, rec |-> r]
  <2>2. b \in CallerType /\ b.rec # 0 /\ b.op # "none"
    BY <2>1 DEF CallerType, Barriers
  <2>3. caller' = [caller EXCEPT ![c] = b]
    BY DEF Begin
  <2> HIDE DEF b
  <2> QED BY <2>2, <2>3, CallersRest DEF CallersInv
<1> QED BY <1>1, <1>2, SessionMoves DEF Begin

\* A command enters the channel.
LEMMA SendInv ==
  ASSUME RecorderInv, NEW c \in Callers, Send(c) PROVE RecorderInv'
<1> DEFINE r == caller[c].rec
           op == caller[c].op
           x == Cmd(op, IF op = "add" THEN NextItem ELSE Len(rec[r].queued), c)
<1>0. /\ rec \in [Recorders -> Writer] /\ file \in Seq(Line)
      /\ caller[c] \in CallerType /\ caller[c].at = "sending"
      /\ op \in Barriers \cup {"add"} /\ r \in Recorders
  <2>1. caller[c] \in CallerType /\ caller[c].at = "sending" /\ r # 0 /\ op # "none"
    BY CallersRest DEF CallersInv, Send
  <2>2. op \in Barriers \cup {"add", "none"} /\ r \in 0 .. MaxRecorders
    BY <2>1 DEF CallerType
  <2>3. r \in Recorders
    BY <2>1, <2>2, RolloutAssumption DEF Recorders
  <2> QED BY <2>1, <2>2, <2>3 DEF RecorderInv, TypeOK
<1>1. RestTyped' /\ IndexStep
  BY RestStays DEF Send
<1>2. CASE rec[r].st = "gone" /\ caller' = [caller EXCEPT ![c] = Answered(c, FALSE)] /\ UNCHANGED rec
  <2>1. CallersInv(caller')
    <3>1. Answered(c, FALSE) \in CallerType /\ Answered(c, FALSE).at # "sending"
      BY <1>0, AnswerTyped
    <3> QED BY <1>2, <3>1, CallersRest DEF CallersInv
  <2> QED BY <1>1, <1>2, <2>1, SessionMoves DEF Send
<1>3. CASE /\ rec[r].st = "up"
           /\ rec' = [rec EXCEPT ![r].chan = Append(@, x),
                                 ![r].queued = IF op = "add" THEN Append(@, x.n) ELSE @]
           /\ caller' = [caller EXCEPT ![c] = IF op = "add" THEN Idle ELSE [@ EXCEPT !.at = "waiting"]]
  <2> DEFINE w == rec[r]
  <2>0. w \in Writer /\ WriterInv(file, r, w) /\ w.st = "up"
    BY <1>0, <1>3 DEF RecorderInv
  <2>1. CallersInv(caller')
    <3> DEFINE b == IF op = "add" THEN Idle ELSE [caller[c] EXCEPT !.at = "waiting"]
    <3>1. b \in CallerType /\ b.at # "sending"
      BY <1>0, IdleTyped DEF CallerType
    <3>2. caller' = [caller EXCEPT ![c] = b]
      BY <1>3
    <3> HIDE DEF b
    <3> QED BY <3>1, <3>2, CallersRest DEF CallersInv
  <2>2. NextItem \in Nat /\ Len(w.queued) \in Nat
    <3>1. Cardinality(Slots) \in Nat
      BY FS_CardinalityType DEF RecorderInv, NumbersInv
    <3> QED BY <2>0, <3>1, WriterTyped DEF NextItem
  <2>3. x \in Command /\ x.op = op
    BY <1>0, <2>2 DEF Cmd, Command
  <2>4. CASE op = "add"
    <3>0. x.n = NextItem
      BY <2>4 DEF Cmd
    <3> HIDE DEF x
    <3> DEFINE v == [w EXCEPT !.chan = Append(@, x), !.queued = Append(@, x.n)]
    <3>1. \A i \in Numbers(w) : i < x.n
      BY <1>0, <3>0 DEF RecorderInv, NumbersInv
    <3>2. ~OnFile(file, x.n)
      BY <2>2, <3>0 DEF RecorderInv, NumbersInv, OnFile, ItemLine
    <3>3. /\ v \in Writer /\ WriterInv(file, r, v)
          /\ v.queued = Append(w.queued, x.n) /\ Numbers(v) = Numbers(w) \cup {x.n}
      <4>1. x.op = "add"
        BY <2>3, <2>4
      <4> HIDE DEF op, r
      <4>2. Append(w.chan, x) \in Seq(Command) /\ Append(w.queued, x.n) \in Seq(Nat)
        <5>1. w.chan \in Seq(Command) /\ w.queued \in Seq(Nat)
          BY <2>0, WriterTyped
        <5> QED BY <2>2, <2>3, <3>0, <5>1
      <4>3. v \in Writer /\ v.chan = Append(w.chan, x) /\ v.queued = Append(w.queued, x.n)
        BY <2>0, <4>2 DEF Writer
      <4>4. /\ v.pending = w.pending /\ v.written = w.written /\ v.cmd = w.cmd
            /\ v.meta = w.meta /\ v.at = w.at /\ v.st = w.st
        BY <2>0 DEF Writer
      <4> HIDE DEF v
      <4>5. WriterInv(file, r, v) /\ Numbers(v) = Numbers(w) \cup {x.n}
        BY <1>0, <2>0, <2>3, <3>1, <3>2, <4>1, <4>3, <4>4, ItemSent
      <4> QED BY <4>3, <4>5
    <3>4. rec' = [rec EXCEPT ![r] = v]
      BY <1>0, <1>3, <2>4
    <3> HIDE DEF v
    <3>5. /\ rec' \in [Recorders -> Writer] /\ rec'[r] = v /\ \A s \in Recorders \ {r} : rec'[s] = rec[s]
      BY <1>0, <3>3, <3>4
    <3>6. file' = file /\ tears' = tears /\ promised' = promised /\ FileStep(r)
      BY DEF Send, FileStep
    <3>7. NumbersInv'
      BY <1>0, <2>2, <3>0, <3>3, <3>5, <3>6, ItemNumbered DEF RecorderInv
    <3>8. \A s \in Recorders : WriterInv(file', s, rec'[s])
      BY <3>3, <3>5, <3>6 DEF RecorderInv
    <3>9. PromisesStep
      BY <3>6 DEF PromisesStep, RecorderInv, TypeOK
    <3> QED BY <1>0, <1>1, <2>1, <3>5, <3>6, <3>7, <3>8, <3>9, Assembled
  <2>5. CASE op \in Barriers
    <3>0. x.n = Len(w.queued) /\ op # "add"
      BY <2>5 DEF Cmd, Barriers
    <3> HIDE DEF x
    <3> DEFINE v == [w EXCEPT !.chan = Append(@, x)]
    <3>1. v \in Writer /\ WriterInv(file, r, v) /\ v.queued = w.queued
      BY <2>0, <2>3, <2>5, <3>0, BarrierSent
    <3>2. rec' = [rec EXCEPT ![r] = v]
      BY <1>0, <1>3, <3>0, <2>0 DEF Writer
    <3> HIDE DEF v
    <3>3. file' = file /\ tears' = tears /\ promised' = promised /\ FileStep(r)
      BY DEF Send, FileStep
    <3>4. WriterMoves(r)
      BY <1>0, <2>1, <3>1, <3>2, <3>3, Unanswered
    <3> QED BY <1>0, <1>1, <3>3, <3>4, OneWriterMoves
  <2> QED BY <1>0, <2>4, <2>5
<1> QED BY <1>2, <1>3 DEF Send

\* What is known of the writer that takes a step.
LEMMA WriterKnown ==
  ASSUME RecorderInv, NEW r \in Recorders
  PROVE  /\ rec \in [Recorders -> Writer] /\ rec[r] \in Writer /\ WriterInv(file, r, rec[r]) /\ file \in Seq(Line)
         /\ (rec[r].at # "recv" => rec[r].st = "up") /\ (rec[r].at # "items" => rec[r].written = 0)
BY DEF RecorderInv, TypeOK, WriterInv, PlaceInv

\* The writer goes to another place of its loop.
LEMMA PlaceChanges ==
  ASSUME NEW f, NEW r, NEW w \in Writer, WriterInv(f, r, w), w.written = 0, w.st = "up",
         NEW v \in Writer, v.at = Stage(v), v.st = w.st, v.written = w.written,
         v.queued = w.queued, v.pending = w.pending, v.meta = w.meta, v.chan = w.chan, v.cmd = w.cmd
  PROVE  WriterInv(f, r, v)
<1>1. Len(v.pending) \in Nat
  BY WriterTyped
<1>2. PlaceInv(v)
  BY <1>1 DEF PlaceInv
<1>3. (v.at = "items" => ~v.meta) /\ (v.at = "meta" => v.meta)
  BY DEF Stage
<1> QED BY <1>2, <1>3, WriterRests

LEMMA ReceiveInv ==
  ASSUME RecorderInv, NEW r \in Recorders, Receive(r) PROVE RecorderInv'
<1> DEFINE w == rec[r]
           x == Head(w.chan)
           u == [w EXCEPT !.chan = Tail(@), !.cmd = x, !.pending = IF x.op = "add" THEN Append(@, x.n) ELSE @]
           v == [u EXCEPT !.at = Stage(w)]
<1>0. w \in Writer /\ WriterInv(file, r, w) /\ w.st = "up" /\ w.at = "recv" /\ w.chan # <<>>
  BY WriterKnown DEF Receive
<1>1. file' = file /\ tears' = tears /\ FileStep(r) /\ RestTyped' /\ IndexStep
  BY RestStays DEF Receive, FileStep
<1>2. \/ /\ \/ x.op = "add" /\ is_deferred(w)
            \/ x.op \in {"flush", "shutdown"} /\ NothingToFlush(w)
         /\ Reply(r, u, TRUE)
      \/ rec' = [rec EXCEPT ![r] = v] /\ UNCHANGED <<caller, promised>>
  BY DEF Receive
<1>3. /\ u \in Writer /\ WriterInv(file, r, u) /\ u.queued = w.queued /\ u.cmd = x /\ u.written = 0
      /\ u.st = w.st /\ u.open = w.open /\ u.meta = w.meta /\ (x.op # "add" => u.pending = w.pending)
  <2>1. w.chan \in Seq(Command) /\ w.pending \in Seq(Nat) /\ w.written = 0
    BY <1>0, WriterTyped, WriterKnown
  <2>2. x \in Command /\ Tail(w.chan) \in Seq(Command) /\ x.n \in Nat
    <3>1. x \in Command /\ Tail(w.chan) \in Seq(Command)
      BY <1>0, <2>1, FirstTaken
    <3> QED BY <3>1 DEF Command
  <2>3. (IF x.op = "add" THEN Append(w.pending, x.n) ELSE w.pending) \in Seq(Nat)
    BY <2>1, <2>2
  <2>4. u \in Writer
    <3> HIDE DEF x
    <3> QED BY <1>0, <2>2, <2>3 DEF Writer
  <2>5. u.cmd = x /\ u.chan = Tail(w.chan) /\ u.pending = IF x.op = "add" THEN Append(w.pending, x.n) ELSE w.pending
    BY <1>0 DEF Writer
  <2>6. u.queued = w.queued /\ u.written = 0 /\ u.meta = w.meta /\ u.st = w.st /\ u.at = w.at /\ u.open = w.open
    BY <1>0, <2>1 DEF Writer
  <2> HIDE DEF u
  <2>7. WriterInv(file, r, u)
    BY <1>0, <2>4, <2>5, <2>6, CommandTaken
  <2>8. x.op # "add" => u.pending = w.pending
    BY <2>5
  <2> QED BY <2>4, <2>5, <2>6, <2>7, <2>8
<1> HIDE DEF u, x
<1>4. CASE /\ \/ x.op = "add" /\ is_deferred(w)
              \/ x.op \in {"flush", "shutdown"} /\ NothingToFlush(w)
           /\ Reply(r, u, TRUE)
  <2>1. x.op \in Barriers => u.pending = <<>>
    BY <1>3, <1>4 DEF NothingToFlush, Barriers
  <2>2. x.op # "persist"
    BY <1>4
  <2>3. WriterMoves(r)
    BY <1>0, <1>1, <1>3, <1>4, <2>1, <2>2, Replied
  <2> QED BY <1>1, <2>3, OneWriterMoves
<1>5. CASE rec' = [rec EXCEPT ![r] = v] /\ UNCHANGED <<caller, promised>>
  <2>0. Stage(w) \in {"open", "meta", "items"}
    BY DEF Stage
  <2>1. /\ v \in Writer /\ v.at = Stage(w) /\ v.st = u.st /\ v.written = u.written /\ v.queued = u.queued
        /\ v.pending = u.pending /\ v.meta = u.meta /\ v.chan = u.chan /\ v.cmd = u.cmd /\ v.open = u.open
    BY <1>3, <2>0 DEF Writer
  <2> HIDE DEF v
  <2>s. v.at = Stage(v)
    BY <1>3, <2>1 DEF Stage
  <2>2. WriterInv(file, r, v)
    BY <1>0, <1>3, <2>1, <2>s, PlaceChanges
  <2>3. WriterMoves(r)
    BY <1>1, <1>3, <1>5, <2>1, <2>2, Unanswered, CallersRest
  <2> QED BY <1>1, <2>3, OneWriterMoves
<1> QED BY <1>2, <1>4, <1>5

LEMMA ReceiveNoneInv ==
  ASSUME RecorderInv, NEW r \in Recorders, ReceiveNone(r) PROVE RecorderInv'
<1> DEFINE w == rec[r]
           v == Gone(w)
<1>0. w \in Writer /\ WriterInv(file, r, w) /\ rec \in [Recorders -> Writer]
  BY WriterKnown
<1>1. v \in Writer /\ WriterInv(file, r, v) /\ v.queued = w.queued
  BY <1>0, WriterEnds
<1>2. rec' = [rec EXCEPT ![r] = v]
  BY <1>0 DEF ReceiveNone
<1> HIDE DEF v
<1>3. RestTyped'
  BY RestStays DEF ReceiveNone
<1> QED BY <1>1, <1>2, <1>3, RecorderChanges DEF ReceiveNone

LEMMA EnsureWriterOpenInv ==
  ASSUME RecorderInv, NEW r \in Recorders, EnsureWriterOpen(r) PROVE RecorderInv'
<1> DEFINE w == rec[r]
           u == [w EXCEPT !.open = TRUE, !.deferred = FALSE]
           v == [u EXCEPT !.at = Stage(u)]
<1>0. /\ w \in Writer /\ WriterInv(file, r, w) /\ w.st = "up" /\ w.at = "open" /\ w.written = 0
      /\ rec \in [Recorders -> Writer]
  BY WriterKnown DEF EnsureWriterOpen
<1>1. file' = file /\ tears' = tears /\ FileStep(r) /\ IndexStep
  BY RestStays DEF EnsureWriterOpen, FileStep
<1>2. CASE Trouble /\ Fail(r, w) /\ UNCHANGED exists
  <2>1. RestTyped'
    BY <1>2, RestStays DEF EnsureWriterOpen, Trouble
  <2>2. WriterMoves(r)
    BY <1>0, <1>1, <1>2, Failed
  <2> QED BY <1>1, <2>1, <2>2, OneWriterMoves
<1>3. CASE /\ rec' = [rec EXCEPT ![r] = v]
           /\ exists' = TRUE
           /\ UNCHANGED <<caller, promised, count>>
  <2>1. u \in Writer /\ u.st = w.st /\ u.written = w.written /\ u.queued = w.queued
        /\ u.pending = w.pending /\ u.meta = w.meta /\ u.chan = w.chan /\ u.cmd = w.cmd
    BY <1>0 DEF Writer
  <2> HIDE DEF u
  <2>2. Stage(u) \in {"open", "meta", "items"}
    BY DEF Stage
  <2>3. /\ v \in Writer /\ v.at = Stage(u) /\ v.st = u.st /\ v.written = u.written /\ v.queued = u.queued
        /\ v.pending = u.pending /\ v.meta = u.meta /\ v.chan = u.chan /\ v.cmd = u.cmd /\ v.open = u.open
    BY <2>1, <2>2 DEF Writer
  <2> HIDE DEF v
  <2>4. v.at = Stage(v)
    BY <2>3 DEF Stage
  <2>5. WriterInv(file, r, v)
    BY <1>0, <2>1, <2>3, <2>4, PlaceChanges
  <2>6. RestTyped'
    <3>1. RestTyped
      BY RestStays
    <3> QED BY <1>3, <3>1 DEF EnsureWriterOpen, RestTyped
  <2> QED BY <1>1, <1>3, <2>1, <2>3, <2>5, <2>6, RecorderChanges DEF EnsureWriterOpen
<1> QED BY <1>2, <1>3 DEF EnsureWriterOpen

LEMMA TearsTyped == \A t \in Tears : t \in Line /\ IsTear(t) /\ ~IsBody(t) /\ t.kind # "item"
BY DEF Tears, Line, IsTear, IsBody

\* A write that is cut short, with or without a tear.
LEMMA TornFile ==
  ASSUME RecorderInv, NEW r \in Recorders, Torn
  PROVE  /\ FileStep(r)
         /\ \A w \in Writer : WriterInv(file, r, w) => WriterInv(file', r, w)
         /\ \A i : OnFile(file, i) => OnFile(file', i)
<1>1. CASE UNCHANGED <<file, tears>>
  BY <1>1 DEF FileStep
<1>2. CASE \E t \in Tears : file' = Append(file, t) /\ tears' = tears + 1
  <2>0. PICK t \in Tears : file' = Append(file, t) /\ tears' = tears + 1
    BY <1>2
  <2>t. file \in Seq(Line) /\ t \in Line /\ IsTear(t) /\ ~IsBody(t) /\ t.kind # "item"
    BY TearsTyped DEF RecorderInv, TypeOK
  <2>1. FileStep(r)
    BY <2>0, <2>t DEF FileStep, LineFrom
  <2>2. ASSUME NEW w \in Writer, WriterInv(file, r, w) PROVE WriterInv(file', r, w)
    BY <2>0, <2>t, <2>2, OthersWrite
  <2>3. \A i : OnFile(file, i) => OnFile(file', i)
    BY <2>0, <2>t, OnFileGrows
  <2> QED BY <2>1, <2>2, <2>3
<1> QED BY <1>1, <1>2 DEF Torn

LEMMA WriteMetaInv ==
  ASSUME RecorderInv, NEW r \in Recorders, WriteMeta(r) PROVE RecorderInv'
<1> DEFINE w == rec[r]
           v == [w EXCEPT !.meta = FALSE, !.at = "items"]
<1>0. /\ w \in Writer /\ WriterInv(file, r, w) /\ w.st = "up" /\ w.at = "meta" /\ w.written = 0
      /\ rec \in [Recorders -> Writer] /\ file \in Seq(Line)
  BY WriterKnown DEF WriteMeta
<1>1. IndexStep
  BY RestStays DEF WriteMeta
<1>2. CASE TornWrite /\ Fail(r, [w EXCEPT !.meta = MetaAfterFailure(w)])
  <2>1. [w EXCEPT !.meta = MetaAfterFailure(w)] = w
    BY <1>0 DEF Writer, MetaAfterFailure
  <2>2. FileStep(r) /\ WriterInv(file', r, w) /\ RestTyped'
    BY <1>0, <1>2, TornFile, RestStays DEF WriteMeta, TornWrite, Trouble
  <2>3. WriterMoves(r)
    BY <1>0, <1>2, <2>1, <2>2, Failed
  <2> QED BY <1>1, <2>2, <2>3, OneWriterMoves
<1>3. CASE /\ file' = Append(file, MetaLine)
           /\ rec' = [rec EXCEPT ![r].meta = FALSE, ![r].at = "items"]
           /\ UNCHANGED <<caller, promised, tears, count>>
  <2>1. rec' = [rec EXCEPT ![r] = v] /\ v = [w EXCEPT !.meta = FALSE, !.at = "items"]
    BY <1>0, <1>3
  <2>2. v \in Writer /\ v.queued = w.queued /\ WriterInv(file', r, v)
    <3>1. /\ v \in Writer /\ v.queued = w.queued /\ v.pending = w.pending /\ v.written = w.written /\ v.chan = w.chan
          /\ v.cmd = w.cmd /\ v.st = w.st /\ v.meta = FALSE /\ v.at = "items"
      BY <1>0 DEF Writer
    <3> HIDE DEF v
    <3> QED BY <1>0, <1>3, <3>1, MetaWritten
  <2> HIDE DEF v
  <2>3. FileStep(r)
    <3>1. w.meta
      BY <1>0 DEF WriterInv, MetaInv
    <3>2. LineFrom(r, MetaLine) /\ ~IsTear(MetaLine)
      BY <3>1 DEF LineFrom, MetaLine, Line, IsTear
    <3>3. tears' = tears + 0
      BY <1>3 DEF RecorderInv, TypeOK
    <3> QED BY <1>3, <3>2, <3>3 DEF FileStep
  <2>4. RestTyped'
    BY <1>3, RestStays DEF WriteMeta
  <2>5. WriterMoves(r)
    BY <1>3, <2>1, <2>2, Unanswered, CallersRest
  <2> QED BY <1>1, <2>3, <2>4, <2>5, OneWriterMoves
<1> QED BY <1>2, <1>3 DEF WriteMeta

LEMMA WriteItemInv ==
  ASSUME RecorderInv, NEW r \in Recorders, WriteItem(r) PROVE RecorderInv'
<1> DEFINE w == rec[r]
           x == w.pending[w.written + 1]
           v == [w EXCEPT !.written = @ + 1]
<1>0. /\ w \in Writer /\ WriterInv(file, r, w) /\ w.st = "up" /\ w.at = "items" /\ w.written < Len(w.pending)
      /\ rec \in [Recorders -> Writer] /\ file \in Seq(Line)
  BY WriterKnown DEF WriteItem
<1>1. CASE TornWrite /\ (SyncThreadState(w) \/ UNCHANGED indexed) /\ Fail(r, Drained(w))
  <2>1. /\ Drained(w) \in Writer /\ WriterInv(file, r, Drained(w)) /\ Drained(w).written = 0
        /\ Drained(w).queued = w.queued /\ Drained(w).at = "items"
    BY <1>0, WriterDrains
  <2>2. FileStep(r) /\ WriterInv(file', r, Drained(w)) /\ RestTyped'
    BY <1>1, <2>1, TornFile, RestStays DEF WriteItem, TornWrite, Trouble
  <2>3. WriterMoves(r)
    BY <1>1, <2>1, <2>2, Failed
  <2>4. IndexStep
    <3>1. ASSUME NEW k \in 1 .. w.written PROVE w.pending[k] \in Nat /\ OnFile(file', w.pending[k])
      <4>1. OnFile(file, w.pending[k])
        BY <1>0 DEF WriterInv, OwnInv
      <4>2. k \in DOMAIN w.pending
        BY <1>0, WriterTyped DEF WriterInv, PlaceInv
      <4> QED BY <1>0, <1>1, <4>1, <4>2, WriterTyped, TornFile DEF TornWrite
    <3>2. indexed \subseteq Nat
      BY DEF RecorderInv, TypeOK
    <3> QED BY <1>1, <3>1, <3>2 DEF IndexStep, SyncThreadState
  <2> QED BY <2>2, <2>3, <2>4, OneWriterMoves
<1>2. CASE /\ file' = Append(file, ItemLine(x))
           /\ rec' = [rec EXCEPT ![r].written = @ + 1]
           /\ UNCHANGED <<caller, indexed, promised, tears, count>>
  <2>1. rec' = [rec EXCEPT ![r] = v]
    BY <1>0, <1>2
  <2>2. /\ v \in Writer /\ WriterInv(file', r, v) /\ v.queued = w.queued
        /\ x \in Numbers(w) /\ ItemLine(x) \in Line /\ HasMeta(file)
    <3>1. v \in Writer /\ v.written = w.written + 1
      <4>1. w.written + 1 \in Nat
        BY <1>0, WriterTyped
      <4> QED BY <1>0, <4>1 DEF Writer
    <3>2. /\ v.queued = w.queued /\ v.pending = w.pending /\ v.chan = w.chan
          /\ v.cmd = w.cmd /\ v.meta = w.meta /\ v.at = w.at /\ v.st = w.st
      BY <1>0 DEF Writer
    <3>3. file' = Append(file, ItemLine(w.pending[w.written + 1]))
      BY <1>2
    <3> HIDE DEF v, w, x
    <3>4. /\ WriterInv(file', r, v) /\ w.pending[w.written + 1] \in Numbers(w)
          /\ ItemLine(w.pending[w.written + 1]) \in Line /\ HasMeta(file)
      BY <1>0, <3>1, <3>2, <3>3, ItemWritten
    <3> QED BY <3>1, <3>2, <3>4 DEF x
  <2> HIDE DEF v, x
  <2>3. FileStep(r)
    <3>1. LineFrom(r, ItemLine(x)) /\ ~IsTear(ItemLine(x))
      BY <2>2, ItemLineIs DEF LineFrom, IsTear
    <3>2. tears' = tears + 0
      BY <1>2 DEF RecorderInv, TypeOK
    <3> QED BY <1>2, <3>1, <3>2 DEF FileStep
  <2>4. RestTyped' /\ IndexStep
    BY <1>2, RestStays DEF WriteItem
  <2>5. WriterMoves(r)
    BY <1>2, <2>1, <2>2, Unanswered, CallersRest
  <2> QED BY <2>3, <2>4, <2>5, OneWriterMoves
<1> QED BY <1>1, <1>2 DEF WriteItem

LEMMA FinishWriteInv ==
  ASSUME RecorderInv, NEW r \in Recorders, FinishWrite(r) PROVE RecorderInv'
<1> DEFINE w == rec[r]
<1>0. /\ w \in Writer /\ WriterInv(file, r, w) /\ w.st = "up" /\ w.at = "items" /\ w.written = Len(w.pending)
      /\ rec \in [Recorders -> Writer] /\ file \in Seq(Line) /\ file' = file
  BY WriterKnown DEF FinishWrite
<1>1. /\ Drained(w) \in Writer /\ WriterInv(file, r, Drained(w)) /\ Drained(w).written = 0
      /\ Drained(w).queued = w.queued /\ Drained(w).st = "up" /\ Drained(w).pending = <<>>
  BY <1>0, WriterDrains
<1>2. HasMeta(file)
  BY <1>0 DEF WriterInv, MetaInv
<1>3. WriterMoves(r)
  BY <1>0, <1>1, <1>2, Replied DEF FinishWrite
<1>4. FileStep(r)
  BY DEF FinishWrite, FileStep
<1>5. IndexStep
  <2>1. ASSUME NEW k \in 1 .. w.written PROVE w.pending[k] \in Nat /\ OnFile(file, w.pending[k])
    <3>1. OnFile(file, w.pending[k])
      BY <1>0 DEF WriterInv, OwnInv
    <3>2. k \in DOMAIN w.pending
      BY <1>0, WriterTyped
    <3> QED BY <1>0, <3>1, <3>2, WriterTyped
  <2>2. indexed \subseteq Nat
    BY DEF RecorderInv, TypeOK
  <2> QED BY <1>0, <2>1, <2>2 DEF FinishWrite, IndexStep, SyncThreadState
<1>6. RestTyped'
  BY RestStays DEF FinishWrite, Trouble
<1> QED BY <1>3, <1>4, <1>5, <1>6, OneWriterMoves

LEMMA AppendToPathInv ==
  ASSUME RecorderInv, NEW line \in Line, ~IsTear(line), line.kind # "item", line # MetaLine,
         IsBody(line) => HasMeta(file), AppendToPath(line)
  PROVE  RecorderInv'
<1> DEFINE r == 1
<1>0. r \in Recorders
  BY RolloutAssumption DEF Recorders
<1> HIDE DEF r
<1>1. rec[r] \in Writer /\ WriterInv(file, r, rec[r]) /\ file \in Seq(Line) /\ rec \in [Recorders -> Writer]
  BY <1>0, WriterKnown
<1>r. RestTyped' /\ rec' = [rec EXCEPT ![r] = rec[r]] /\ UNCHANGED promised /\ CallersInv(caller')
  <2>1. RestTyped'
    BY RestStays DEF AppendToPath, Trouble
  <2> QED BY <1>0, <1>1, <2>1, CallersRest DEF AppendToPath
<1>2. CASE Torn /\ UNCHANGED indexed
  <2>1. FileStep(r) /\ WriterInv(file', r, rec[r]) /\ IndexStep
    BY <1>0, <1>1, <1>2, TornFile, RestStays
  <2>2. WriterMoves(r)
    BY <1>0, <1>1, <1>r, <2>1, Unanswered
  <2> QED BY <1>0, <1>r, <2>1, <2>2, OneWriterMoves
<1>3. CASE /\ file' = Append(file, line)
           /\ \/ indexed' = indexed \cup {l.n : l \in {k \in Loaded(file') : k.kind = "item"}}
              \/ UNCHANGED indexed
           /\ UNCHANGED tears
  <2>1. FileStep(r)
    <3>1. LineFrom(r, line)
      BY DEF LineFrom
    <3>2. tears' = tears + 0
      BY <1>3 DEF RecorderInv, TypeOK
    <3> QED BY <1>3, <3>1, <3>2 DEF FileStep
  <2>2. WriterInv(file', r, rec[r])
    <3>1. IsBody(line) => ~rec[r].meta
      BY <1>1 DEF WriterInv, MetaInv, HasMeta, NoBody, IsBody, MetaLine
    <3> QED BY <1>1, <1>3, <3>1, OthersWrite
  <2>3. IndexStep
    <3>1. file' \in Seq(Line)
      BY <1>1, <1>3, LineAdded
    <3>2. \A l \in Line : l.n \in Nat /\ (l.kind = "item" => l = ItemLine(l.n))
      BY DEF Line, ItemLine
    <3>3. \A l \in Loaded(file') : \E k \in DOMAIN file' : file'[k] = l
      BY DEF Loaded, Parsed
    <3>4. \A l \in Loaded(file') : l.kind = "item" => l.n \in Nat /\ OnFile(file', l.n)
      BY <3>1, <3>2, <3>3 DEF OnFile
    <3>5. indexed \subseteq Nat
      BY DEF RecorderInv, TypeOK
    <3> QED BY <1>3, <3>4, <3>5 DEF IndexStep
  <2>4. WriterMoves(r)
    BY <1>0, <1>1, <1>r, <2>2, Unanswered
  <2> QED BY <1>0, <1>r, <2>1, <2>3, <2>4, OneWriterMoves
<1> QED BY <1>2, <1>3 DEF AppendToPath

LEMMA ApplyThreadNameInv ==
  ASSUME RecorderInv, ApplyThreadName PROVE RecorderInv'
<1>1. /\ NoteLine \in Line /\ ~IsTear(NoteLine) /\ NoteLine.kind # "item" /\ NoteLine # MetaLine
      /\ ~IsBody(NoteLine)
  BY DEF NoteLine, MetaLine, Line, IsTear, IsBody
<1> QED BY <1>1, AppendToPathInv DEF ApplyThreadName

LEMMA ApplyThreadMemoryModeInv ==
  ASSUME RecorderInv, ApplyThreadMemoryMode PROVE RecorderInv'
<1>1. ModeLine \in Line /\ ~IsTear(ModeLine) /\ ModeLine.kind # "item" /\ ModeLine # MetaLine
  BY DEF ModeLine, MetaLine, Line, IsTear
<1>2. HasMeta(file)
  <2>1. PICK l \in Parsed(file) : l.kind = "meta"
    BY DEF ApplyThreadMemoryMode
  <2> QED BY <2>1, ParsedMeta
<1> QED BY <1>1, <1>2, AppendToPathInv DEF ApplyThreadMemoryMode

LEMMA CrashInv ==
  ASSUME RecorderInv, Crash PROVE RecorderInv'
<1>0. 1 \in Recorders /\ rec \in [Recorders -> Writer] /\ file \in Seq(Line)
  BY RolloutAssumption DEF Recorders, RecorderInv, TypeOK
<1>1. Torn
  BY DEF Crash, Torn
<1>2. FileStep(1)
  BY <1>0, <1>1, TornFile
<1>3. file' = file \/ \E t \in Line : t.kind # "item" /\ file' = Append(file, t)
  BY <1>1, TearsTyped DEF Torn
<1>4. ASSUME NEW s \in Recorders
      PROVE  rec'[s] \in Writer /\ rec'[s].queued = rec[s].queued /\ WriterInv(file', s, rec'[s])
  <2>1. rec[s] \in Writer /\ WriterInv(file, s, rec[s])
    BY <1>0 DEF RecorderInv
  <2>2. WriterInv(file', s, rec[s])
    BY <1>1, <2>1, TornFile
  <2>3. CASE rec[s].st = "none"
    BY <2>1, <2>2, <2>3 DEF Crash
  <2>4. CASE rec[s].st # "none"
    <3>1. rec'[s] = Gone(rec[s])
      BY <2>4 DEF Crash
    <3>2. Gone(rec[s]) \in Writer /\ WriterInv(file', s, Gone(rec[s])) /\ Gone(rec[s]).queued = rec[s].queued
      BY <2>1, <2>2, WriterEnds, ZenonT(60)
    <3> QED BY <3>1, <3>2
  <2> QED BY <2>3, <2>4
<1>5. rec' \in [Recorders -> Writer]
  <2>1. rec' = [s \in Recorders |-> rec'[s]]
    BY DEF Crash
  <2> QED BY <1>4, <2>1
<1>6. NumbersInv'
  BY <1>0, <1>3, <1>4, NumbersStay DEF RecorderInv
<1>7. CallersInv(caller')
  BY IdleTyped DEF Crash, CallersInv
<1>8. PromisesStep /\ IndexStep
  BY RestStays DEF Crash, PromisesStep, RecorderInv, TypeOK
<1>9. RestTyped'
  <2>1. RestTyped
    BY RestStays
  <2>2. count' \in [{"calls", "troubles"} -> Nat]
    BY <2>1 DEF Crash, Trouble, Bump, RestTyped
  <2>3. session' \in [Recorders -> {"none", "init", "open", "failed", "ended"}]
    BY DEF Crash
  <2> QED BY <2>1, <2>2, <2>3 DEF Crash, RestTyped
<1> QED BY <1>0, <1>2, <1>4, <1>5, <1>6, <1>7, <1>8, <1>9, Assembled

LEMMA InitRecorderInv ==
  ASSUME Init PROVE RecorderInv
<1>0. <<>> \in Seq(Line) /\ DOMAIN <<>> = {}
  OBVIOUS
<1>1. TypeOK
  <2>1. rec \in [Recorders -> Writer]
    BY WriterOpens DEF Init
  <2>2. caller \in [Callers -> CallerType]
    BY IdleTyped DEF Init
  <2>3. exists \in BOOLEAN /\ session \in [Recorders -> {"none", "init", "open", "failed", "ended"}]
    BY DEF Init
  <2> QED BY <1>0, <2>1, <2>2, <2>3 DEF Init, TypeOK, CallerType
<1>2. \A r \in Recorders : WriterInv(file, r, rec[r]) /\ rec[r].queued = <<>> /\ Numbers(rec[r]) = {}
  BY WriterOpens DEF Init
<1>3. NumbersInv
  <2>1. Slots = {}
    BY <1>0, <1>2 DEF Slots
  <2> QED BY <1>0, <1>2, <2>1, FS_EmptySet DEF Init, NumbersInv
<1>4. MetaComesFirst /\ PromisedInv
  BY <1>0 DEF Init, MetaComesFirst, PromisedInv
<1>5. Cardinality(TearsOf(file)) = tears
  <2>1. TearsOf(file) = {}
    BY <1>0 DEF Init, TearsOf
  <2> QED BY <2>1, FS_EmptySet DEF Init
<1>6. \A c \in Callers : caller[c].at # "sending"
  BY IdleTyped DEF Init
<1> QED BY <1>1, <1>2, <1>3, <1>4, <1>5, <1>6 DEF Init, RecorderInv

LEMMA NextRecorderInv ==
  ASSUME RecorderInv, [Next]_vars PROVE RecorderInv'
<1>1. CASE UNCHANGED vars
  <2>1. CallersInv(caller') /\ RestTyped'
    BY <1>1, CallersRest, RestStays DEF vars
  <2> QED BY <1>1, <2>1, SessionMoves DEF vars
<1>2. ASSUME NEW r \in Recorders, WriterStep(r) PROVE RecorderInv'
  BY <1>2, ReceiveInv, ReceiveNoneInv, EnsureWriterOpenInv, WriteMetaInv, WriteItemInv, FinishWriteInv DEF WriterStep
<1>3. ASSUME NEW c \in Callers, CallerStep(c) PROVE RecorderInv'
  BY <1>3, SendInv, ShutdownThreadInv DEF CallerStep
<1> QED BY <1>1, <1>2, <1>3, CreateThreadInv, ResumeThreadInv, EndInitInv, DropSessionInv, BeginInv,
           ApplyThreadNameInv, ApplyThreadMemoryModeInv, CrashInv DEF Next

\* RecorderInv holds in every state, for any number of recorders, callers,
\* calls, faults and crashes, two writers of one file included: each keeps what it accepted, in order, in
\* exactly one of the file, the buffer and the channel (rollout_writer and
\* write_pending_with_recovery).
THEOREM RecorderSafety == Spec => []RecorderInv
<1>1. Init => RecorderInv
  BY InitRecorderInv
<1>2. RecorderInv /\ [Next]_vars => RecorderInv'
  BY NextRecorderInv
<1> QED BY <1>1, <1>2, PTL DEF Spec

\* The session metadata is written once and comes before every item and every
\* copy of the metadata, whatever fails and whoever else appends to the file
\* (write_session_meta_if_needed, apply_thread_name, apply_thread_memory_mode).
THEOREM MetaComesFirstAlways == Spec => []MetaComesFirst
<1>1. RecorderInv => MetaComesFirst
  BY DEF RecorderInv
<1> QED BY <1>1, RecorderSafety, PTL

LEMMA InvAccounts ==
  ASSUME RecorderInv PROVE ItemsAccountedFor
<1>1. ASSUME NEW r \in Recorders, rec[r].st # "gone", NEW i \in Numbers(rec[r])
      PROVE  OnFile(file, i) \/ i \in Buffered(rec[r]) \/ i \in InChannel(rec[r])
  <2>1. PICK k \in DOMAIN rec[r].queued : rec[r].queued[k] = i
    BY DEF Numbers
  <2>2. ASSUME NEW j \in DOMAIN rec[r].chan, Behind(rec[r], k, j) PROVE i \in InChannel(rec[r])
    BY <2>1, <2>2 DEF Behind, InChannel
  <2> QED BY <1>1, <2>1, <2>2 DEF RecorderInv, WriterInv, Covered
<1>2. \A r \in Recorders : ItemsInOrder(file, rec[r])
  BY DEF RecorderInv, WriterInv
<1> QED BY <1>1, <1>2 DEF RecorderInv, ItemsAccountedFor

\* No item is lost, repeated or reordered on its way to the file, and the
\* state database knows no item that the file does not have
\* (write_pending_items_once, sync_thread_state_after_write).
THEOREM ItemsAccountedForAlways == Spec => []ItemsAccountedFor
<1>1. RecorderInv => ItemsAccountedFor
  BY InvAccounts
<1> QED BY <1>1, RecorderSafety, PTL

\* A promised line that the reader does not find stands behind a tear, and no
\* two of them behind the same one.
LEMMA InvKeepsPromises ==
  ASSUME RecorderInv PROVE PromisesAreKept
<1> SUFFICES ASSUME Readable(file) PROVE Cardinality(promised \ Loaded(file)) <= tears
  BY DEF PromisesAreKept
<1> DEFINE D == promised \ Loaded(file)
           place(l) == CHOOSE k \in DOMAIN file : file[k] = l
           m == [l \in D |-> place(l) - 1]
<1>0. file \in Seq(Line) /\ Len(file) \in Nat /\ DOMAIN file = 1 .. Len(file)
  BY DEF RecorderInv, TypeOK
<1>1. ASSUME NEW l \in D PROVE place(l) \in DOMAIN file /\ file[place(l)] = l
  BY DEF RecorderInv, PromisedInv
<1> HIDE DEF place
<1>2. ASSUME NEW l \in D PROVE place(l) - 1 \in TearsOf(file)
  <2>1. ~IsTear(l) /\ l \notin Loaded(file)
    BY DEF RecorderInv, PromisedInv
  <2>2. place(l) # 1 /\ IsTear(file[place(l) - 1])
    BY <1>1, <2>1 DEF Loaded, Parsed
  <2>3. place(l) - 1 \in DOMAIN file
    BY <1>0, <1>1, <2>2
  <2> QED BY <2>2, <2>3 DEF TearsOf
<1>3. m \in Injection(D, TearsOf(file))
  <2>1. m \in [D -> TearsOf(file)]
    BY <1>2
  <2>2. ASSUME NEW a \in D, NEW b \in D, m[a] = m[b] PROVE a = b
    <3>1. place(a) - 1 = place(b) - 1
      BY <2>2
    <3>2. place(a) \in Int /\ place(b) \in Int
      BY <1>0, <1>1
    <3>3. place(a) = place(b)
      BY <3>1, <3>2
    <3> QED BY <1>1, <3>3
  <2> HIDE DEF m, D
  <2> QED BY <2>1, <2>2 DEF Injection, IsInjective
<1> HIDE DEF m, D
<1>4. IsFiniteSet(TearsOf(file))
  <2>1. NoteLine \in Line
    BY DEF NoteLine, Line
  <2> QED BY <1>0, <2>1, TearsCounted
<1>5. Cardinality(D) <= Cardinality(TearsOf(file))
  BY <1>3, <1>4, FS_Injection
<1> QED BY <1>5 DEF RecorderInv, D

\* What a barrier answered Ok for is found by every later reader of the file,
\* but for at most one line for each torn write, unless a tear has cut a
\* character in two: no retry, reopened file, resumed session, second writer
\* or crash loses more (persist, flush and shutdown, load_rollout_items).
THEOREM PromisesAreKeptAlways == Spec => []PromisesAreKept
<1>1. RecorderInv => PromisesAreKept
  BY InvKeepsPromises
<1> QED BY <1>1, RecorderSafety, PTL
=============================================================================
