---------------------------- MODULE RelayProofs ----------------------------
(***************************************************************************)
(* Theorems about the relay, for any number of connections and any amount  *)
(* of data.                                                                *)
(*                                                                         *)
(*   RelayTypeCorrect: RelayTypeOK.                                        *)
(*   NoSocketIsLeft: NoSocketLeft.                                         *)
(*   NoTaskOutlivesTheRelay: NoTaskOutlives.                               *)
(*   AnswersAreComplete: AnswersComplete.                                  *)
(*                                                                         *)
(* ConnOK, an invariant of each connection by itself, says why a pipe may  *)
(* be over; TasksInv relates the tasks to how far await_closed() is.       *)
(***************************************************************************)
EXTENDS Relay, TLAPS

\* Both sockets are there when the pipes begin, and a pipe that runs has the side
\* it writes to open.
SocketsOK(k) ==
    /\ k.phase \notin {"none", "piping", "done"} => k.writer["client"] = "open"
    /\ k.phase \in {"greeting", "body"} => k.writer["origin"] = "open"
    /\ k.phase = "piping" => \A s \in Sides : k.pipe[s] => k.writer[Other[s]] = "open"
    /\ k.phase \in {"none", "done"} => \A s \in Sides : k.writer[s] # "open"

\* Something of what Chrome sent could not be written.
Unwritten(k) == k.read["client"] < k.sent["client"]

\* The first pipe to end has ended for its own reader or for the peer of its
\* writer; the second may have ended for the first.
PipesOK(k) ==
    k.phase = "piping" =>
        /\ ~k.pipe["origin"] =>
            \/ k.eof["origin"] /\ k.read["origin"] = k.sent["origin"]
            \/ k.eof["client"]
            \/ ~k.pipe["client"] /\ Unwritten(k)
        /\ k.pipe["origin"] /\ ~k.pipe["client"] => k.eof["client"] \/ Unwritten(k)

ConnOK(k) ==
    /\ k \in Connection
    /\ \A s \in Sides : k.read[s] <= k.sent[s]
    /\ SocketsOK(k) /\ PipesOK(k)

TasksInv ==
    /\ relay \in {"open", "gathering", "waiting", "closed"}
    /\ tasks \subseteq Conns /\ drains \in BOOLEAN
    /\ relay \in {"waiting", "closed"} => \A c \in tasks : ~Live(c)
    /\ relay = "closed" /\ drains => \A c \in Conns : ~Live(c)

RelayInv ==
    /\ conn \in [Conns -> Connection]
    /\ \A c \in Conns : ConnOK(conn[c])
    /\ TasksInv

-----------------------------------------------------------------------------
LEMMA OtherSide ==
    /\ Other["client"] = "origin" /\ Other["origin"] = "client"
    /\ Sides = {"client", "origin"}
  BY DEF Other, Sides

\* What is known of a connection
LEMMA Fields ==
    ASSUME NEW k, k \in Connection
    PROVE  /\ k.phase \in Phases /\ k.proxied \in BOOLEAN /\ k.cancelled \in BOOLEAN
           /\ k.writer \in [Sides -> {"none", "open", "closed"}]
           /\ k.pipe \in [Sides -> BOOLEAN] /\ k.eof \in [Sides -> BOOLEAN]
           /\ k.behind \in [Sides -> BOOLEAN]
           /\ k.sent \in [Sides -> Nat] /\ k.read \in [Sides -> Nat]
           /\ k = [phase |-> k.phase, proxied |-> k.proxied, writer |-> k.writer,
                   pipe |-> k.pipe, sent |-> k.sent, read |-> k.read, eof |-> k.eof,
                   behind |-> k.behind, cancelled |-> k.cancelled]
  BY DEF Connection

LEMMA Rephased ==
    ASSUME NEW k \in Connection, NEW p \in Phases, NEW proxied \in BOOLEAN, NEW a,
           a = [k EXCEPT !.phase = p, !.proxied = proxied]
    PROVE  a = [phase |-> p, proxied |-> proxied, writer |-> k.writer,
                pipe |-> k.pipe, sent |-> k.sent, read |-> k.read, eof |-> k.eof,
                behind |-> k.behind, cancelled |-> k.cancelled]
  BY DEF Connection

LEMMA Rewritten ==
    ASSUME NEW k \in Connection, NEW p \in Phases,
           NEW writer \in [Sides -> {"none", "open", "closed"}], NEW a,
           a = [k EXCEPT !.phase = p, !.writer = writer]
    PROVE  a = [phase |-> p, proxied |-> k.proxied, writer |-> writer,
                pipe |-> k.pipe, sent |-> k.sent, read |-> k.read, eof |-> k.eof,
                behind |-> k.behind, cancelled |-> k.cancelled]
  BY DEF Connection

\* The same for both sides
Both(v) == [s \in Sides |-> v]

LEMMA BothSides ==
    /\ \A v : DOMAIN Both(v) = Sides /\ \A s \in Sides : Both(v)[s] = v
    /\ Both(0) \in [Sides -> Nat]
    /\ Both(TRUE) \in [Sides -> BOOLEAN] /\ Both(FALSE) \in [Sides -> BOOLEAN]
    /\ Both("none") \in [Sides -> {"none", "open", "closed"}]
    /\ None = [phase |-> "none", proxied |-> FALSE, writer |-> Both("none"),
               pipe |-> Both(FALSE), sent |-> Both(0), read |-> Both(0),
               eof |-> Both(FALSE), behind |-> Both(FALSE), cancelled |-> FALSE]
  BY DEF Both, None

\* The end of handle() leaves a connection in order, whatever it was.
LEMMA FinishedOK ==
    ASSUME NEW k \in Connection
    PROVE  ConnOK(Finished(k)) /\ Finished(k).phase = "done"
<1> DEFINE w == [s \in Sides |-> IF k.writer[s] = "none" THEN "none" ELSE "closed"]
           f == [phase |-> "done", proxied |-> FALSE, writer |-> w,
                 pipe |-> Both(FALSE), sent |-> Both(0), read |-> Both(0),
                 eof |-> Both(FALSE), behind |-> Both(FALSE), cancelled |-> FALSE]
<1>1. w \in [Sides -> {"none", "open", "closed"}] /\ \A s \in Sides : w[s] # "open"
  OBVIOUS
<1>2. Finished(k) = f
  <2>1. Closed(k.writer) = w
    BY DEF Closed
  <2> HIDE DEF w
  <2>2. Finished(k) = [None EXCEPT !.phase = "done", !.writer = w]
    BY <2>1 DEF Finished
  <2>3. None = [phase |-> "none", proxied |-> FALSE, writer |-> Both("none"),
                pipe |-> Both(FALSE), sent |-> Both(0), read |-> Both(0),
                eof |-> Both(FALSE), behind |-> Both(FALSE), cancelled |-> FALSE]
    BY BothSides
  <2> QED BY <2>2, <2>3
<1> HIDE DEF w
<1>3. f \in Connection
  BY <1>1, BothSides DEF Connection, Phases
<1>4. ConnOK(f)
  BY <1>1, <1>3, BothSides DEF ConnOK, SocketsOK, PipesOK
<1> QED BY <1>2, <1>4

LEMMA NoneOK == ConnOK(None) /\ None.phase = "none"
<1>1. None \in Connection
  BY BothSides DEF Connection, Phases
<1> QED BY <1>1, BothSides DEF ConnOK, SocketsOK, PipesOK

LEMMA RelayStart == RelayInit => RelayInv
  BY NoneOK DEF RelayInit, RelayInv, TasksInv, Live, ConnOK

-----------------------------------------------------------------------------
\* A step of one connection that leaves the others and await_closed() alone
LEMMA Becomes ==
    ASSUME RelayInv, NEW c \in Conns, NEW new, Become(c, new), ConnOK(new),
           UNCHANGED <<relay, drains>>,
           tasks' = tasks \/ (relay = "open" /\ tasks' = tasks \union {c}),
           Live(c) \/ relay = "open" \/ new.phase \in {"none", "done"}
    PROVE  RelayInv'
<1>1. conn' \in [Conns -> Connection] /\ \A d \in Conns : ConnOK(conn'[d])
  BY DEF RelayInv, Become, ConnOK
<1>2. \A d \in Conns : Live(d)' => Live(d) \/ relay = "open"
  BY DEF RelayInv, Become, Live
<1>3. TasksInv'
  BY <1>2 DEF RelayInv, TasksInv
<1> QED BY <1>1, <1>3 DEF RelayInv

\* The pipes begin, with nothing of what came with the header passed on or all.
LEMMA PipingOK ==
    ASSUME NEW k, ConnOK(k), k.writer["client"] = "open", k.writer["origin"] = "open"
    PROVE  ConnOK(Piping(k)) /\ Piping(k).phase = "piping"
<1>1. k \in Connection
  BY DEF ConnOK
<1> DEFINE pipe == Both(TRUE)
<1>2. Piping(k) = [phase |-> "piping", proxied |-> FALSE, writer |-> k.writer,
                   pipe |-> pipe, sent |-> k.sent, read |-> k.read, eof |-> k.eof,
                   behind |-> k.behind, cancelled |-> k.cancelled]
  <2>1. Piping(k) = [k EXCEPT !.phase = "piping", !.pipe = pipe, !.proxied = FALSE]
    BY DEF Piping, Both
  <2> HIDE DEF pipe
  <2> QED BY <1>1, <2>1, Fields
<1>3. pipe \in [Sides -> BOOLEAN] /\ \A s \in Sides : pipe[s] = TRUE
  BY BothSides
<1> HIDE DEF pipe
<1>4. Piping(k) \in Connection
  BY <1>1, <1>2, <1>3, Fields DEF Connection, Phases
<1>5. SocketsOK(Piping(k))
  BY <1>2, OtherSide DEF SocketsOK
<1>6. PipesOK(Piping(k))
  BY <1>2, <1>3, OtherSide DEF PipesOK
<1> QED BY <1>2, <1>4, <1>5, <1>6 DEF ConnOK

LEMMA WithBodyOK ==
    ASSUME NEW k, ConnOK(k), k.phase \in {"greeting", "body"}
    PROVE  /\ ConnOK(WithBody(k))
           /\ WithBody(k).writer = k.writer /\ WithBody(k).phase = k.phase
<1>1. k \in Connection
  BY DEF ConnOK
<1> DEFINE read == [k.read EXCEPT !["client"] = k.sent["client"]]
<1>2. /\ read \in [Sides -> Nat]
      /\ \A s \in Sides : read[s] <= k.sent[s]
  BY <1>1, Fields, OtherSide DEF ConnOK
<1>3. WithBody(k) = [k EXCEPT !.read = read]
  BY DEF WithBody
<1> HIDE DEF read
<1>4. WithBody(k) = [phase |-> k.phase, proxied |-> k.proxied, writer |-> k.writer,
                     pipe |-> k.pipe, sent |-> k.sent, read |-> read, eof |-> k.eof,
                     behind |-> k.behind, cancelled |-> k.cancelled]
  BY <1>1, <1>3, Fields
<1>5. WithBody(k) \in Connection
  BY <1>1, <1>2, <1>4, Fields DEF Connection
<1>6. SocketsOK(WithBody(k)) /\ PipesOK(WithBody(k))
  BY <1>4 DEF ConnOK, SocketsOK, PipesOK
<1> QED BY <1>2, <1>4, <1>5, <1>6 DEF ConnOK

\* A pipe that may end leaves the connection in order.
MayEnd(k, s) ==
    \/ k.read[s] < k.sent[s] /\ AtEnd(k, Other[s])
    \/ Dry(k, s) \/ Unflushed(k, s)

LEMMA PipeOverOK ==
    ASSUME NEW k, ConnOK(k), k.phase = "piping", NEW s \in Sides, k.pipe[s], MayEnd(k, s)
    PROVE  ConnOK(PipeOver(k, s)) /\ PipeOver(k, s).phase = "piping"
<1>1. k \in Connection /\ Other[s] \in Sides
  BY OtherSide DEF ConnOK
<1> DEFINE pipe == [k.pipe EXCEPT ![s] = FALSE]
           writer == [k.writer EXCEPT ![Other[s]] = "closed"]
<1>2. /\ pipe \in [Sides -> BOOLEAN] /\ writer \in [Sides -> {"none", "open", "closed"}]
      /\ pipe[s] = FALSE /\ pipe[Other[s]] = k.pipe[Other[s]]
      /\ writer[s] = k.writer[s]
  BY <1>1, Fields, OtherSide
<1>3. PipeOver(k, s) = [k EXCEPT !.pipe = pipe, !.writer = writer]
  BY DEF PipeOver
<1> HIDE DEF pipe, writer
<1>4. PipeOver(k, s) = [phase |-> k.phase, proxied |-> k.proxied, writer |-> writer,
                        pipe |-> pipe, sent |-> k.sent, read |-> k.read, eof |-> k.eof,
                        behind |-> k.behind, cancelled |-> k.cancelled]
  BY <1>1, <1>3, Fields
<1>5. PipeOver(k, s) \in Connection
  BY <1>1, <1>2, <1>4, Fields DEF Connection
<1>6. SocketsOK(PipeOver(k, s))
  BY <1>2, <1>4, OtherSide DEF ConnOK, SocketsOK
<1>7. k.writer[Other[s]] = "open"
  BY DEF ConnOK, SocketsOK
<1>8. PipesOK(PipeOver(k, s))
  <2>1. CASE s = "origin"
    <3>1. k.writer["client"] = "open" /\ k.pipe["origin"] = TRUE
      BY <1>7, <2>1, OtherSide, <1>1, Fields
    <3>2. k.pipe["client"] => k.writer["origin"] = "open"
      BY <2>1, OtherSide DEF ConnOK, SocketsOK
    <3>3. ~k.pipe["client"] => k.eof["client"] \/ Unwritten(k)
      BY <3>1 DEF ConnOK, PipesOK
    <3>4. \/ k.eof["origin"] /\ k.read["origin"] = k.sent["origin"]
          \/ k.eof["client"]
          \/ k.writer["origin"] = "closed"
      BY <2>1, <3>1, OtherSide DEF MayEnd, AtEnd, Dry, Unflushed
    <3> QED BY <1>2, <1>4, <2>1, <3>2, <3>3, <3>4, OtherSide DEF PipesOK, Unwritten
  <2>2. CASE s = "client"
    <3>1. k.writer["origin"] = "open" /\ k.pipe["client"] = TRUE
      BY <1>7, <2>2, OtherSide, <1>1, Fields
    <3>2. k.pipe["origin"] => k.writer["client"] = "open"
      BY <2>2, OtherSide DEF ConnOK, SocketsOK
    <3>3. Unwritten(k) \/ k.eof["client"] \/ k.writer["client"] = "closed"
      BY <2>2, OtherSide DEF MayEnd, AtEnd, Dry, Unflushed, Unwritten
    <3>4. ~k.pipe["origin"] =>
            \/ k.eof["origin"] /\ k.read["origin"] = k.sent["origin"]
            \/ k.eof["client"]
      BY <3>1 DEF ConnOK, PipesOK
    <3> QED BY <1>2, <1>4, <2>2, <3>2, <3>3, <3>4, OtherSide DEF PipesOK, Unwritten
  <2> QED BY <2>1, <2>2, OtherSide
<1> QED BY <1>4, <1>5, <1>6, <1>8 DEF ConnOK

\* The two ways a side of a connection goes on: it sends, or it ends.
LEMMA SentOK ==
    ASSUME NEW k, ConnOK(k), NEW s \in Sides, ~k.eof[s],
           k.phase = "piping" => k.writer[s] = "open"
    PROVE  /\ ConnOK([k EXCEPT !.sent[s] = @ + 1])
           /\ ConnOK([k EXCEPT !.eof[s] = TRUE])
           /\ [k EXCEPT !.sent[s] = @ + 1].phase = k.phase
           /\ [k EXCEPT !.eof[s] = TRUE].phase = k.phase
<1>1. k \in Connection
  BY DEF ConnOK
<1> DEFINE sent == [k.sent EXCEPT ![s] = @ + 1]
           eof == [k.eof EXCEPT ![s] = TRUE]
<1>2. /\ sent \in [Sides -> Nat] /\ \A u \in Sides : k.read[u] <= sent[u]
      /\ \A u \in Sides : sent[u] = IF u = s THEN k.sent[u] + 1 ELSE k.sent[u]
  BY <1>1, Fields DEF ConnOK
<1>3. /\ eof \in [Sides -> BOOLEAN]
      /\ \A u \in Sides : k.eof[u] => eof[u]
      /\ \A u \in Sides : eof[u] => k.eof[u] \/ u = s
  BY <1>1, Fields
<1> DEFINE a == [k EXCEPT !.sent[s] = @ + 1]
           b == [k EXCEPT !.eof[s] = TRUE]
<1>4. /\ a = [k EXCEPT !.sent = sent]
      /\ b = [k EXCEPT !.eof = eof]
  OBVIOUS
<1> HIDE DEF sent, eof, a, b
<1>5. a = [phase |-> k.phase, proxied |-> k.proxied, writer |-> k.writer,
           pipe |-> k.pipe, sent |-> sent, read |-> k.read, eof |-> k.eof,
           behind |-> k.behind, cancelled |-> k.cancelled]
  BY <1>1, <1>4, Fields
<1>6. b = [phase |-> k.phase, proxied |-> k.proxied, writer |-> k.writer,
           pipe |-> k.pipe, sent |-> k.sent, read |-> k.read, eof |-> eof,
           behind |-> k.behind, cancelled |-> k.cancelled]
  BY <1>1, <1>4, Fields
<1>7. a \in Connection /\ b \in Connection
  BY <1>1, <1>2, <1>3, <1>5, <1>6, Fields DEF Connection
<1>8. SocketsOK(a) /\ SocketsOK(b)
  BY <1>5, <1>6 DEF ConnOK, SocketsOK
<1>9. PipesOK(a)
  <2>1. "client" \in Sides /\ "origin" \in Sides
    BY OtherSide
  <2>2. k.sent["client"] \in Nat /\ k.read["client"] \in Nat
    BY <1>1, <2>1, Fields
  <2>3. Unwritten(k) => Unwritten(a)
    BY <1>2, <1>5, <2>1, <2>2 DEF Unwritten
  <2>4. a.sent["origin"] = k.sent["origin"] \/ ~k.eof["origin"]
    BY <1>2, <1>5, <2>1
  <2> QED BY <1>5, <2>3, <2>4 DEF ConnOK, PipesOK
<1>10. PipesOK(b)
  BY <1>3, <1>6, OtherSide DEF ConnOK, PipesOK, Unwritten
<1>11. /\ \A u \in Sides : a.read[u] <= a.sent[u]
       /\ \A u \in Sides : b.read[u] <= b.sent[u]
  BY <1>2, <1>5, <1>6 DEF ConnOK
<1>12. ConnOK(a) /\ ConnOK(b) /\ a.phase = k.phase /\ b.phase = k.phase
  BY <1>5, <1>6, <1>7, <1>8, <1>9, <1>10, <1>11 DEF ConnOK
<1> QED BY <1>12 DEF a, b

\* What a pipe that runs has passed on, more or less
LEMMA ReadOK ==
    ASSUME NEW k, ConnOK(k), NEW s \in Sides, k.pipe[s], k.phase = "piping",
           NEW n \in Nat, n <= k.sent[s]
    PROVE  /\ ConnOK([k EXCEPT !.read[s] = n])
           /\ [k EXCEPT !.read[s] = n].phase = k.phase
           /\ [k EXCEPT !.read[s] = n].pipe = k.pipe
           /\ [k EXCEPT !.read[s] = n].writer = k.writer
           /\ [k EXCEPT !.read[s] = n].eof = k.eof
           /\ [k EXCEPT !.read[s] = n].sent = k.sent
           /\ [k EXCEPT !.read[s] = n].read[s] = n
<1>1. k \in Connection
  BY DEF ConnOK
<1> DEFINE read == [k.read EXCEPT ![s] = n]
           a == [k EXCEPT !.read[s] = n]
<1>2. /\ read \in [Sides -> Nat] /\ \A u \in Sides : read[u] <= k.sent[u]
      /\ \A u \in Sides : u # s => read[u] = k.read[u]
      /\ read[s] = n
  BY <1>1, Fields DEF ConnOK
<1>3. a = [k EXCEPT !.read = read]
  OBVIOUS
<1> HIDE DEF read, a
<1>4. a = [phase |-> k.phase, proxied |-> k.proxied, writer |-> k.writer,
           pipe |-> k.pipe, sent |-> k.sent, read |-> read, eof |-> k.eof,
           behind |-> k.behind, cancelled |-> k.cancelled]
  BY <1>1, <1>3, Fields
<1>5. a \in Connection
  BY <1>1, <1>2, <1>4, Fields DEF Connection
<1>6. SocketsOK(a)
  BY <1>4 DEF ConnOK, SocketsOK
<1>7. PipesOK(a)
  <2>1. ~k.pipe["origin"] => s = "client" /\ k.pipe["client"]
    BY OtherSide
  <2>2. ~k.pipe["client"] => read["client"] = k.read["client"]
    BY <1>2, OtherSide
  <2>3. ~k.pipe["origin"] => read["origin"] = k.read["origin"]
    BY <1>2, OtherSide
  <2> QED BY <1>4, <2>1, <2>2, <2>3 DEF ConnOK, PipesOK, Unwritten
<1>8. /\ ConnOK(a) /\ a.phase = k.phase /\ a.pipe = k.pipe /\ a.writer = k.writer
      /\ a.eof = k.eof /\ a.sent = k.sent /\ a.read[s] = n
  BY <1>2, <1>4, <1>5, <1>6, <1>7 DEF ConnOK
<1> QED BY <1>8 DEF a

\* What is in the buffer of a side is nothing to the rest.
LEMMA WroteOK ==
    ASSUME NEW k, ConnOK(k), NEW s \in Sides, NEW behind \in BOOLEAN
    PROVE  ConnOK(Wrote(k, s, behind)) /\ Wrote(k, s, behind).phase = k.phase
<1>1. k \in Connection
  BY DEF ConnOK
<1> DEFINE buffers == [k.behind EXCEPT ![s] = behind]
           a == Wrote(k, s, behind)
<1>2. buffers \in [Sides -> BOOLEAN]
  BY <1>1, Fields
<1>3. a = [k EXCEPT !.behind = buffers]
  BY DEF Wrote
<1> HIDE DEF buffers, a
<1>4. a = [phase |-> k.phase, proxied |-> k.proxied, writer |-> k.writer,
           pipe |-> k.pipe, sent |-> k.sent, read |-> k.read, eof |-> k.eof,
           behind |-> buffers, cancelled |-> k.cancelled]
  BY <1>1, <1>3, Fields
<1>5. a \in Connection
  BY <1>1, <1>2, <1>4, Fields DEF Connection
<1>6. SocketsOK(a) /\ PipesOK(a)
  BY <1>4 DEF ConnOK, SocketsOK, PipesOK, Unwritten
<1>7. ConnOK(a) /\ a.phase = k.phase
  BY <1>4, <1>5, <1>6 DEF ConnOK
<1> QED BY <1>7 DEF a

\* The two steps of a pipe that keep it or end it when a peer is behind
LEMMA PassedOnOK ==
    ASSUME NEW k, ConnOK(k), NEW s \in Sides, k.pipe[s], k.phase = "piping",
           k.read[s] < k.sent[s], NEW behind \in BOOLEAN
    PROVE  ConnOK(PassedOn(k, s, behind)) /\ PassedOn(k, s, behind).phase = "piping"
<1>1. k \in Connection
  BY DEF ConnOK
<1>2. k.read[s] + 1 \in Nat /\ k.read[s] + 1 <= k.sent[s]
  BY <1>1, Fields
<1> DEFINE a == [k EXCEPT !.read[s] = k.read[s] + 1]
<1>3. ConnOK(a) /\ a.phase = "piping"
  BY <1>2, ReadOK
<1>4. PassedOn(k, s, behind) = Wrote(a, Other[s], behind) /\ Other[s] \in Sides
  BY OtherSide DEF PassedOn
<1> HIDE DEF a
<1> QED BY <1>3, <1>4, WroteOK

Lost(k, s) == PipeOver([k EXCEPT !.read[s] = @ - 1], s)
LEMMA LostOK ==
    ASSUME NEW k, ConnOK(k), NEW s \in Sides, k.pipe[s], k.phase = "piping",
           AtEnd(k, Other[s]), k.read[s] > 0
    PROVE  ConnOK(Lost(k, s)) /\ Lost(k, s).phase = "piping"
<1>1. k \in Connection /\ k.read[s] <= k.sent[s]
  BY DEF ConnOK
<1>2. k.read[s] - 1 \in Nat /\ k.read[s] - 1 < k.sent[s] /\ k.read[s] - 1 <= k.sent[s]
  BY <1>1, Fields
<1> DEFINE a == [k EXCEPT !.read[s] = k.read[s] - 1]
<1>3. /\ ConnOK(a) /\ a.phase = "piping" /\ a.pipe[s]
      /\ a.writer = k.writer /\ a.eof = k.eof
      /\ a.read[s] < a.sent[s]
  BY <1>2, ReadOK
<1>4. Lost(k, s) = PipeOver(a, s)
  BY DEF Lost
<1> HIDE DEF a
<1>5. MayEnd(a, s)
  BY <1>3 DEF MayEnd, AtEnd
<1> QED BY <1>3, <1>4, <1>5, PipeOverOK

\* A task that goes on before there are pipes
LEMMA PhaseOK ==
    ASSUME NEW k, ConnOK(k), k.phase \in {"accepted", "header", "greeting"},
           NEW p \in {"header", "dialing", "body"}, p = "body" => k.phase = "greeting",
           NEW proxied \in BOOLEAN
    PROVE  ConnOK([k EXCEPT !.phase = p, !.proxied = proxied])
<1>1. k \in Connection
  BY DEF ConnOK
<1> DEFINE a == [k EXCEPT !.phase = p, !.proxied = proxied]
<1>2. a = [phase |-> p, proxied |-> proxied, writer |-> k.writer,
           pipe |-> k.pipe, sent |-> k.sent, read |-> k.read, eof |-> k.eof,
           behind |-> k.behind, cancelled |-> k.cancelled]
  <2>1. a = [k EXCEPT !.phase = p, !.proxied = proxied] /\ p \in Phases
    BY DEF Phases
  <2> HIDE DEF a
  <2> QED BY <1>1, <2>1, Rephased
<1> HIDE DEF a
<1>3. a \in Connection
  BY <1>1, <1>2, Fields DEF Connection, Phases
<1>4. SocketsOK(a) /\ PipesOK(a)
  BY <1>2 DEF ConnOK, SocketsOK, PipesOK
<1>5. ConnOK(a)
  BY <1>2, <1>3, <1>4 DEF ConnOK
<1> QED BY <1>5 DEF a

LEMMA DialedOK ==
    ASSUME NEW k, ConnOK(k), k.phase = "dialing"
    PROVE  ConnOK([k EXCEPT !.phase = "greeting", !.writer["origin"] = "open"])
<1>1. k \in Connection
  BY DEF ConnOK
<1> DEFINE writer == [k.writer EXCEPT !["origin"] = "open"]
           a == [k EXCEPT !.phase = "greeting", !.writer["origin"] = "open"]
<1>2. /\ writer \in [Sides -> {"none", "open", "closed"}]
      /\ writer["origin"] = "open" /\ writer["client"] = k.writer["client"]
  BY <1>1, Fields, OtherSide
<1>3. a = [k EXCEPT !.phase = "greeting", !.writer = writer]
  OBVIOUS
<1> HIDE DEF writer, a
<1>4. a = [phase |-> "greeting", proxied |-> k.proxied, writer |-> writer,
           pipe |-> k.pipe, sent |-> k.sent, read |-> k.read, eof |-> k.eof,
           behind |-> k.behind, cancelled |-> k.cancelled]
  BY <1>1, <1>2, <1>3, Rewritten DEF Phases
<1>5. a \in Connection
  BY <1>1, <1>2, <1>4, Fields DEF Connection, Phases
<1>6. SocketsOK(a) /\ PipesOK(a)
  BY <1>2, <1>4 DEF ConnOK, SocketsOK, PipesOK
<1>7. ConnOK(a)
  BY <1>4, <1>5, <1>6 DEF ConnOK
<1> QED BY <1>7 DEF a

LEMMA AcceptedOK ==
    ASSUME NEW glued \in 0..1
    PROVE  ConnOK([None EXCEPT !.phase = "accepted", !.sent["client"] = glued,
                               !.writer["client"] = "open"])
<1> DEFINE writer == [Both("none") EXCEPT !["client"] = "open"]
           sent == [Both(0) EXCEPT !["client"] = glued]
           a == [None EXCEPT !.phase = "accepted", !.sent["client"] = glued,
                             !.writer["client"] = "open"]
<1>1. None = [phase |-> "none", proxied |-> FALSE, writer |-> Both("none"),
              pipe |-> Both(FALSE), sent |-> Both(0), read |-> Both(0),
              eof |-> Both(FALSE), behind |-> Both(FALSE), cancelled |-> FALSE]
  BY BothSides
<1>2. a = [phase |-> "accepted", proxied |-> FALSE, writer |-> writer,
           pipe |-> Both(FALSE), sent |-> sent, read |-> Both(0), eof |-> Both(FALSE),
           behind |-> Both(FALSE), cancelled |-> FALSE]
  <2>1. None.writer = Both("none") /\ None.sent = Both(0)
    BY <1>1
  <2>2. a = [None EXCEPT !.phase = "accepted", !.sent = sent, !.writer = writer]
    BY <2>1
  <2> HIDE DEF a, sent, writer
  <2> QED BY <1>1, <2>2
<1>3. /\ Both("none") \in [Sides -> {"none", "open", "closed"}]
      /\ Both(0) \in [Sides -> Nat] /\ Both(FALSE) \in [Sides -> BOOLEAN]
      /\ \A s \in Sides : Both(0)[s] = 0
  BY BothSides
<1>4. /\ writer \in [Sides -> {"none", "open", "closed"}] /\ writer["client"] = "open"
      /\ sent \in [Sides -> Nat] /\ \A s \in Sides : 0 <= sent[s]
  BY <1>3, OtherSide
<1> HIDE DEF a, writer, sent
<1>5. a \in Connection
  BY <1>2, <1>3, <1>4 DEF Connection, Phases
<1>6. SocketsOK(a) /\ PipesOK(a)
  BY <1>2, <1>4 DEF SocketsOK, PipesOK
<1>7. ConnOK(a)
  BY <1>2, <1>3, <1>4, <1>5, <1>6 DEF ConnOK
<1> QED BY <1>7 DEF a

-----------------------------------------------------------------------------
LEMMA RelayStep == RelayInv /\ [RelayNext]_relayVars => RelayInv'
<1> SUFFICES ASSUME RelayInv, [RelayNext]_relayVars PROVE RelayInv'
    OBVIOUS
<1>0. \A c \in Conns : conn[c] \in Connection /\ ConnOK(conn[c])
  BY DEF RelayInv
<1>1. ASSUME NEW c \in Conns, Accept(c) PROVE RelayInv'
  <2>1. PICK glued \in 0..1 :
          Become(c, [None EXCEPT !.phase = "accepted", !.sent["client"] = glued,
                                 !.writer["client"] = "open"])
    BY <1>1 DEF Accept
  <2> DEFINE new == [None EXCEPT !.phase = "accepted", !.sent["client"] = glued,
                                 !.writer["client"] = "open"]
  <2>2. ConnOK(new) /\ Become(c, new)
    BY <2>1, AcceptedOK
  <2> HIDE DEF new
  <2> QED BY <1>1, <2>2, Becomes DEF Accept
<1>2. ASSUME NEW c \in Conns, NEW s \in Sides, Send(c, s) PROVE RelayInv'
  <2> DEFINE k == conn[c]
             a == [k EXCEPT !.sent[s] = @ + 1]
             b == [k EXCEPT !.eof[s] = TRUE]
  <2>1. /\ ConnOK(k) /\ ~k.eof[s] /\ k.writer[s] = "open"
        /\ UNCHANGED <<relay, tasks, drains>>
        /\ Become(c, a) \/ Become(c, b)
    BY <1>0, <1>2 DEF Send
  <2>2. Live(c)
    BY <2>1 DEF ConnOK, SocketsOK, Live
  <2>3. ConnOK(a) /\ ConnOK(b)
    BY <2>1, SentOK
  <2> HIDE DEF a, b
  <2> QED BY <2>1, <2>2, <2>3, Becomes
<1>3. ASSUME NEW c \in Conns, NEW new, Become(c, new), ConnOK(new), Live(c),
             UNCHANGED <<relay, tasks, drains>>
      PROVE  RelayInv'
  BY <1>3, Becomes
<1>14. ASSUME NEW c \in Conns, NEW s \in Sides, Take(c, s) PROVE RelayInv'
  <2> DEFINE new == Wrote(conn[c], s, FALSE)
  <2>1. /\ Live(c) /\ UNCHANGED <<relay, tasks, drains>> /\ Become(c, new)
        /\ ConnOK(new)
    BY <1>0, <1>14, WroteOK DEF Take
  <2> HIDE DEF new
  <2> QED BY <1>3, <2>1
<1>4. ASSUME NEW c \in Conns PROVE ConnOK(Finished(conn[c]))
  BY <1>0, <1>4, FinishedOK
<1>5. ASSUME NEW c \in Conns, Start(c) PROVE RelayInv'
  <2> DEFINE k == conn[c]
             new == [k EXCEPT !.phase = "header"]
  <2>1. k.phase = "accepted" /\ k \in Connection /\ ConnOK(k) /\ k.proxied \in BOOLEAN
    BY <1>0, <1>5, Fields DEF Start, At
  <2>2. new = [k EXCEPT !.phase = "header", !.proxied = k.proxied]
    BY <2>1 DEF Connection
  <2>3. ConnOK([k EXCEPT !.phase = "header", !.proxied = k.proxied])
    BY <2>1, PhaseOK
  <2>4. Become(c, new) /\ ConnOK(new)
    BY <1>5, <2>2, <2>3 DEF Start
  <2>5. Live(c)
    BY <2>1 DEF Live
  <2>6. /\ UNCHANGED <<relay, drains>>
        /\ tasks' = tasks \/ (relay = "open" /\ tasks' = tasks \union {c})
    BY <1>5 DEF Start
  <2> HIDE DEF new
  <2> QED BY <2>4, <2>5, <2>6, Becomes
<1>6. ASSUME NEW c \in Conns, ReadHeader(c) PROVE RelayInv'
  <2> DEFINE k == conn[c]
             new(proxied) == [k EXCEPT !.phase = "dialing", !.proxied = proxied]
  <2>1. k.phase = "header" /\ ConnOK(k) /\ Live(c) /\ UNCHANGED <<relay, tasks, drains>>
    BY <1>0, <1>6 DEF ReadHeader, At, Live
  <2>2. \A proxied \in BOOLEAN : ConnOK(new(proxied))
    BY <2>1, PhaseOK
  <2>3. Become(c, Finished(k)) \/ \E proxied \in BOOLEAN : Become(c, new(proxied))
    BY <1>6, RelayAssumption DEF ReadHeader
  <2> HIDE DEF new
  <2> QED BY <1>3, <1>4, <2>1, <2>2, <2>3
<1>7. ASSUME NEW c \in Conns, Dial(c) PROVE RelayInv'
  <2> DEFINE k == conn[c]
             new == [k EXCEPT !.phase = "greeting", !.writer["origin"] = "open"]
  <2>1. k.phase = "dialing" /\ ConnOK(k) /\ Live(c) /\ UNCHANGED <<relay, tasks, drains>>
    BY <1>0, <1>7 DEF Dial, At, Live
  <2>2. ConnOK(new)
    BY <2>1, DialedOK
  <2>3. Become(c, Finished(k)) \/ Become(c, new)
    BY <1>7 DEF Dial
  <2> HIDE DEF new
  <2> QED BY <1>3, <1>4, <2>1, <2>2, <2>3
<1>8. ASSUME NEW c \in Conns, Greet(c) PROVE RelayInv'
  <2> DEFINE k == conn[c]
             body == [k EXCEPT !.phase = "body"]
  <2>1. /\ k.phase = "greeting" /\ ConnOK(k) /\ k \in Connection /\ k.proxied \in BOOLEAN
        /\ Live(c) /\ UNCHANGED <<relay, tasks, drains>>
    BY <1>0, <1>8, Fields DEF Greet, At, Live
  <2>2. k.writer["client"] = "open" /\ k.writer["origin"] = "open"
    BY <2>1 DEF ConnOK, SocketsOK
  <2>3. ConnOK(Piping(k))
    BY <2>1, <2>2, PipingOK
  <2>4. ConnOK(Piping(WithBody(k)))
    BY <2>1, <2>2, WithBodyOK, PipingOK
  <2>5. ConnOK(body)
    <3>1. body = [k EXCEPT !.phase = "body", !.proxied = k.proxied]
      BY <2>1 DEF Connection
    <3>2. ConnOK([k EXCEPT !.phase = "body", !.proxied = k.proxied])
      BY <2>1, PhaseOK
    <3> QED BY <3>1, <3>2
  <2>6. \/ Become(c, Finished(k))
        \/ \E behind \in BOOLEAN :
             \/ Become(c, Wrote(body, "client", behind))
             \/ Become(c, Wrote(Piping(k), "client", behind))
             \/ Become(c, Wrote(Piping(WithBody(k)), "origin", behind))
    BY <1>8 DEF Greet
  <2> HIDE DEF body
  <2>7. ASSUME NEW a, ConnOK(a), NEW s \in Sides, NEW behind \in BOOLEAN,
               Become(c, Wrote(a, s, behind))
        PROVE  RelayInv'
    BY <1>3, <2>1, <2>7, WroteOK
  <2> QED BY <1>3, <1>4, <2>1, <2>3, <2>4, <2>5, <2>6, <2>7, OtherSide
<1>9. ASSUME NEW c \in Conns, SendBody(c) PROVE RelayInv'
  <2> DEFINE k == conn[c]
  <2>1. k.phase = "body" /\ ConnOK(k) /\ Live(c) /\ UNCHANGED <<relay, tasks, drains>>
    BY <1>0, <1>9 DEF SendBody, At, Live
  <2>2. k.writer["client"] = "open" /\ k.writer["origin"] = "open"
    BY <2>1 DEF ConnOK, SocketsOK
  <2>3. ConnOK(Piping(WithBody(k)))
    BY <2>1, <2>2, WithBodyOK, PipingOK
  <2>4. ASSUME NEW behind \in BOOLEAN,
               Become(c, Wrote(Piping(WithBody(k)), "origin", behind))
        PROVE  RelayInv'
    BY <1>3, <2>1, <2>3, <2>4, WroteOK, OtherSide
  <2> QED BY <1>3, <1>4, <1>9, <2>1, <2>4 DEF SendBody
<1>10. ASSUME NEW c \in Conns, NEW s \in Sides, Pipe(c, s) \/ PeerLost(c, s)
       PROVE  RelayInv'
  <2> DEFINE k == conn[c]
  <2>1. /\ k.phase = "piping" /\ k.pipe[s] /\ ConnOK(k) /\ Live(c)
        /\ UNCHANGED <<relay, tasks, drains>>
    BY <1>0, <1>10 DEF Pipe, PeerLost, At, Live
  <2>2. ASSUME NEW behind \in BOOLEAN, k.read[s] < k.sent[s],
               Become(c, PassedOn(k, s, behind))
        PROVE  RelayInv'
    BY <1>3, <2>1, <2>2, PassedOnOK
  <2>3. CASE MayEnd(k, s) /\ Become(c, PipeOver(k, s))
    BY <1>3, <2>1, <2>3, PipeOverOK
  <2>4. CASE AtEnd(k, Other[s]) /\ k.read[s] > 0 /\ Become(c, Lost(k, s))
    BY <1>3, <2>1, <2>4, LostOK
  <2> QED BY <1>10, <2>2, <2>3, <2>4 DEF Pipe, PeerLost, Lost, MayEnd
<1>11. ASSUME NEW c \in Conns, Gathered(c) \/ Unwind(c) PROVE RelayInv'
  <2>1. Live(c) /\ Become(c, Finished(conn[c])) /\ UNCHANGED <<relay, tasks, drains>>
    BY <1>11 DEF Gathered, Unwind, At, Live
  <2> QED BY <1>3, <1>4, <2>1
<1>12. CASE AwaitClosed
  <2>1. /\ relay' = "gathering" /\ tasks' = {c \in tasks : Live(c)} /\ UNCHANGED drains
        /\ conn' = [c \in Conns |-> IF c \in tasks'
                                    THEN [conn[c] EXCEPT !.cancelled = TRUE] ELSE conn[c]]
    BY <1>12 DEF AwaitClosed
  <2>2. ASSUME NEW k, ConnOK(k) PROVE ConnOK([k EXCEPT !.cancelled = TRUE])
    <3>1. k \in Connection
      BY <2>2 DEF ConnOK
    <3> DEFINE a == [k EXCEPT !.cancelled = TRUE]
    <3>2. /\ a \in Connection /\ a.phase = k.phase /\ a.writer = k.writer
          /\ a.pipe = k.pipe /\ a.sent = k.sent /\ a.read = k.read /\ a.eof = k.eof
      BY <3>1 DEF Connection
    <3> HIDE DEF a
    <3>3. ConnOK(a)
      BY <2>2, <3>2 DEF ConnOK, SocketsOK, PipesOK, Unwritten
    <3> QED BY <3>3 DEF a
  <2>3. \A c \in Conns : ConnOK(conn'[c])
    BY <1>0, <2>1, <2>2
  <2>4. conn' \in [Conns -> Connection]
    BY <2>1, <2>3 DEF ConnOK
  <2>5. TasksInv'
    BY <2>1 DEF RelayInv, TasksInv
  <2> QED BY <2>3, <2>4, <2>5 DEF RelayInv
<1>13. CASE AwaitTasks \/ WaitClosed \/ UNCHANGED relayVars
  <2>1. conn' = conn
    BY <1>13 DEF AwaitTasks, WaitClosed, relayVars
  <2>2. TasksInv'
    BY <1>13, <2>1 DEF AwaitTasks, WaitClosed, relayVars, RelayInv, TasksInv, Live
  <2> QED BY <2>1, <2>2 DEF RelayInv
<1> QED BY <1>1, <1>2, <1>5, <1>6, <1>7, <1>8, <1>9, <1>10, <1>11, <1>12, <1>13,
           <1>14 DEF RelayNext, Handle, Runs, Awaits, Close

LEMMA RelayIsInductive == RelaySpec => []RelayInv
  BY RelayStart, RelayStep, PTL DEF RelaySpec

-----------------------------------------------------------------------------
\* The variables have their types, and no pipe passes on more than it was sent.
THEOREM RelayTypeCorrect == RelaySpec => []RelayTypeOK
<1>1. RelayInv => RelayTypeOK
  BY DEF RelayInv, TasksInv, ConnOK, RelayTypeOK
<1> QED BY <1>1, RelayIsInductive, PTL

\* handle() closes both of its sockets, wherever it ends.
THEOREM NoSocketIsLeft == RelaySpec => []NoSocketLeft
<1>1. RelayInv => NoSocketLeft
  BY DEF RelayInv, ConnOK, SocketsOK, NoSocketLeft
<1> QED BY <1>1, RelayIsInductive, PTL

\* await_closed() leaves no task it knew of, nor any where wait_closed() waits.
THEOREM NoTaskOutlivesTheRelay == RelaySpec => []NoTaskOutlives
<1>1. RelayInv => NoTaskOutlives
  BY DEF RelayInv, TasksInv, NoTaskOutlives
<1> QED BY <1>1, RelayIsInductive, PTL

\* The two pipes of a tunnel end only when the origin's answer has been passed on
\* or one of the ends gave up.
THEOREM AnswersAreComplete == RelaySpec => AnswersComplete
<1> DEFINE Complete == \A c \in Conns :
        /\ conn[c].phase = "piping" /\ conn'[c].phase = "done"
        /\ conn[c].eof["origin"] /\ ~conn[c].eof["client"] /\ ~conn[c].cancelled
        /\ conn[c].read["client"] = conn[c].sent["client"]
        => conn[c].read["origin"] = conn[c].sent["origin"]
<1>1. RelayInv /\ [RelayNext]_relayVars => [Complete]_relayVars
  <2> SUFFICES ASSUME RelayInv, [RelayNext]_relayVars, NEW c \in Conns,
                      conn[c].phase = "piping", conn'[c].phase = "done",
                      ~conn[c].eof["client"], ~conn[c].cancelled,
                      conn[c].read["client"] = conn[c].sent["client"]
               PROVE  conn[c].read["origin"] = conn[c].sent["origin"]
      OBVIOUS
  <2>1. conn \in [Conns -> Connection] /\ ConnOK(conn[c]) /\ conn[c] \in Connection
    BY DEF RelayInv
  <2>2. ASSUME NEW d \in Conns, NEW new, Become(d, new), d # c \/ new.phase # "done"
        PROVE  FALSE
    BY <2>1, <2>2 DEF Become
  <2>3. CASE Gathered(c)
    <3>1. ~conn[c].pipe["origin"] /\ ~conn[c].pipe["client"]
      BY <2>3, OtherSide DEF Gathered
    <3>2. "client" \in Sides /\ conn[c].read["client"] \in Nat
      BY <2>1, Fields, OtherSide
    <3> QED BY <2>1, <3>1, <3>2 DEF ConnOK, PipesOK, Unwritten
  <2>4. ASSUME NEW d \in Conns, d # c,
               Accept(d) \/ Handle(d) \/ \E s \in Sides : Send(d, s) \/ Take(d, s)
        PROVE  FALSE
    BY <2>2, <2>4 DEF Accept, Handle, Runs, Awaits, Send, Take, Start, ReadHeader, Dial,
                      Greet, SendBody, Pipe, PeerLost, Gathered, Unwind
  <2>5. CASE Accept(c) \/ Start(c) \/ ReadHeader(c) \/ Dial(c) \/ Greet(c) \/ SendBody(c)
             \/ Unwind(c)
    BY <2>5 DEF Accept, Start, ReadHeader, Dial, Greet, SendBody, Unwind, At
  <2>6. ASSUME NEW s \in Sides, Send(c, s) PROVE FALSE
    <3>1. ~conn[c].eof[s] /\ conn[c].writer[s] = "open"
      BY <2>6 DEF Send
    <3>2. /\ [conn[c] EXCEPT !.sent[s] = @ + 1].phase # "done"
          /\ [conn[c] EXCEPT !.eof[s] = TRUE].phase # "done"
      BY <2>1, <3>1, SentOK
    <3> QED BY <2>2, <2>6, <3>2 DEF Send
  <2>7. ASSUME NEW s \in Sides, Pipe(c, s) \/ PeerLost(c, s) PROVE FALSE
    <3> DEFINE k == conn[c]
    <3>1. k.pipe[s]
      BY <2>7 DEF Pipe, PeerLost
    <3>2. k.read[s] < k.sent[s] =>
            \A behind \in BOOLEAN : PassedOn(k, s, behind).phase # "done"
      BY <2>1, <3>1, PassedOnOK
    <3>3. MayEnd(k, s) => PipeOver(k, s).phase # "done"
      BY <2>1, <3>1, PipeOverOK
    <3>4. AtEnd(k, Other[s]) /\ k.read[s] > 0 => Lost(k, s).phase # "done"
      BY <2>1, <3>1, LostOK
    <3>5. \/ k.read[s] < k.sent[s] /\ \E behind \in BOOLEAN :
              Become(c, PassedOn(k, s, behind))
          \/ MayEnd(k, s) /\ Become(c, PipeOver(k, s))
          \/ AtEnd(k, Other[s]) /\ k.read[s] > 0 /\ Become(c, Lost(k, s))
      BY <2>7 DEF Pipe, PeerLost, MayEnd, Lost
    <3> HIDE DEF k
    <3> QED BY <2>2, <3>2, <3>3, <3>4, <3>5
  <2>10. ASSUME NEW s \in Sides, Take(c, s) PROVE FALSE
    BY <2>1, <2>2, <2>10, WroteOK DEF Take
  <2>8. CASE AwaitClosed
    <3>1. conn'[c].phase = conn[c].phase
      BY <2>1, <2>8 DEF AwaitClosed, Connection
    <3> QED BY <3>1
  <2>9. CASE AwaitTasks \/ WaitClosed \/ UNCHANGED relayVars
    BY <2>9 DEF AwaitTasks, WaitClosed, relayVars
  <2> QED BY <2>3, <2>4, <2>5, <2>6, <2>7, <2>8, <2>9, <2>10
            DEF RelayNext, Handle, Runs, Awaits, Close
<1>2. RelaySpec => [][Complete]_relayVars
  BY <1>1, RelayIsInductive, PTL DEF RelaySpec
<1> QED BY <1>2 DEF AnswersComplete

=============================================================================
