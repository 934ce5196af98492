------------------------------- MODULE Relay -------------------------------
(***************************************************************************)
(* The browser's CONNECT relay (_start_browser_relay and ProxyRelay in     *)
(* utils/browser/_core.py): a task handle() per connection of Chrome,      *)
(* which reads a header, dials the origin or the upstream proxy and then   *)
(* runs two pipes; and await_closed(), which a restart or close() of the   *)
(* engine awaits on the same event loop.                                   *)
(*                                                                         *)
(* A step is what a task does between two awaits.  "origin" is the other   *)
(* side of a connection, an upstream proxy included.  What is passed on is *)
(* counted, a piece at a time: a pipe is the only reader of its side and   *)
(* the only writer of the other once it runs.  What the relay has written  *)
(* waits in the buffer of that side until the peer takes it.               *)
(***************************************************************************)
EXTENDS Naturals

CONSTANTS Conns,          \* the connections Chrome may make
          UpstreamProxy,  \* whether the relay was given a proxy_url
          MaxPieces       \* bound: pieces of data a side of a connection sends

ASSUME RelayAssumption == UpstreamProxy \in BOOLEAN /\ MaxPieces \in Nat

VARIABLES conn,    \* each connection and its task
          relay,   \* how far await_closed() is
          tasks,   \* _tasks; once await_closed() runs, its copy of them
          drains   \* whether this Python's wait_closed() waits for the
                   \* connections of the server (3.12) or does not (3.11)

relayVars == <<conn, relay, tasks, drains>>

Sides == {"client", "origin"}
Other == [client |-> "origin", origin |-> "client"]

Phases == {"none", "accepted", "header", "dialing", "greeting", "body",
           "piping", "done"}

Connection == [phase : Phases,
               proxied : BOOLEAN,            \* use_upstream
               writer : [Sides -> {"none", "open", "closed"}],
               pipe : [Sides -> BOOLEAN],    \* the pipe from a side runs
               sent : [Sides -> Nat],        \* pieces a side has sent,
               read : [Sides -> Nat],        \* those the relay has passed on
               eof : [Sides -> BOOLEAN],     \* a side has sent all it will
               behind : [Sides -> BOOLEAN],  \* a side has not taken all it got
               cancelled : BOOLEAN]          \* cancel() was called on the task

None == [phase |-> "none", proxied |-> FALSE,
         writer |-> [s \in Sides |-> "none"], pipe |-> [s \in Sides |-> FALSE],
         sent |-> [s \in Sides |-> 0], read |-> [s \in Sides |-> 0],
         eof |-> [s \in Sides |-> FALSE], behind |-> [s \in Sides |-> FALSE],
         cancelled |-> FALSE]

RelayTypeOK ==
    /\ conn \in [Conns -> Connection]
    /\ \A c \in Conns, s \in Sides : conn[c].read[s] <= conn[c].sent[s]
    /\ relay \in {"open", "gathering", "waiting", "closed"}
    /\ tasks \subseteq Conns
    /\ drains \in BOOLEAN

RelayInit ==
    /\ conn = [c \in Conns |-> None]
    /\ relay = "open"
    /\ tasks = {}
    /\ drains \in BOOLEAN

Become(c, new) == conn' = [conn EXCEPT ![c] = new]
Live(c) == conn[c].phase \notin {"none", "done"}

\* The task of c goes on from `phase`: one that is cancelled does not.
At(c, phase) == conn[c].phase = phase /\ ~conn[c].cancelled

-----------------------------------------------------------------------------
\* The other ends: Chrome connects, to send a header at some time, which may
\* have data glued to it ...
Accept(c) ==
    /\ relay = "open" /\ conn[c].phase = "none"
    /\ \E glued \in 0..1 :
        Become(c, [None EXCEPT !.phase = "accepted", !.sent["client"] = glued,
                               !.writer["client"] = "open"])
    /\ UNCHANGED <<relay, tasks, drains>>

\* ... and either side sends data to a connection that is open, or ends.
Send(c, s) ==
    /\ conn[c].writer[s] = "open" /\ ~conn[c].eof[s]
    /\ \/ /\ conn[c].phase = "piping" /\ conn[c].sent[s] < MaxPieces
          /\ Become(c, [conn[c] EXCEPT !.sent[s] = @ + 1])
       \/ Become(c, [conn[c] EXCEPT !.eof[s] = TRUE])
    /\ UNCHANGED <<relay, tasks, drains>>

\* A side takes what the relay has written to it, even when the relay has closed it:
\* what is buffered is sent first.
Wrote(k, s, behind) == [k EXCEPT !.behind[s] = behind]

Take(c, s) ==
    /\ Live(c) /\ conn[c].behind[s]
    /\ Become(c, Wrote(conn[c], s, FALSE))
    /\ UNCHANGED <<relay, tasks, drains>>

-----------------------------------------------------------------------------
\* The end of handle(): its finally clause closes both writers, and nothing else
\* is left of the task.
ClosedClient(w) == [w EXCEPT !["client"] = "closed"]
Closed(w) == [s \in Sides |-> IF w[s] = "none" THEN "none" ELSE "closed"]

FinishedHalf(k) == [None EXCEPT !.phase = "done", !.writer = ClosedClient(k.writer)]
Finished(k) == [None EXCEPT !.phase = "done", !.writer = Closed(k.writer)]

\* handle() starts: only now is its task known to the relay.
Start(c) ==
    /\ At(c, "accepted")
    /\ Become(c, [conn[c] EXCEPT !.phase = "header"])
    /\ tasks' = IF relay = "open" THEN tasks \union {c} ELSE tasks
    /\ UNCHANGED <<relay, drains>>

\* The header, or the end of a client that has sent none.  A CONNECT to a pinned
\* host is dialed there, everything else goes to the upstream proxy if there is
\* one, and what is no CONNECT nowhere if there is none.
ReadHeader(c) ==
    /\ At(c, "header")
    /\ \/ \E connect, pinned \in BOOLEAN :
            /\ pinned => connect
            /\ Become(c, IF connect \/ UpstreamProxy
                         THEN [conn[c] EXCEPT !.phase = "dialing",
                                   !.proxied = UpstreamProxy /\ ~pinned]
                         ELSE Finished(conn[c]))
       \/ conn[c].eof["client"] /\ Become(c, Finished(conn[c]))
    /\ UNCHANGED <<relay, tasks, drains>>

\* _open_tcp_connection
Dial(c) ==
    /\ At(c, "dialing")
    /\ \/ Become(c, [conn[c] EXCEPT !.phase = "greeting",
                                    !.writer["origin"] = "open"])
       \/ Become(c, Finished(conn[c]))
    /\ UNCHANGED <<relay, tasks, drains>>

Piping(k) == [k EXCEPT !.phase = "piping", !.pipe = [s \in Sides |-> TRUE],
                       !.proxied = FALSE]  \* and is forgotten
WithBodyAlways(k) == [k EXCEPT !.read["client"] = 1]
WithBody(k) == [k EXCEPT !.read["client"] = k.sent["client"]]

\* To a proxy, the header with the authorization and what came with it; from a
\* direct connection, "200 Connection Established" to Chrome, and then ...
Greet(c) ==
    /\ At(c, "greeting")
    /\ \/ \E behind \in BOOLEAN :
            Become(c, IF conn[c].proxied
                      THEN Wrote(Piping(WithBody(conn[c])), "origin", behind)
                      ELSE Wrote(IF conn[c].sent["client"] > 0
                                 THEN [conn[c] EXCEPT !.phase = "body"]
                                 ELSE Piping(conn[c]), "client", behind))
       \/ /\ conn[c].eof[IF conn[c].proxied THEN "origin" ELSE "client"]
          /\ Become(c, Finished(conn[c]))
    /\ UNCHANGED <<relay, tasks, drains>>

\* ... what came with the header to the origin.
SendBody(c) ==
    /\ At(c, "body")
    /\ \/ \E behind \in BOOLEAN :
            Become(c, Wrote(Piping(WithBody(conn[c])), "origin", behind))
       \/ conn[c].eof["origin"] /\ Become(c, Finished(conn[c]))
    /\ UNCHANGED <<relay, tasks, drains>>

-----------------------------------------------------------------------------
\* A pipe from side s ends, and closes the writer of the other side.
PipeOverOpen(k, s) == [k EXCEPT !.pipe[s] = FALSE]
PipeOver(k, s) == [k EXCEPT !.pipe[s] = FALSE, !.writer[Other[s]] = "closed"]

\* A side is at its end when it has said so, or the relay has closed it.
AtEnd(k, s) == k.eof[s] \/ k.writer[s] = "closed"

\* read() returns b"" only when nothing is left to be read, or when the relay has
\* closed that side and the peer has taken what was buffered for it; what comes to a
\* side the relay has closed may be lost.
Unflushed(k, s) == k.writer[s] = "closed" /\ k.behind[s]
DrySooner(k, s) == AtEnd(k, s) /\ ~Unflushed(k, s)
Dry(k, s) ==
    IF k.writer[s] = "closed" THEN ~k.behind[s] ELSE k.eof[s] /\ k.read[s] = k.sent[s]

\* A piece is read, written, and drained, which waits for a side that is behind if
\* there is too much for it.  A write fails if the relay or the peer has closed that
\* side.
PassedOn(k, s, behind) == Wrote([k EXCEPT !.read[s] = @ + 1], Other[s], behind)
Pipe(c, s) ==
    /\ At(c, "piping") /\ conn[c].pipe[s]
    /\ \/ /\ conn[c].read[s] < conn[c].sent[s]
          /\ \E behind \in BOOLEAN : Become(c, PassedOn(conn[c], s, behind))
       \/ /\ conn[c].read[s] < conn[c].sent[s] /\ AtEnd(conn[c], Other[s])
          /\ Become(c, PipeOver(conn[c], s))
       \/ Dry(conn[c], s) /\ Become(c, PipeOver(conn[c], s))
    /\ UNCHANGED <<relay, tasks, drains>>

\* The peer that a pipe waits for may be lost: drain() raises, and the piece has not
\* been passed on; or the end is read of a side that was closed.
PeerLost(c, s) ==
    /\ At(c, "piping") /\ conn[c].pipe[s]
    /\ \/ /\ conn[c].behind[Other[s]] /\ AtEnd(conn[c], Other[s])
          /\ conn[c].read[s] > 0
          /\ Become(c, PipeOver([conn[c] EXCEPT !.read[s] = @ - 1], s))
       \/ Unflushed(conn[c], s) /\ Become(c, PipeOver(conn[c], s))
    /\ UNCHANGED <<relay, tasks, drains>>

\* gather() returns when both pipes have ended.
Gathered(c) ==
    /\ At(c, "piping") /\ \A s \in Sides : ~conn[c].pipe[s]
    /\ Become(c, Finished(conn[c]))
    /\ UNCHANGED <<relay, tasks, drains>>

\* CancelledError, wherever the task and its pipes are
Unwind(c) ==
    /\ Live(c) /\ conn[c].cancelled
    /\ Become(c, Finished(conn[c]))
    /\ UNCHANGED <<relay, tasks, drains>>

\* What the event loop runs by itself, and what takes a peer
Runs(c) ==
    \/ Start(c) \/ Gathered(c) \/ Unwind(c)
    \/ \E s \in Sides : ~conn[c].behind[Other[s]] /\ Pipe(c, s)
Awaits(c) ==
    \/ ReadHeader(c) \/ Dial(c) \/ Greet(c) \/ SendBody(c)
    \/ \E s \in Sides : Pipe(c, s) \/ PeerLost(c, s)
Handle(c) == Runs(c) \/ Awaits(c)

-----------------------------------------------------------------------------
\* await_closed(): no more connections; the tasks of a moment are cancelled ...
AwaitClosedSpares ==
    /\ relay = "open" /\ relay' = "gathering"
    /\ tasks' = {c \in tasks : Live(c)}
    /\ UNCHANGED <<conn, drains>>
AwaitClosed ==
    /\ relay = "open" /\ relay' = "gathering"
    /\ tasks' = {c \in tasks : Live(c)}
    /\ conn' = [c \in Conns |-> IF c \in tasks'
                                THEN [conn[c] EXCEPT !.cancelled = TRUE]
                                ELSE conn[c]]
    /\ UNCHANGED drains

\* ... and awaited;
AwaitTasksUnheeded ==
    relay = "gathering" /\ relay' = "waiting" /\ UNCHANGED <<conn, tasks, drains>>
AwaitTasks ==
    /\ relay = "gathering" /\ \A c \in tasks : ~Live(c)
    /\ relay' = "waiting"
    /\ UNCHANGED <<conn, tasks, drains>>

\* wait_closed() of the server
WaitClosed ==
    /\ relay = "waiting"
    /\ drains => \A c \in Conns : ~Live(c)
    /\ relay' = "closed"
    /\ UNCHANGED <<conn, tasks, drains>>

Close == AwaitClosed \/ AwaitTasks \/ WaitClosed

RelayNext ==
    \/ \E c \in Conns : \/ Accept(c) \/ Handle(c)
                        \/ \E s \in Sides : Send(c, s) \/ Take(c, s)
    \/ Close

RelaySpec == RelayInit /\ [][RelayNext]_relayVars

\* The event loop runs whatever task can go on; nothing is assumed of Chrome and the
\* origins, which may never send, take or accept anything, nor that the relay is ever
\* closed.
FairRelaySpec ==
    /\ RelaySpec
    /\ WF_relayVars(AwaitTasks)
    /\ \A c \in Conns : WF_relayVars(Runs(c))

-----------------------------------------------------------------------------
\* A connection whose task is over holds no socket, however it ended.
NoSocketLeft ==
    \A c \in Conns : conn[c].phase = "done" =>
        \A s \in Sides : conn[c].writer[s] # "open"

\* No task survives await_closed() (CHANGELOG.md:602, "orphaned `handle()` tasks
\* on restart / shutdown"), but one that had not begun when it ran, on a Python
\* whose wait_closed() does not wait for it.
NoTaskOutlives ==
    relay = "closed" => \A c \in Conns :
        Live(c) => c \notin tasks /\ ~drains

\* When the origin has sent its answer and closed, Chrome gets all of it before
\* its side is closed, unless Chrome left, some of what Chrome sent could not be
\* written, or the relay closed.
AnswersComplete ==
    [][\A c \in Conns :
        /\ conn[c].phase = "piping" /\ conn'[c].phase = "done"
        /\ conn[c].eof["origin"] /\ ~conn[c].eof["client"] /\ ~conn[c].cancelled
        /\ conn[c].read["client"] = conn[c].sent["client"]
        => conn[c].read["origin"] = conn[c].sent["origin"]]_relayVars

\* When one side of a tunnel ends, the other does not stay open for ever, unless a
\* peer for ever leaves what it was sent: the relay sets no time limit to drain()
\* (_core.py:728), nor to the flush of a writer it has closed.
WaitsForPeer(c) ==
    \E s \in Sides :
        conn[c].pipe[s] /\ (conn[c].behind[Other[s]] \/ Unflushed(conn[c], s))
HalfCloseEnds ==
    \A c \in Conns : []<>~WaitsForPeer(c) =>
        (conn[c].phase = "piping" /\ (\E s \in Sides : conn[c].eof[s])
            ~> conn[c].phase = "done")

\* await_closed() is not held up by a task that ignores its cancellation.
TasksGathered == relay = "gathering" ~> relay # "gathering"
=============================================================================
