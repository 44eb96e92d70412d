----------------------------- MODULE McpServer -----------------------------
(***************************************************************************)
(* The stdio MCP server: Server.Serve between a client that writes frames  *)
(* ahead of the answers and two pipes of bounded size.  A tool call that   *)
(* goes upstream gets an engine, a client and so a limiter of its own,     *)
(* because `anonymous` decides the key.  Serve answers one call at a time, *)
(* so the clients follow one another; the limiter's "taken" records the    *)
(* requests of all of them, and each starts at its own "first".            *)
(*                                                                         *)
(* A frame is named by its place in the stream, which stands for its id.   *)
(***************************************************************************)
EXTENDS Limiter

CONSTANTS
    Frames,     \* bound: the frames a client may send, [what, asks]
    MaxFrames,  \* bound: how many it sends
    InCap, OutCap,  \* how many frames each pipe holds
    HasKey,     \* whether the configuration loaded has a key
    PerCall     \* bound: the requests of one tool call

Kinds ==
    {"blank",      \* only white space
     "garbled",    \* not a JSON-RPC message
     "huge",       \* longer than the scanner's 16 MiB
     "note",       \* notifications/initialized, notifications/cancelled
     "ping",       \* initialize, ping, tools/list
     "local",      \* a method the server does not have, and tools/call answered here:
                   \* get_usage, cache_status, bad arguments
     "upstream",   \* tools/call for which an engine is built
     "anonymous",  \* the same, with anonymous: true
     "overflow"}   \* the same, for a page whose number times its size overflows an int

ASSUME FramesAssumption ==
    /\ Frames \subseteq [what : Kinds, asks : BOOLEAN]
    /\ \A f \in Frames : f.what \in {"blank", "garbled", "huge"} => ~f.asks
ASSUME CapsAssumption ==
    /\ {MaxFrames, PerCall} \subseteq Nat
    /\ {InCap, OutCap} \subseteq Nat \ {0}
    /\ HasKey \in BOOLEAN

VARIABLES
    sent,     \* the frames written to the server's stdin
    closed,   \* whether the client has closed it
    read,     \* how many frames Scan has returned
    srv,      \* where Serve is
    code,     \* the exit code of runMCP
    out,      \* the places of the frames answered on stdout
    seen,     \* how many answers the client has read
    hungUp,   \* whether the client has closed the server's stdout
    cfgKey,   \* whether the shared configuration has its key
    clients   \* ghost: the clients built, [call, first, keyed]

streams    == <<sent, closed, out, seen, hungUp>>
serverVars == <<read, srv, code, cfgKey, clients>>
mcpVars    == <<vars, streams, serverVars>>

McpInit ==
    /\ Init
    /\ sent = <<>> /\ closed = FALSE /\ read = 0
    /\ out = <<>> /\ seen = 0 /\ hungUp = FALSE
    /\ srv = "reading" /\ code = "none"
    /\ cfgKey = HasKey
    /\ clients = <<>>

----------------------------------------------------------------------------
ClientWrites ==
    /\ srv # "exited" /\ ~closed
    /\ Len(sent) < MaxFrames
    /\ Len(sent) - read < InCap
    /\ \E f \in Frames : sent' = Append(sent, f)
    /\ UNCHANGED <<vars, serverVars, closed, out, seen, hungUp>>

ClientCloses ==
    /\ ~closed
    /\ closed' = TRUE
    /\ UNCHANGED <<vars, serverVars, sent, out, seen, hungUp>>

ClientReads ==
    /\ ~hungUp /\ seen < Len(out)
    /\ seen' = seen + 1
    /\ UNCHANGED <<vars, serverVars, sent, closed, out, hungUp>>

ClientHangsUp ==
    /\ ~hungUp
    /\ hungUp' = TRUE
    /\ UNCHANGED <<vars, serverVars, sent, closed, out, seen>>

----------------------------------------------------------------------------
Exit(how) == srv' = "exited" /\ code' = how

\* A slip: Anonymous drops the key of the shared configuration itself.
NewClientInPlace(anonymous) ==
    /\ cfgKey' = (cfgKey /\ ~anonymous)
    /\ clients' = Append(clients, [call |-> read + 1, first |-> Len(taken), keyed |-> cfgKey'])
    /\ lo' = Len(taken)
    /\ UNCHANGED <<now, taken, pc, wake, arrived>>

\* runMCP's New: a client with an empty limiter; Anonymous copies the
\* configuration before it drops the key.
NewClient(anonymous) ==
    /\ clients' = Append(clients, [call  |-> read + 1, first |-> Len(taken),
                                   keyed |-> cfgKey /\ ~anonymous])
    /\ lo' = Len(taken)
    /\ UNCHANGED <<cfgKey, now, taken, pc, wake, arrived>>

\* A slip: a frame that cannot be parsed is passed over.
RepliesAtOnceQuiet(f) ==
    f.what = "ping" \/ (f.what = "local" /\ f.asks)

\* handle's answers without a tool's engine: initialize, ping and tools/list are
\* answered whether or not there is an id.
RepliesAtOnce(f) ==
    \/ f.what \in {"garbled", "ping"}
    \/ f.what = "local" /\ f.asks

CallsUpstream(f) == f.what \in {"upstream", "anonymous", "overflow"} /\ f.asks

\* Scan returns the next frame, and handle decides what becomes of it.
Scan ==
    LET f == sent[read + 1] IN
    /\ srv = "reading" /\ read < Len(sent)
    /\ read' = read + 1
    /\ \/ /\ CallsUpstream(f)
          /\ srv' = "calling"
          /\ NewClient(f.what = "anonymous")
          /\ UNCHANGED code
       \/ /\ RepliesAtOnce(f)
          /\ srv' = "writing"
          /\ UNCHANGED <<vars, code, cfgKey, clients>>
       \/ /\ f.what = "huge"
          /\ Exit("error")
          /\ UNCHANGED <<vars, cfgKey, clients>>
       \/ /\ ~CallsUpstream(f) /\ ~RepliesAtOnce(f) /\ f.what # "huge"
          /\ UNCHANGED <<vars, srv, code, cfgKey, clients>>
    /\ UNCHANGED streams

\* A slip: the loop ends as soon as stdin is closed.
EofAtOnce ==
    /\ srv = "reading" /\ closed
    /\ Exit("ok")
    /\ UNCHANGED <<vars, streams, read, cfgKey, clients>>

\* Scan returns false at the end of the input, once every frame has been read.
Eof ==
    /\ srv = "reading" /\ closed /\ read = Len(sent)
    /\ Exit("ok")
    /\ UNCHANGED <<vars, streams, read, cfgKey, clients>>

First == clients[Len(clients)].first

\* The engine of the current call makes requests through its client's limiter.
Request ==
    /\ srv = "calling"
    /\ \/ (TakeNow \/ TakeWait) /\ Len(taken) - First < PerCall
       \/ Wake \/ Send \/ SendFails \/ Return
    /\ UNCHANGED <<streams, serverVars>>

\* The tool returns a result or an error, which is a result too.
ToolReturns ==
    /\ srv = "calling" /\ pc = "idle"
    /\ srv' = "writing"
    /\ UNCHANGED <<vars, streams, read, code, cfgKey, clients>>

\* get_pulse slices the embedded set out of bounds; nothing recovers from the panic,
\* and the process ends.
ToolPanics ==
    /\ srv = "calling" /\ pc = "idle"
    /\ sent[read].what = "overflow"
    /\ Exit("panic")
    /\ UNCHANGED <<vars, streams, read, cfgKey, clients>>

\* Encode writes the answer, waiting while the pipe is full.
Reply ==
    /\ srv = "writing" /\ ~hungUp
    /\ Len(out) - seen < OutCap
    /\ out' = Append(out, read)
    /\ srv' = "reading"
    /\ UNCHANGED <<vars, sent, closed, seen, hungUp, read, code, cfgKey, clients>>

\* A slip: the error of Encode is not looked at, and the answer is tried again.
ReplyFailsRetries ==
    srv = "writing" /\ hungUp /\ UNCHANGED mcpVars

\* Nobody reads stdout any more: Serve returns Encode's error, unless the signal
\* for the broken pipe ends the process first.
ReplyFails ==
    /\ srv = "writing" /\ hungUp
    /\ Exit("error")
    /\ UNCHANGED <<vars, streams, read, cfgKey, clients>>

TimePasses == Tick /\ UNCHANGED <<streams, serverVars>>

Serve == Scan \/ Eof \/ ToolReturns \/ ToolPanics \/ Reply \/ ReplyFails

McpNext ==
    \/ ClientWrites \/ ClientCloses \/ ClientReads \/ ClientHangsUp
    \/ Serve \/ Request \/ TimePasses

\* Serve runs, a call's requests go on, and time passes; the client need not write,
\* read, close or hang up.
McpFairness == WF_mcpVars(Serve) /\ WF_mcpVars(Request) /\ WF_mcpVars(TimePasses)

McpSpec == McpInit /\ [][McpNext]_mcpVars /\ McpFairness

----------------------------------------------------------------------------
\* An answer is due to a request, and to what cannot be parsed.  The two methods named
\* as notifications get none, even when the message has an id (server.go:117).
Due(n) == sent[n].what = "garbled" \/ (sent[n].asks /\ sent[n].what # "note")

Answered == {out[i] : i \in 1..Len(out)}

\* How many frames Serve is done with.
Done == IF srv = "reading" \/ code = "ok" THEN read ELSE read - 1

\* Every request but those for a notification's method, and every frame that cannot be
\* parsed, is answered, no frame is answered twice or before its turn, and the answers
\* are in the order of the input, however far the client writes ahead and whatever
\* stands between them (server.go:56 "Staying silent would hang the client").
RepliesInOrder ==
    /\ \A i, j \in 1..Len(out) : i < j => out[i] < out[j]
    /\ {n \in 1..Done : Due(n)} \subseteq Answered
    /\ Answered \subseteq 1..Done

\* The server reports success only when the input was closed and everything in it
\* has been answered (server.go, Serve; mcpcmd.go, runMCP).
ExitOkIsDrained ==
    code = "ok" => closed /\ {n \in 1..Len(sent) : Due(n)} \subseteq Answered

\* A tool call uses the key exactly when one is configured and the call did not ask
\* to be anonymous, whatever the calls before it asked (mcpcmd.go:38 "`anonymous:
\* true` has to drop the configured key"; config.go, Anonymous).
KeyAsAsked ==
    \A k \in 1..Len(clients) :
        clients[k].keyed <=> HasKey /\ sent[clients[k].call].what # "anonymous"

\* Within one call the request ceiling holds, however many calls and clients came
\* before (mcpcmd.go, New; client.go, take).
LastOf(k) == IF k = Len(clients) THEN Len(taken) ELSE clients[k + 1].first
CallCeiling ==
    \A k \in 1..Len(clients) : \A i \in (clients[k].first + 1)..LastOf(k) :
        i + Max <= LastOf(k) => taken[i + Max] - taken[i] >= Window

\* The server waits for room in a pipe that nobody empties and nobody has closed.
Blocked == srv = "writing" /\ ~hungUp /\ Len(out) - seen >= OutCap

\* Once stdin is closed the server ends, though its answers fill the pipe again and
\* again or the other end is closed; unless it waits for ever for somebody to read
\* (server.go:40 "a closing stdin is the shutdown signal").  A sleep may outlast the
\* instants explored.
ServerEnds ==
    []<>~Blocked => (closed ~> (srv = "exited" \/ (pc = "sleeping" /\ wake > Horizon)))

\* server.go:105 says of notifications that they "must not be answered".
NotificationsSilent == \A i \in 1..Len(out) : Due(out[i])

\* config.example.toml:56 describes max_per_hour as "Requests per hour this tool
\* will spend before pausing": over all its calls, the tool starts no more than
\* Max requests in a window.
ToolCeiling == LocalCeiling
============================================================================
