------------------------------- MODULE Relay -------------------------------
(***************************************************************************)
(* A session of the proxy from its start to its end, over pipes (Proxy.Run) *)
(* or over HTTP (Proxy.RunRemote): the handshake, the goroutine that gates  *)
(* the client's lines, the goroutine that redacts the server's messages,    *)
(* the reloads of the policy, the events all of them log and forward to the *)
(* sinks, and the deferred calls that close the session while the two       *)
(* goroutines may still run.  How a tools/call is decided is the subject of *)
(* ToolsCall; here it is allowed or denied.  The kinetic stop is off.       *)
(***************************************************************************)
EXTENDS Envelope, Redaction, EventExport, Integers

CONSTANTS
    Transports,     \* "stdio", "remote"
    ServerLines,    \* what the server may send after its first response
    Generations,    \* the policies, in the order they are loaded: [redaction, maxOutput]
    PreviewLength,  \* longest preview kept in the session
    MaxLines,       \* bound on the client's lines
    Budgets         \* bounds of a session: [send, lines, messages, generations, faults, sinks, events, stalls],
                    \* where send is the set of lines the client may send after initialize, events a subset
                    \* of {"client", "server", "interrupt"}, who may go or be interrupted, and stalls one of
                    \* {"client", "server", "siem"}, who may stop reading

ASSUME RelayConstants ==
    /\ Transports \subseteq {"stdio", "remote"}
    /\ ServerLines \subseteq [kind : STRING, content : Seq(Seq(STRING))]
    /\ Len(Generations) \in Nat \ {0}
    /\ \A g \in 1 .. Len(Generations) : /\ Generations[g].redaction.patterns \in Seq(Patterns)
                                        /\ Generations[g].redaction.output \in Seq(Patterns)
                                        /\ Generations[g].maxOutput \in Int
    /\ MaxLines \in Nat /\ PreviewLength \in Nat \ {0}
    /\ \A b \in Budgets : /\ b.lines \in 0 .. MaxLines /\ b.generations \in 1 .. Len(Generations)
                          /\ b.sinks \in {"none", "open"} /\ b.send \subseteq Lines /\ b.faults \in Nat
                          /\ b.stalls \subseteq {"client", "server", "siem"}

Started == 0                        \* the events; those of the client's lines are 1 .. MaxLines
Ended == MaxLines + 1
Reloaded == MaxLines + 2
NoEvent == -1
Loggers == {"main", "client", "reload"}
NoLine == [batch |-> FALSE, elements |-> <<>>]

VARIABLES
    transport, budget,
    main,           \* where Run is
    gate,           \* the handling of a client line: [pc, line, allowed], by main or the client goroutine
    back,           \* the server-to-client goroutine: [pc, message, from]
    gen,            \* the generation of the policy in force
    clientOpen, serverOpen, interrupted,
    stalled,        \* the peers that read no more: what is written to them waits until they go
    lines, messages,
    log,            \* the audit log: "open", "failed", "closed"
    ledger,         \* the events in it
    unlogged,       \* events Log could not write
    pending,        \* the event each logger has still to forward
    emitted,        \* the loggers whose event the emitter has had: the exporter is next
    allowEvents,    \* the events that authorize a call
    forwarded,      \* the last line the server received: [line, allowed, event]
    delivered,      \* the last message the client received: [message, from, to]
    calls,          \* the number of calls in the session
    preview         \* the result kept with the last of them: [text, from, to]

session == <<transport, budget, gen, clientOpen, serverOpen, interrupted, stalled>>
history == <<forwarded, delivered, calls, preview>>
audit == <<log, ledger, unlogged, pending, emitted, allowEvents>>
vars == <<session, main, gate, back, lines, messages, audit, history, exportVars>>

NoMessage == [kind |-> "none", content |-> <<>>]

Init ==
    /\ transport \in Transports /\ budget \in Budgets /\ main = "start"
    /\ gate = [pc |-> "off", line |-> NoLine, allowed |-> FALSE]
    /\ back = [pc |-> "off", message |-> NoMessage, from |-> 1]
    /\ gen = 1 /\ clientOpen = TRUE /\ serverOpen = TRUE /\ interrupted = FALSE /\ stalled = {}
    /\ lines = 0 /\ messages = 0
    /\ log = "open" /\ ledger = {} /\ unlogged = {} /\ pending = [l \in Loggers |-> NoEvent] /\ emitted = {}
    /\ allowEvents = {}
    /\ forwarded = [line |-> NoLine, allowed |-> FALSE, event |-> NoEvent]
    /\ delivered = [message |-> NoMessage, from |-> 1, to |-> 1]
    /\ calls = 0 /\ preview = [text |-> <<>>, from |-> 1, to |-> 1]
    /\ ExportInit /\ faults = budget.faults /\ sinks = budget.sinks

Running == main # "exited"

\* A POST may succeed although the event stream has ended.
Reachable == serverOpen \/ transport = "remote"

\* A write to a pipe waits while its reader does not read, and fails when the reader is gone.  A POST has a timeout.
ServerTakes == transport = "remote" \/ "server" \notin stalled
ClientTakes == clientOpen => "client" \notin stalled

-----------------------------------------------------------------------------
(* Proxy.logAudit: audit.Log, whose error is discarded, then forwardAudit.  *)

Log(logger, e) ==
    /\ pending[logger] = NoEvent /\ pending' = [pending EXCEPT ![logger] = e]
    /\ IF log = "open"
       THEN \/ ledger' = ledger \cup {e} /\ UNCHANGED <<log, unlogged, faults>>
            \/ /\ faults > 0 /\ faults' = faults - 1
               /\ log' = "failed" /\ unlogged' = unlogged \cup {e} /\ ledger' = ledger
       ELSE unlogged' = unlogged \cup {e} /\ UNCHANGED <<log, ledger, faults>>

\* To the emitter, which never waits, and then target by target to the exporter.
EmitEvent(logger) ==
    /\ Running /\ pending[logger] # NoEvent /\ logger \notin emitted
    /\ Emit(pending[logger])
    /\ IF sinks = "none" THEN pending' = [pending EXCEPT ![logger] = NoEvent] /\ emitted' = emitted
       ELSE pending' = pending /\ emitted' = emitted \cup {logger}
    /\ UNCHANGED <<session, main, gate, back, lines, messages, log, ledger, unlogged, allowEvents, history,
                   loop, sleeping, dropped, received, siem, written, sinks, faults>>

Export(logger) ==
    /\ Running /\ logger \in emitted
    /\ sinks = "open" => "siem" \notin stalled
    /\ WriteTarget(logger, pending[logger]) \/ WriteFails(logger)
    /\ IF siem' = NoExport THEN pending' = [pending EXCEPT ![logger] = NoEvent] /\ emitted' = emitted \ {logger}
       ELSE UNCHANGED <<pending, emitted>>
    /\ UNCHANGED <<session, main, gate, back, lines, messages, log, ledger, unlogged, allowEvents, history,
                   queue, loop, sleeping, accepted, dropped, received, sinks>>

forwardAudit(logger) == EmitEvent(logger) \/ Export(logger)

exportRest == <<emitted, queue, loop, sleeping, accepted, dropped, received, siem, written, sinks>>

-----------------------------------------------------------------------------
(* The start and the handshake.                                             *)

\* The server process or the event stream cannot be started: nothing is logged.
StartFails ==
    /\ main = "start" /\ main' = "exited"
    /\ UNCHANGED <<session, gate, back, lines, messages, audit, history, exportVars>>

LogStarted ==
    /\ main = "start" /\ Log("main", Started) /\ main' = "initialize"
    /\ UNCHANGED <<session, gate, back, lines, messages, allowEvents, history, exportRest>>

\* The initialize request goes to the server, or the handshake ends.
RelayInitialize ==
    /\ main = "initialize" /\ pending["main"] = NoEvent
    /\ \/ clientOpen /\ Reachable /\ ServerTakes /\ main' = "response"
       \/ main' = "stop"            \* end of input, not an initialize request, a failed write
    /\ UNCHANGED <<session, gate, back, lines, messages, audit, history, exportVars>>

\* The response to it goes to the client unredacted.
RelayInitializeResponse ==
    /\ main = "response"
    /\ \/ /\ serverOpen /\ clientOpen /\ ClientTakes /\ main' = "third"
          /\ gate' = [gate EXCEPT !.pc = "read"]
       \/ main' = "stop" /\ gate' = gate
    /\ UNCHANGED <<session, back, lines, messages, audit, history, exportVars>>

-----------------------------------------------------------------------------
(* A line of the client.  The same gate serves the line that follows the    *)
(* handshake (main = "third") and the relay.                                *)

Logger == IF main = "third" THEN "main" ELSE "client"
GateOpen == Running /\ pending[Logger] = NoEvent

\* End of input: Parser.ReadRaw wraps io.EOF, so both relays return an error.
EndOfInput ==
    /\ GateOpen /\ gate.pc = "read" /\ ~clientOpen
    /\ gate' = [gate EXCEPT !.pc = "error"]
    /\ UNCHANGED <<session, main, back, lines, messages, audit, history, exportVars>>

\* The line is passed on, ignored, refused, or decided by processToolsCall, which answers a denied request
\* before or after it logs the denial.
interceptClientToServerEnvelope(line) ==
    LET g == Gate(line)
        e == lines + 1
    IN  /\ GateOpen /\ gate.pc = "read" /\ clientOpen /\ lines < budget.lines
        /\ lines' = e
        /\ \/ /\ g.kind = "forward"
              /\ gate' = [pc |-> "relay", line |-> g.line, allowed |-> FALSE]
              /\ UNCHANGED <<log, ledger, unlogged, pending, faults>>
           \/ /\ g.kind \in {"request", "malformed"}
              /\ gate' = [gate EXCEPT !.pc = "refuse"]
              /\ UNCHANGED <<log, ledger, unlogged, pending, faults>>
           \/ /\ g.kind \in {"request", "notification"}
              /\ Log(Logger, e)
              /\ gate' = [gate EXCEPT !.pc = IF g.kind = "request" THEN "denied" ELSE "ignored"]
           \/ /\ g.kind = "request"
              /\ gate' = [pc |-> "commit", line |-> g.line, allowed |-> FALSE]
              /\ UNCHANGED <<log, ledger, unlogged, pending, faults>>
    /\ UNCHANGED <<session, main, back, messages, allowEvents, history, exportRest>>

\* The client has its error response before the denial is logged.
Refuse ==
    /\ GateOpen /\ gate.pc = "refuse" /\ ClientTakes
    /\ Log(Logger, lines)
    /\ gate' = [gate EXCEPT !.pc = "ignored"]
    /\ UNCHANGED <<session, main, back, lines, messages, allowEvents, history, exportRest>>

FaultyCommitAuthorization ==                \* a failed commit is ignored as a failed Log is
    /\ GateOpen /\ gate.pc = "commit"
    /\ Log(Logger, lines) /\ allowEvents' = allowEvents \cup {lines}
    /\ gate' = [gate EXCEPT !.pc = "relay", !.allowed = TRUE]
    /\ UNCHANGED <<session, main, back, lines, messages, history, exportRest>>

\* An allowed call must be in the ledger first; a failed commit denies it without an event.
CommitAuthorization ==
    /\ GateOpen /\ gate.pc = "commit"
    /\ \/ /\ log = "open"
          /\ ledger' = ledger \cup {lines} /\ allowEvents' = allowEvents \cup {lines}
          /\ pending' = [pending EXCEPT ![Logger] = lines]
          /\ gate' = [gate EXCEPT !.pc = "relay", !.allowed = TRUE]
          /\ UNCHANGED <<log, faults>>
       \/ /\ IF log = "open" THEN faults > 0 /\ faults' = faults - 1 /\ log' = "failed"
             ELSE UNCHANGED <<log, faults>>
          /\ gate' = [gate EXCEPT !.pc = "denied"]
          /\ UNCHANGED <<ledger, allowEvents, pending>>
    /\ UNCHANGED <<session, main, back, lines, messages, unlogged, history, exportRest>>

\* The client has its error response, or gets none.
Denied ==
    /\ GateOpen /\ ((gate.pc = "denied" /\ ClientTakes) \/ gate.pc = "ignored")
    /\ IF main = "third" THEN main' = "stop" /\ gate' = [gate EXCEPT !.pc = "off"]
       ELSE main' = main /\ gate' = [gate EXCEPT !.pc = "read"]
    /\ UNCHANGED <<session, back, lines, messages, audit, history, exportVars>>

\* The handshake leaves this out.
logClientMessage ==
    /\ GateOpen /\ gate.pc = "relay"
    /\ gate' = [gate EXCEPT !.pc = "write"]
    /\ IF gate.allowed /\ main # "third"
       THEN calls' = calls + 1 /\ preview' = [text |-> <<>>, from |-> gen, to |-> gen]
       ELSE UNCHANGED <<calls, preview>>
    /\ UNCHANGED <<session, main, back, lines, messages, audit, forwarded, delivered, exportVars>>

\* The write to the server.
Relay ==
    /\ GateOpen /\ gate.pc = "write"
    /\ \/ /\ Reachable /\ ServerTakes
          /\ forwarded' = [line |-> gate.line, allowed |-> gate.allowed,
                           event |-> IF gate.allowed THEN lines ELSE NoEvent]
          /\ gate' = [gate EXCEPT !.pc = "read", !.line = NoLine, !.allowed = FALSE]
          /\ IF main = "third" THEN main' = "relaying" /\ back' = [back EXCEPT !.pc = "read"]
             ELSE UNCHANGED <<main, back>>
       \/ /\ ~serverOpen \/ transport = "remote"          \* a POST may fail
          /\ gate' = [gate EXCEPT !.pc = "error"]
          /\ main' = IF main = "third" THEN "stop" ELSE main
          /\ UNCHANGED <<forwarded, back>>
    /\ UNCHANGED <<session, lines, messages, audit, delivered, calls, preview, exportVars>>

-----------------------------------------------------------------------------
(* A message of the server.                                                 *)

ReadServer ==
    /\ Running /\ back.pc = "read" /\ serverOpen /\ messages < budget.messages
    /\ messages' = messages + 1
    /\ \E m \in ServerLines : back' = [pc |-> "redact", message |-> m, from |-> gen]
    /\ UNCHANGED <<session, main, gate, lines, audit, history, exportVars>>

\* The end of the output of a process is an error, the end of an event stream is not.
EndOfOutput ==
    /\ Running /\ back.pc = "read" /\ ~serverOpen
    /\ back' = [back EXCEPT !.pc = IF transport = "stdio" THEN "error" ELSE "finished"]
    /\ UNCHANGED <<session, main, gate, lines, messages, audit, history, exportVars>>

\* The HTTP client's timeout covers the whole stream.
StreamTimeout ==
    /\ Running /\ transport = "remote" /\ back.pc = "read"
    /\ back' = [back EXCEPT !.pc = "error"]
    /\ UNCHANGED <<session, main, gate, lines, messages, audit, history, exportVars>>

\* Under the policy in force when the message is handled.
Redact ==
    /\ Running /\ back.pc = "redact"
    /\ back' = [back EXCEPT !.pc = "log", !.message = redactServerResponse(Generations[gen], @)]
    /\ UNCHANGED <<session, main, gate, lines, messages, audit, history, exportVars>>

\* The preview goes to the last call of the session, whichever call was answered.
logServerMessage ==
    /\ Running /\ back.pc = "log"
    /\ back' = [back EXCEPT !.pc = "send"]
    /\ preview' = IF back.message.kind = "result" /\ calls > 0
                  THEN [text |-> Preview(back.message, PreviewLength), from |-> back.from, to |-> gen] ELSE preview
    /\ UNCHANGED <<session, main, gate, lines, messages, audit, forwarded, delivered, calls, exportVars>>

ForwardToClient ==
    /\ Running /\ back.pc = "send" /\ ClientTakes
    /\ \/ /\ clientOpen
          /\ delivered' = [message |-> back.message, from |-> back.from, to |-> gen]
          /\ back' = [back EXCEPT !.pc = "read", !.message = NoMessage]
       \/ /\ ~clientOpen /\ delivered' = delivered
          /\ back' = [back EXCEPT !.pc = "error"]
    /\ UNCHANGED <<session, main, gate, lines, messages, audit, forwarded, calls, preview, exportVars>>

\* commitPolicyRuntime: policy, redactor and event under one lock.
Reload ==
    /\ Running /\ gen < budget.generations /\ gen' = gen + 1
    /\ Log("reload", Reloaded)
    /\ UNCHANGED <<transport, budget, clientOpen, serverOpen, interrupted, stalled, main, gate, back, lines, messages,
                   allowEvents, history, exportRest>>

-----------------------------------------------------------------------------
(* The end of the session.                                                  *)

\* An error of either relay ends Run; without one it waits for both.
RelaysReturn ==
    /\ main = "relaying"
    /\ \/ gate.pc = "error" \/ back.pc = "error"
       \/ gate.pc = "finished" /\ back.pc = "finished"
    /\ main' = "stop"
    /\ UNCHANGED <<session, gate, back, lines, messages, audit, history, exportVars>>

\* End of input in the third line of the handshake.
HandshakeReturns ==
    /\ main = "third" /\ gate.pc \in {"error", "finished"} /\ main' = "stop"
    /\ UNCHANGED <<session, gate, back, lines, messages, audit, history, exportVars>>

\* The deferred calls, in order: stop the server, log the end, close the log, close the sinks.
stopServerProcess ==
    /\ main = "stop" /\ pending["main"] = NoEvent /\ main' = "log_ended"
    /\ serverOpen' = IF transport = "stdio" THEN FALSE ELSE serverOpen
    /\ UNCHANGED <<transport, budget, gen, clientOpen, interrupted, stalled, gate, back, lines, messages, audit, history, exportVars>>

LogEnded ==
    /\ main = "log_ended" /\ Log("main", Ended) /\ main' = "close_log"
    /\ UNCHANGED <<session, gate, back, lines, messages, allowEvents, history, exportRest>>

CloseLog ==
    /\ main = "close_log" /\ pending["main"] = NoEvent /\ main' = "close_sinks" /\ log' = "closed"
    /\ UNCHANGED <<session, gate, back, lines, messages, ledger, unlogged, pending, emitted, allowEvents, history, exportVars>>

closeEventSinks ==
    /\ main = "close_sinks" /\ main' = "exit" /\ CloseSinks
    /\ UNCHANGED <<session, gate, back, lines, messages, audit, history, queue, loop, sleeping, accepted, dropped,
                   received, siem, written, faults>>

Exit ==
    /\ main = "exit" /\ main' = "exited"
    /\ UNCHANGED <<session, gate, back, lines, messages, audit, history, exportVars>>

-----------------------------------------------------------------------------
(* The peers and the operator.                                              *)

ClientCloses ==
    /\ Running /\ "client" \in budget.events /\ clientOpen /\ clientOpen' = FALSE
    /\ UNCHANGED <<transport, budget, gen, serverOpen, interrupted, stalled, main, gate, back, lines, messages, audit, history, exportVars>>

ServerCloses ==
    /\ Running /\ "server" \in budget.events /\ serverOpen /\ serverOpen' = FALSE
    /\ UNCHANGED <<transport, budget, gen, clientOpen, interrupted, stalled, main, gate, back, lines, messages, audit, history, exportVars>>

\* A peer stops reading and the buffer on the way to it is full, or a connection of the exporter is.
Stall(peer) ==
    /\ Running /\ peer \in budget.stalls \ stalled /\ stalled' = stalled \cup {peer}
    /\ UNCHANGED <<transport, budget, gen, clientOpen, serverOpen, interrupted, main, gate, back, lines, messages,
                   audit, history, exportVars>>

\* SIGINT or SIGTERM cancels the context.
Interrupt ==
    /\ Running /\ "interrupt" \in budget.events /\ main # "start" /\ ~interrupted /\ interrupted' = TRUE
    /\ UNCHANGED <<transport, budget, gen, clientOpen, serverOpen, stalled, main, gate, back, lines, messages, audit, history, exportVars>>

\* A cancelled context kills the server process.
KillServer ==
    /\ Running /\ interrupted /\ transport = "stdio" /\ serverOpen /\ serverOpen' = FALSE
    /\ UNCHANGED <<transport, budget, gen, clientOpen, interrupted, stalled, main, gate, back, lines, messages, audit, history, exportVars>>

\* A relay that is about to read sees the cancelled context.
Cancelled ==
    /\ Running /\ interrupted /\ main # "third"
    /\ \/ gate.pc = "read" /\ gate' = [gate EXCEPT !.pc = "error"] /\ back' = back
       \/ back.pc = "read" /\ back' = [back EXCEPT !.pc = "error"] /\ gate' = gate
    /\ UNCHANGED <<session, main, lines, messages, audit, history, exportVars>>

Sink(A) == A /\ Running /\ UNCHANGED <<session, main, gate, back, lines, messages, audit, history>>

MainStep ==
    \/ LogStarted \/ RelaysReturn \/ HandshakeReturns \/ stopServerProcess \/ LogEnded \/ CloseLog
    \/ closeEventSinks \/ Exit \/ forwardAudit("main")
GateStep ==
    \/ EndOfInput \/ CommitAuthorization \/ Refuse \/ Denied \/ logClientMessage \/ Relay
    \/ forwardAudit("client")
BackStep == EndOfOutput \/ Redact \/ logServerMessage \/ ForwardToClient

Next ==
    \/ MainStep \/ GateStep \/ BackStep
    \/ StartFails \/ ReadServer \/ RelayInitialize \/ RelayInitializeResponse
    \/ \E line \in budget.send : interceptClientToServerEnvelope(line)
    \/ Reload \/ forwardAudit("reload")
    \/ \E peer \in {"client", "server", "siem"} : Stall(peer)
    \/ StreamTimeout \/ ClientCloses \/ ServerCloses \/ Interrupt \/ KillServer \/ Cancelled
    \/ Sink(EmitterStep) \/ Sink(PutBack)

\* Every goroutine that can go on does, a sleeping one wakes up, and a timer fires.  A write that waits for a
\* reader that does not read is not a step: nothing is assumed of it.
Fairness ==
    /\ WF_vars(MainStep) /\ WF_vars(GateStep) /\ WF_vars(BackStep) /\ WF_vars(KillServer) /\ WF_vars(StreamTimeout)
    /\ WF_vars(forwardAudit("reload")) /\ WF_vars(Sink(EmitterStep)) /\ WF_vars(Sink(PutBack))

Spec == Init /\ [][Next]_vars /\ Fairness

-----------------------------------------------------------------------------
(* Properties.                                                              *)

\* Every variable has its type.
TypeOK ==
    /\ transport \in Transports /\ gen \in 1 .. Len(Generations)
    /\ main \in {"start", "initialize", "response", "third", "relaying", "stop", "log_ended", "close_log",
                 "close_sinks", "exit", "exited"}
    /\ gate.pc \in {"off", "read", "relay", "write", "commit", "refuse", "denied", "ignored", "error"}
    /\ back.pc \in {"off", "read", "redact", "log", "send", "error", "finished"}
    /\ log \in {"open", "failed", "closed"} /\ ledger \subseteq Started .. Reloaded
    /\ pending \in [Loggers -> NoEvent .. Reloaded] /\ Len(queue) <= BufferSize
    /\ emitted \subseteq Loggers /\ siem.by \in emitted \cup {"none"}

\* A line that reached the server was authorized if a server that takes it for one JSON text could read a
\* tools/call in it: with the keys as spelled, as a single message or in a batch, by the first or the last of
\* several method members; or as a single message with keys in any case, by the last one, as the proxy decodes it.
\* Calls that only other decoders see (a batch element or an ill-typed request with "Method", a second text on
\* the line) are forwarded by the code and not claimed here.
CallsPassTheGate == ToolsCallMethod \in Reads(forwarded.line) => forwarded.allowed

\* None of these servers reads another method in an authorized line.
AuthorizedReadsOneWay == forwarded.allowed => Reads(forwarded.line) \subseteq {ToolsCallMethod, "none", "null"}

\* Also while the session is being closed around it, a call that was relayed, and an authorization a sink
\* was told of, are in the ledger.
RelayedCallIsInLedger ==
    /\ forwarded.allowed => forwarded.event \in ledger
    /\ (accepted \cup UNION {written[w] : w \in 1 .. Writers}) \cap allowEvents \subseteq ledger

\* The patterns of a policy that compile, and the symbols of the secrets they match.
Compiling(p) ==
    {q \in {p.redaction.patterns[i] : i \in DOMAIN p.redaction.patterns}
             \cup {p.redaction.output[i] : i \in DOMAIN p.redaction.output} : q.compiles}
Symbols(p) == UNION {{q.matches[i] : i \in DOMAIN q.matches} : q \in Compiling(p)}

\* The symbols of a secret are its own, and a text that has one of them has the secret around it.
IsSecret(w) ==
    /\ Len(w) # 0 /\ \A i, j \in DOMAIN w : w[i] = w[j] => i = j
    /\ \A i \in DOMAIN w : w[i] \notin {Mask, Cut}
HoldsWhole(w, text) ==
    \A k \in DOMAIN text, j \in DOMAIN w :
       text[k] = w[j] => /\ j < Len(w) => k < Len(text) /\ text[k + 1] = w[j + 1]
                         /\ j > 1 => k > 1 /\ text[k - 1] = w[j - 1]

\* The secrets of a policy share no symbol, and the results of the server have them whole or not at all:
\* a pattern finds no part of what it matches.
SecretsAreWhole ==
    \A g \in 1 .. Len(Generations) : \A q \in Compiling(Generations[g]) :
       /\ IsSecret(q.matches)
       /\ \A r \in Compiling(Generations[g]) :
             q.matches = r.matches \/ \A i \in DOMAIN q.matches, j \in DOMAIN r.matches : q.matches[i] # r.matches[j]
       /\ \A m \in ServerLines : m.kind = "result" => \A i \in DOMAIN m.content : HoldsWhole(q.matches, m.content[i])

Clean(p, text) ==
    /\ \A i \in DOMAIN text : text[i] \notin Symbols(p)
    /\ p.maxOutput > 0 => Len(text) <= p.maxOutput + 1

\* No text of a result reaches the client with any part of a secret, cut off ones included, for a
\* generation of the policy in force between the reading of the message and its delivery.
ClientSeesNoSecret ==
    delivered.message.kind = "result" =>
       \E g \in delivered.from .. delivered.to :
          \A i \in DOMAIN delivered.message.content : Clean(Generations[g], delivered.message.content[i])

\* The session's record of a result has no part of a secret either.
SessionKeepsNoSecret == \E g \in preview.from .. preview.to : Clean(Generations[g], preview.text)

\* Whatever failed and was repeated: a webhook URL or a SIEM target never holds an event that one before it lacks.
LaterTargetsHoldNoMore ==
    /\ \A i, j \in 1 .. Urls : i < j => received[j] \subseteq received[i]
    /\ \A i, j \in 1 .. Writers : i < j => written[j] \subseteq written[i]

\* The emitter forgets no event it accepted, unless its queue was full when the event was put back.
AcceptedIsAccounted ==
    \A e \in accepted :
       \/ e \in sleeping \cup dropped \cup {loop.event} \cup {queue[i] : i \in DOMAIN queue}
       \/ \A u \in 1 .. Urls : e \in received[u]

\* While receivers fail only so often, the emitter becomes idle again and again until it is closed.
EmitterDrains == []<>(~Running \/ sinks # "open" \/ (queue = <<>> /\ loop = NoDelivery /\ sleeping = {}))

\* A relay or a logger is inside a write that nobody reads: to the server's input, to the client, or to a
\* target of the exporter.
Stuck ==
    \/ gate.pc = "write" /\ serverOpen /\ ~ServerTakes
    \/ back.pc = "send" /\ ~ClientTakes
    \/ emitted # {} /\ sinks = "open" /\ "siem" \in stalled

\* The session ends when the client is gone, even if the server keeps talking; over pipes also when the
\* server is gone or the process is interrupted, even if the client is silent.  Only a write that nobody
\* reads can keep it from ending, and only until the reader is gone.
SessionEnds ==
    (main = "relaying" /\ (~clientOpen \/ (transport = "stdio" /\ (~serverOpen \/ interrupted)))) ~> (~Running \/ Stuck)

\* No line gets past the gate as a call that was not authorized as that call.
GateHolds == CallsPassTheGate /\ AuthorizedReadsOneWay

\* A secret of a result stays on the server's side of the proxy.
SecretsStay == ClientSeesNoSecret /\ SessionKeepsNoSecret

\* Every event the exporters accepted is delivered in order of targets, or accounted for.
DeliveriesHold == TypeOK /\ LaterTargetsHoldNoMore /\ AcceptedIsAccounted

\* Neither the delivery of events nor, unless a peer stops reading, the end of a session waits for ever.
Progress == EmitterDrains /\ SessionEnds
=============================================================================
