----------------------------- MODULE EventExport -----------------------------
(***************************************************************************)
(* The two sinks of Proxy.forwardAudit: the webhook emitter                 *)
(* (webhook/emitter.go), a bounded queue read by one goroutine that posts   *)
(* an event to each URL in turn, and the SIEM exporter (siem/siem.go), that *)
(* writes a line to each target in turn under a lock.  A post has a timeout *)
(* and one that failed may have reached its receiver; a write to a target   *)
(* has none and can hang.  An event is a number; faults is how much may     *)
(* still fail.                                                              *)
(***************************************************************************)
EXTENDS Integers, Sequences, FiniteSets

CONSTANTS
    Urls,           \* how many webhook URLs
    Writers,        \* how many SIEM targets
    BufferSize,     \* of the emitter's channel
    Tries           \* posts of an event to a URL before the emitter gives up

ASSUME ExportConstants ==
    /\ Urls \in Nat \ {0} /\ Writers \in Nat \ {0}
    /\ BufferSize \in Nat \ {0} /\ Tries \in Nat \ {0}

VARIABLES
    queue,          \* Emitter.eventCh
    loop,           \* what Emitter.loop delivers: NoDelivery or [event, url, try]
    sleeping,       \* events of the goroutines that put one back after a second
    accepted,       \* events that Emit put into the channel
    dropped,        \* accepted events that met a full channel when put back
    received,       \* what each URL received
    siem,           \* who holds Exporter.mu, and its next target: NoExport or [by, target]
    written,        \* what each SIEM target holds
    sinks,          \* "none" configured, "open", "closed", and "ended" when the loop has returned
    faults          \* bound on the posts and writes still to fail

exportVars == <<queue, loop, sleeping, accepted, dropped, received, siem, written, sinks, faults>>

NoDelivery == [event |-> -1, url |-> 0, try |-> 0]
NoExport == [by |-> "none", target |-> 0]

\* The bound on faults and whether there are sinks are the session's choice.
ExportInit ==
    /\ queue = <<>> /\ loop = NoDelivery /\ sleeping = {} /\ accepted = {} /\ dropped = {}
    /\ received = [u \in 1 .. Urls |-> {}] /\ siem = NoExport /\ written = [w \in 1 .. Writers |-> {}]

\* Never blocks: a full channel loses the event.
Emit(e) ==
    IF sinks # "none" /\ Len(queue) < BufferSize
    THEN queue' = Append(queue, e) /\ accepted' = accepted \cup {e}
    ELSE UNCHANGED <<queue, accepted>>

\* The next write of Export(e) by a caller, which has or takes the lock.
NextTarget == IF siem = NoExport THEN 1 ELSE siem.target
MayExport(caller) == siem = NoExport \/ siem.by = caller

WriteTarget(caller, e) ==
    /\ MayExport(caller) /\ sinks = "open"
    /\ written' = [written EXCEPT ![NextTarget] = @ \cup {e}]
    /\ siem' = IF NextTarget = Writers THEN NoExport ELSE [by |-> caller, target |-> NextTarget + 1]
    /\ faults' = faults

\* The first target that fails ends the call; a closed one fails.
WriteFails(caller) ==
    /\ MayExport(caller) /\ siem' = NoExport /\ written' = written
    /\ IF sinks = "open" THEN faults > 0 /\ faults' = faults - 1 ELSE faults' = faults

CloseSinks == sinks' = IF sinks = "none" THEN "none" ELSE "closed"

-----------------------------------------------------------------------------
(* Emitter.loop.                                                            *)

\* Both cases of the select are ready after Close: it may take either.
Take ==
    /\ sinks # "ended" /\ loop = NoDelivery /\ queue # <<>>
    /\ loop' = [event |-> Head(queue), url |-> 1, try |-> 1]
    /\ queue' = Tail(queue)
    /\ UNCHANGED <<sleeping, accepted, dropped, received, siem, written, sinks, faults>>

LoopReturns ==
    /\ sinks = "closed" /\ loop = NoDelivery
    /\ sinks' = "ended"
    /\ UNCHANGED <<queue, loop, sleeping, accepted, dropped, received, siem, written, faults>>

PostSucceeds ==
    /\ loop # NoDelivery /\ loop.try <= Tries
    /\ received' = [received EXCEPT ![loop.url] = @ \cup {loop.event}]
    /\ loop' = IF loop.url = Urls THEN NoDelivery ELSE [loop EXCEPT !.url = @ + 1, !.try = 1]
    /\ UNCHANGED <<queue, sleeping, accepted, dropped, siem, written, sinks, faults>>

FaultyPostFails ==                                \* a URL that cannot be reached is skipped
    /\ loop # NoDelivery /\ loop.try <= Tries /\ faults > 0
    /\ faults' = faults - 1
    /\ loop' = IF loop.url = Urls THEN NoDelivery ELSE [loop EXCEPT !.url = @ + 1, !.try = 1]
    /\ UNCHANGED <<received, queue, sleeping, accepted, dropped, siem, written, sinks>>

\* The connection breaks or the status is not 2xx; the receiver may have the event.
PostFails ==
    /\ loop # NoDelivery /\ loop.try <= Tries /\ faults > 0
    /\ faults' = faults - 1
    /\ \E arrives \in BOOLEAN :
          received' = IF arrives THEN [received EXCEPT ![loop.url] = @ \cup {loop.event}] ELSE received
    /\ loop' = [loop EXCEPT !.try = @ + 1]
    /\ UNCHANGED <<queue, sleeping, accepted, dropped, siem, written, sinks>>

FaultyGiveUpInline ==                             \* the loop itself waits for room in its own queue
    /\ loop # NoDelivery /\ loop.try > Tries /\ Len(queue) < BufferSize
    /\ queue' = Append(queue, loop.event)
    /\ loop' = NoDelivery
    /\ UNCHANGED <<sleeping, accepted, dropped, received, siem, written, sinks, faults>>

\* deliver returns the error: a goroutine is started that will put the event back.
GiveUp ==
    /\ loop # NoDelivery /\ loop.try > Tries
    /\ sleeping' = sleeping \cup {loop.event}
    /\ loop' = NoDelivery
    /\ UNCHANGED <<queue, accepted, dropped, received, siem, written, sinks, faults>>

PutBack ==
    /\ \E e \in sleeping :
          /\ sleeping' = sleeping \ {e}
          /\ IF Len(queue) < BufferSize THEN queue' = Append(queue, e) /\ dropped' = dropped
             ELSE queue' = queue /\ dropped' = dropped \cup {e}
    /\ UNCHANGED <<loop, accepted, received, siem, written, sinks, faults>>

EmitterStep == Take \/ LoopReturns \/ PostSucceeds \/ PostFails \/ GiveUp
=============================================================================
