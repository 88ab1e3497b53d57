---------------------------- MODULE KineticStop ----------------------------
(***************************************************************************)
(* The kinetic session stop: mcp-visor stop publishes a signed command in  *)
(* the control directory (internal/killswitch), the monitor of every proxy *)
(* of the session polls it, and a proxy whose epoch is covered latches,    *)
(* kills its server, commits the audit record and writes the state file    *)
(* the stop command waits for (internal/proxy/kinetic_stop.go).  Run and   *)
(* the monitor are two goroutines of one process; kineticIOMu keeps the    *)
(* kill out of a launch in progress.                                       *)
(*                                                                         *)
(* All proxies and commands are of one session ID.  HMAC signatures hold:  *)
(* a command file is one that was published, or it is invalid.             *)
(***************************************************************************)
EXTENDS Naturals, FiniteSets

CONSTANTS
    Proxies,    \* proxies of the session
    Epoch,      \* Config.SessionEpoch of each
    Commands,   \* stop commands an operator may publish
    Through,    \* Command.RevokeThroughEpoch of each
    Budgets     \* bounds on the starts of each proxy and on the losses of
                \* the control channel; Init chooses one

ASSUME KineticConstants ==
    /\ Epoch \in [Proxies -> Nat \ {0}]
    /\ Through \in [Commands -> Nat \ {0}]
    /\ Budgets \subseteq [starts : [Proxies -> Nat], losses : Nat]
    /\ Commands \cap {"none", "lost"} = {}

VARIABLES
    command,    \* the command file: a command, "none", or "lost"
    state,      \* the state file: [id, epoch], id "none" when it is absent
    losses,     \* losses of the control channel that may still happen
    damaged,    \* whether one has happened
    cli,        \* where each stop command is
    starts,     \* starts left of each proxy
    covered,    \* commands published when the proxy was last started
    main,       \* where Run is
    known,      \* Monitor.state.RevokedThroughEpoch, 0 without a state
    child,      \* the supervised server
    mon,        \* where the monitor and enforceKineticStop are
    stop,       \* the command being enforced, "lost" for a contained loss
    revoked,    \* kineticRevoked
    runErr,     \* kineticRunErr # nil
    seen,       \* epoch WriteState found in the state file
    audited     \* committed kinetic_stop_enforced records: <<proxy, command>>

fileVars == <<command, state, losses, damaged>>
runVars == <<starts, covered, main, known, child>>
monVars == <<mon, stop, revoked, runErr, seen>>
vars == <<command, state, losses, damaged, cli, starts, covered, main, known,
          child, mon, stop, revoked, runErr, seen, audited>>

NoState == [id |-> "none", epoch |-> 0]

\* Commands ever published.
Published == {c \in Commands : cli[c] \notin {"idle", "refused"}}

-----------------------------------------------------------------------------
\* classifyCommand
Revokes(p, file) == file \in Commands /\ Through[file] >= Epoch[p]

\* A class that stops the proxy: revoke, invalid or unavailable.
Stops(p, file) == file = "lost" \/ Revokes(p, file)

\* WriteCommand replaces what it cannot decode and refuses a weaker command.
\* Faulty variant: the last command wins.
FaultyWeaker(c) == FALSE

Weaker(c) == command \in Commands /\ Through[command] > Through[c]

-----------------------------------------------------------------------------
Init ==
    /\ command = "none" /\ state = NoState /\ damaged = FALSE
    /\ \E b \in Budgets : starts = b.starts /\ losses = b.losses
    /\ cli = [c \in Commands |-> "idle"]
    /\ covered = [p \in Proxies |-> {}]
    /\ main = [p \in Proxies |-> "down"]
    /\ known = [p \in Proxies |-> 0]
    /\ child = [p \in Proxies |-> "none"]
    /\ mon = [p \in Proxies |-> "off"]
    /\ stop = [p \in Proxies |-> "none"]
    /\ revoked = [p \in Proxies |-> FALSE]
    /\ runErr = [p \in Proxies |-> FALSE]
    /\ seen = [p \in Proxies |-> 0]
    /\ audited = {}

-----------------------------------------------------------------------------
(***************************************************************************)
(* mcp-visor stop, and what may happen to the control directory.           *)
(***************************************************************************)
\* WriteCommand, under the publish lock.
Publish(c) ==
    /\ cli[c] = "idle"
    /\ IF Weaker(c)
       THEN cli' = [cli EXCEPT ![c] = "refused"] /\ UNCHANGED command
       ELSE cli' = [cli EXCEPT ![c] = "waiting"] /\ command' = c
    /\ UNCHANGED <<state, losses, damaged, runVars, monVars, audited>>

\* runStop finds its command in the state file.
Acknowledge(c) ==
    /\ cli[c] = "waiting"
    /\ state.id = c /\ state.epoch >= Through[c]
    /\ cli' = [cli EXCEPT ![c] = "acked"]
    /\ UNCHANGED <<fileVars, runVars, monVars, audited>>

GiveUp(c) ==
    /\ cli[c] = "waiting"
    /\ cli' = [cli EXCEPT ![c] = "timeout"]
    /\ UNCHANGED <<fileVars, runVars, monVars, audited>>

\* The command file or its directory is damaged, or its permissions change.
LoseControl ==
    /\ losses > 0
    /\ losses' = losses - 1
    /\ damaged' = TRUE
    /\ command' = "lost"
    /\ UNCHANGED <<state, cli, runVars, monVars, audited>>

-----------------------------------------------------------------------------
(***************************************************************************)
(* Run.                                                                    *)
(***************************************************************************)
Ended == {"down", "refused", "gone"}

\* New: initKineticStop builds the monitor, which reads the state file.
Build(p) ==
    /\ main[p] \in Ended /\ starts[p] > 0
    /\ starts' = [starts EXCEPT ![p] = @ - 1]
    /\ covered' = [covered EXCEPT ![p] = Published]
    /\ known' = [known EXCEPT ![p] = state.epoch]
    /\ main' = [main EXCEPT ![p] = "built"]
    /\ child' = [child EXCEPT ![p] = "none"]
    /\ mon' = [mon EXCEPT ![p] = "off"]
    /\ stop' = [stop EXCEPT ![p] = "none"]
    /\ revoked' = [revoked EXCEPT ![p] = FALSE]
    /\ runErr' = [runErr EXCEPT ![p] = FALSE]
    /\ seen' = [seen EXCEPT ![p] = 0]
    /\ UNCHANGED <<fileVars, cli, audited>>

\* StartupCheck, then the monitor goroutine.
StartupFails(p) == known[p] >= Epoch[p] \/ Stops(p, command)

StartupCheck(p) ==
    /\ main[p] = "built"
    /\ IF StartupFails(p)
       THEN main' = [main EXCEPT ![p] = "refused"] /\ UNCHANGED mon
       ELSE /\ main' = [main EXCEPT ![p] = "launching"]
            /\ mon' = [mon EXCEPT ![p] = "polling"]
    /\ UNCHANGED <<fileVars, cli, starts, covered, known, child, stop,
                   revoked, runErr, seen, audited>>

\* startSupervised takes kineticIOMu; it refuses a revoked session, or starts
\* the server, which may fail.
\* Faulty variant: the latch is not read before the launch.
FaultyRefusesLaunch(p) == FALSE

RefusesLaunch(p) == revoked[p]

Launch(p) ==
    /\ main[p] = "launching"
    /\ \/ main' = [main EXCEPT ![p] = "joining"] /\ UNCHANGED child
       \/ /\ ~RefusesLaunch(p)
          /\ child' = [child EXCEPT ![p] = "running"]
          /\ main' = [main EXCEPT ![p] = "started"]
    /\ UNCHANGED <<fileVars, cli, starts, covered, known, monVars, audited>>

\* startSupervised reads the latch again before it releases kineticIOMu.
Register(p) ==
    /\ main[p] = "started"
    /\ IF RefusesLaunch(p)
       THEN /\ child' = [child EXCEPT ![p] = "killed"]
            /\ main' = [main EXCEPT ![p] = "joining"]
       ELSE main' = [main EXCEPT ![p] = "serving"] /\ UNCHANGED child
    /\ UNCHANGED <<fileVars, cli, starts, covered, known, monVars, audited>>

\* A relay loop or the handshake returns: a write refused by the latch, the
\* session context cancelled, or an end of the streams.
RelayRefused(p) ==
    /\ main[p] = "serving" /\ revoked[p]
    /\ main' = [main EXCEPT ![p] = "joining"]
    /\ UNCHANGED <<fileVars, cli, starts, covered, known, child, monVars,
                   audited>>

RelayEnds(p) ==
    /\ main[p] = "serving"
    /\ main' = [main EXCEPT ![p] = "joining"]
    /\ UNCHANGED <<fileVars, cli, starts, covered, known, child, monVars,
                   audited>>

\* kineticOr: wait for the persistence of a stop that has set kineticRunErr.
Persisted == {"persisted", "bookkept"}

Join(p) ==
    /\ main[p] = "joining"
    /\ IF runErr[p] THEN mon[p] \in Persisted ELSE TRUE
    /\ main' = [main EXCEPT ![p] = "returned"]
    /\ UNCHANGED <<fileVars, cli, starts, covered, known, child, monVars,
                   audited>>

\* The deferred calls of Run: kill the server, close the audit log; then the
\* process exits.
Exit(p) ==
    /\ main[p] = "returned"
    /\ main' = [main EXCEPT ![p] = "gone"]
    /\ child' = [child EXCEPT ![p] = IF @ = "running" THEN "killed" ELSE @]
    /\ UNCHANGED <<fileVars, cli, starts, covered, known, monVars,
                   audited>>

\* The proxy dies; its server is left behind without a supervisor.
Crash(p) ==
    /\ main[p] \notin Ended
    /\ main' = [main EXCEPT ![p] = "gone"]
    /\ child' = [child EXCEPT ![p] = IF @ = "running" THEN "orphan" ELSE @]
    /\ UNCHANGED <<fileVars, cli, starts, covered, known, monVars, audited>>

-----------------------------------------------------------------------------
(***************************************************************************)
(* The monitor and enforceKineticStop, while the process lives.            *)
(***************************************************************************)
Enforcing(p, at) == mon[p] = at /\ main[p] \notin Ended

\* A poll that finds a reason to stop latches the revocation.
\* Faulty variant: a lost control channel is polled again.
FaultyMustStop(p) == Revokes(p, command)

MustStop(p) == Stops(p, command)

Latch(p) ==
    /\ Enforcing(p, "polling") /\ MustStop(p)
    /\ stop' = [stop EXCEPT ![p] = command]
    /\ revoked' = [revoked EXCEPT ![p] = TRUE]
    /\ mon' = [mon EXCEPT ![p] = "latched"]
    /\ UNCHANGED <<fileVars, cli, runVars, runErr, seen, audited>>

\* kineticRunErr is set and the session context is cancelled.
Mark(p) ==
    /\ Enforcing(p, "latched")
    /\ runErr' = [runErr EXCEPT ![p] = TRUE]
    /\ mon' = [mon EXCEPT ![p] = "marked"]
    /\ UNCHANGED <<fileVars, cli, runVars, stop, revoked, seen, audited>>

\* containSupervisedProcess: the pipes are closed, then the process group is
\* killed under kineticIOMu, which a launch in progress holds.
Contain(p) ==
    /\ Enforcing(p, "marked") /\ main[p] # "started"
    /\ child' = [child EXCEPT ![p] = IF @ = "running" THEN "killed" ELSE @]
    /\ mon' = [mon EXCEPT ![p] = "contained"]
    /\ UNCHANGED <<fileVars, cli, starts, covered, main, known, stop,
                   revoked, runErr, seen, audited>>

\* Only a revocation is persisted as state.
\* Faulty variant: the state is written whatever became of the audit record.
FaultyAfterAudit(p, ok) == IF stop[p] \in Commands THEN "audited" ELSE "persisted"

AfterAudit(p, ok) ==
    IF ok /\ stop[p] \in Commands THEN "audited" ELSE "persisted"

\* CommitKineticStop; it fails on a poisoned or closed sink.
Audit(p) ==
    /\ Enforcing(p, "contained")
    /\ \E ok \in BOOLEAN :
         /\ audited' = IF ok THEN audited \cup {<<p, stop[p]>>} ELSE audited
         /\ mon' = [mon EXCEPT ![p] = AfterAudit(p, ok)]
    /\ UNCHANGED <<fileVars, cli, runVars, stop, revoked, runErr, seen>>

\* WriteState: read the state file ...
ReadState(p) ==
    /\ Enforcing(p, "audited")
    /\ seen' = [seen EXCEPT ![p] = state.epoch]
    /\ mon' = [mon EXCEPT ![p] = "read"]
    /\ UNCHANGED <<fileVars, cli, runVars, stop, revoked, runErr, audited>>

\* ... and replace it, with the larger epoch; no lock covers the two.
StateEpoch(p) ==
    IF seen[p] > Through[stop[p]] THEN seen[p] ELSE Through[stop[p]]

WriteState(p) ==
    /\ Enforcing(p, "read")
    /\ \/ state' = [id |-> stop[p], epoch |-> StateEpoch(p)]
       \/ UNCHANGED state                     \* the write fails
    /\ mon' = [mon EXCEPT ![p] = "persisted"]
    /\ UNCHANGED <<command, losses, damaged, cli, runVars, stop, revoked,
                   runErr, seen, audited>>

\* The rest of enforceKineticStop, under runtimeMu, which nobody waits for.
Bookkeep(p) ==
    /\ Enforcing(p, "persisted")
    /\ mon' = [mon EXCEPT ![p] = "bookkept"]
    /\ UNCHANGED <<fileVars, cli, runVars, stop, revoked, runErr, seen, audited>>

MonitorStep(p) ==
    Latch(p) \/ Mark(p) \/ Contain(p) \/ Audit(p) \/ ReadState(p)
        \/ WriteState(p) \/ Bookkeep(p)

LaunchStep(p) == StartupCheck(p) \/ Launch(p) \/ Register(p)
ReturnStep(p) == RelayRefused(p) \/ Join(p) \/ Exit(p)

Next ==
    \/ \E c \in Commands : Publish(c) \/ Acknowledge(c) \/ GiveUp(c)
    \/ LoseControl
    \/ \E p \in Proxies : Build(p) \/ LaunchStep(p) \/ RelayEnds(p)
                          \/ ReturnStep(p) \/ MonitorStep(p) \/ Crash(p)

Spec == Init /\ [][Next]_vars

\* The goroutines of a live proxy keep running.
FairSpec ==
    Spec /\ \A p \in Proxies :
              WF_vars(LaunchStep(p)) /\ WF_vars(MonitorStep(p))
                  /\ WF_vars(ReturnStep(p))

-----------------------------------------------------------------------------
\* Types of the variables.
TypeOK ==
    /\ command \in Commands \cup {"none", "lost"}
    /\ state \in [id : Commands \cup {"none"}, epoch : Nat]
    /\ losses \in Nat /\ damaged \in BOOLEAN
    /\ cli \in [Commands -> {"idle", "refused", "waiting", "acked", "timeout"}]
    /\ starts \in [Proxies -> Nat]
    /\ covered \in [Proxies -> SUBSET Commands]
    /\ main \in [Proxies -> {"down", "built", "refused", "launching", "started",
                             "serving", "joining", "returned", "gone"}]
    /\ known \in [Proxies -> Nat]
    /\ child \in [Proxies -> {"none", "running", "killed", "orphan"}]
    /\ mon \in [Proxies -> {"off", "polling", "latched", "marked", "contained",
                            "audited", "read", "persisted", "bookkept"}]
    /\ stop \in [Proxies -> Commands \cup {"none", "lost"}]
    /\ revoked \in [Proxies -> BOOLEAN] /\ runErr \in [Proxies -> BOOLEAN]
    /\ seen \in [Proxies -> Nat]
    /\ audited \subseteq Proxies \X (Commands \cup {"lost"})

\* Success of mcp-visor stop means that some proxy the command covers has
\* contained its server and committed the audit record of this very command.
AckMeansEnforced ==
    \A c \in Commands :
        cli[c] = "acked" =>
            \E p \in Proxies : <<p, c>> \in audited /\ Through[c] >= Epoch[p]

\* Once enforcement has killed the server none runs under this proxy: a launch
\* racing with the stop is refused or killed.
ContainedStaysDead ==
    \A p \in Proxies :
        mon[p] \in {"contained", "audited", "read", "persisted", "bookkept"}
            => child[p] # "running"

\* A proxy that is started after a command covering its epoch was published
\* never launches a server, whatever commands, stops and crashes came between,
\* as long as the control directory was never damaged.
CoveredNeverLaunches ==
    ~damaged =>
        \A p \in Proxies :
            child[p] \in {"running", "orphan"} =>
                \A c \in covered[p] : Through[c] < Epoch[p]

\* The state file always names a command whose stop was audited, and it never
\* claims more epochs than were commanded.
StateIsBacked ==
    state # NoState =>
        /\ \E p \in Proxies : <<p, state.id>> \in audited
        /\ \E c \in Published : state.epoch = Through[c]

\* A covering command, or a lost control channel, ends a running server.
StopTakesEffect ==
    \A p \in Proxies :
        (child[p] = "running" /\ Stops(p, command))
            ~> (child[p] # "running" \/ ~Stops(p, command))
=============================================================================
