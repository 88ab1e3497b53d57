------------------------------ MODULE ToolsCall ------------------------------
(***************************************************************************)
(* The path of a tools/call through the stdio proxy (internal/proxy):      *)
(* relayClientToServer and runHandshake read one message at a time,        *)
(* processToolsCall gates, evaluates, waits for approval, commits the      *)
(* allow record and returns, the relay loop records the call and writes it *)
(* to the server.  Beside it run the policy reload (commitPolicyRuntime),  *)
(* the kinetic stop (enforceKineticStop), the operator, and time.          *)
(*                                                                         *)
(* runtimeMu is Go's RWMutex: a waiting writer keeps new readers out.  The *)
(* call holds its read side from Begin until it denies, waits for approval *)
(* or has committed.  A step below is what the code does between two       *)
(* points where another goroutine can change what the call will read.      *)
(***************************************************************************)
EXTENDS PolicyDecision, FiniteSets, Integers

CONSTANTS
    Requests,      \* requests a client may send: [tool, oversize, sensitive, nonce]
    Nonces,        \* nonces of valid instruction-authority assertions
    CfgServer,     \* Config.ServerName, which New defaults to the command
    LaunchDigest,  \* digest of the stdio invocation that was launched
    MaxCalls,      \* bound on the requests of a session
    MaxReloads     \* bound on the reloads of a session

ASSUME ToolsCallConstants ==
    /\ \A r \in Requests : /\ r.tool \in Tools
                           /\ r.oversize \in BOOLEAN
                           /\ r.sensitive \in BOOLEAN
                           /\ r.nonce \in STRING
    /\ MaxCalls \in Nat /\ MaxReloads \in Nat

VARIABLES
    pc,          \* where the client-to-server loop is
    slot,        \* "handshake" until the first message after initialize
    calls,       \* number of tools/call requests read so far
    cur,         \* the request in hand and what was pinned for it
    rlock,       \* the call holds runtimeMu.RLock
    wlock,       \* the reload: free, waiting, locked, published
    loaded,      \* policies read from the policy file; the last one is newest
    engineGen,   \* index in loaded of the engine's policy
    surfaceGen,  \* index of the policy the redactor, the approval timeout, the
                 \* evaluator and the H32 gate were built from
    launched,    \* resolvedIdentity.Digest, "" when none was captured
    toolCalls,   \* Session.ToolCalls
    taints,      \* names in Session.Taints
    spawnDepth,  \* Session.SpawnDepth
    usedNonces,  \* Session.instructionAuthorityNonces
    expired,     \* credentials whose validity has ended
    revoked,     \* kineticRevoked
    contained,   \* the supervised server has been killed
    poisoned,    \* the audit sink is poisoned
    ledger,      \* decision and reload records of the audit log
    auths,       \* committed authorizations, in order
    relayed      \* numbers of the requests written to the server, in order

sessionVars == <<toolCalls, taints, spawnDepth, usedNonces>>
policyVars == <<loaded, engineGen, surfaceGen, launched>>
stopVars == <<revoked, contained>>
auditVars == <<poisoned, ledger>>
clientVars == <<pc, slot, calls, cur, rlock>>
vars == <<pc, slot, calls, cur, rlock, wlock, loaded, engineGen, surfaceGen,
          launched, toolCalls, taints, spawnDepth, usedNonces, expired,
          revoked, contained, poisoned, ledger, auths, relayed>>

Live == loaded[engineGen]
Snapshot == loaded[cur.gen]
Tool == cur.req.tool

\* Everything a request pins: its number, the generation of the snapshot, the
\* generations that gated, redacted and evaluated it, whether a delegation
\* unit is held, who allowed it, and the credentials that had
\* expired when the operator answered.
NoRequest == [tool |-> "", oversize |-> FALSE, sensitive |-> FALSE, nonce |-> ""]
Idle == [req |-> NoRequest, n |-> 0, gen |-> 1, red |-> 1, eval |-> 1,
         reserved |-> FALSE, via |-> "policy", stale |-> {}]

-----------------------------------------------------------------------------
\* audit.Log: a record is appended, or dropped by a poisoned logger.
\* ordered: the code writes it before the approval wait, while it is to hold
\* the lock; what it writes after the wait carries an older generation.
Record(type, n, gen) ==
    [type |-> type, n |-> n, gen |-> gen,
     ordered |-> pc \notin {"waiting", "recheck", "verify"} /\ cur.via = "policy"]

Log(r) == ledger' = IF poisoned THEN ledger ELSE Append(ledger, r)

\* A denied request: in the handshake slot it ends the session.
AfterDeny == IF slot = "handshake" THEN "closed" ELSE "ready"

\* The common end of the deny paths: respond, log, release.
DenyCall ==
    /\ Log(Record("denied", cur.n, cur.gen))
    /\ pc' = AfterDeny
    /\ cur' = Idle
    /\ rlock' = FALSE

-----------------------------------------------------------------------------
(***************************************************************************)
(* Faulty variants of the steps below, each standing for a plausible bug.  *)
(***************************************************************************)
\* The call is processed without taking the read lock.
FaultyTakeBarrier == rlock' = FALSE

\* The approval wait keeps the read lock.
FaultyReleaseForWait == UNCHANGED rlock

\* The write to the server does not check the kinetic latch.
FaultyMayEncode == TRUE

\* An authorized call leaves no taints.
FaultyMarkTaints == UNCHANGED taints

\* The pre-wait verdicts are trusted after the wait.
FaultyRecheckFails == FALSE

\* A unit reserved for a call that is then denied is not given back.
FaultyKeepUnit == UNCHANGED spawnDepth

-----------------------------------------------------------------------------
Init ==
    /\ pc = "ready" /\ slot = "handshake" /\ calls = 0
    /\ cur = Idle
    /\ rlock = FALSE /\ wlock = "free"
    /\ \E p \in Policies :
          /\ loaded = <<p>>
          /\ launched = IF p.pin = "" THEN "" ELSE LaunchDigest
    /\ engineGen = 1 /\ surfaceGen = 1
    /\ toolCalls = <<>> /\ taints = {} /\ spawnDepth = 0 /\ usedNonces = {}
    /\ expired = {}
    /\ revoked = FALSE /\ contained = FALSE
    /\ poisoned = FALSE /\ ledger = <<>>
    /\ auths = <<>> /\ relayed = <<>>

-----------------------------------------------------------------------------
(***************************************************************************)
(* The client-to-server loop.                                              *)
(***************************************************************************)
\* The first message after initialize is the initialized notification.
RelayInitialized ==
    /\ pc = "ready" /\ slot = "handshake"
    /\ slot' = "loop"
    /\ pc' = IF revoked THEN "closed" ELSE "ready"
    /\ UNCHANGED <<calls, cur, rlock, wlock, policyVars, sessionVars, expired,
                   stopVars, auditVars, auths, relayed>>

\* A notification-form or malformed tools/call is denied at the envelope gate.
DenyEnvelope ==
    /\ pc = "ready" /\ wlock = "free" /\ calls < MaxCalls
    /\ calls' = calls + 1
    /\ Log([Record("denied", calls + 1, engineGen) EXCEPT !.ordered = FALSE])
    /\ pc' = AfterDeny
    /\ UNCHANGED <<slot, cur, rlock, wlock, policyVars, sessionVars, expired,
                   stopVars, poisoned, auths, relayed>>

TakeBarrier == rlock' = TRUE

\* processToolsCall up to the runtime snapshot: take the read lock, pass the
\* kinetic gate, capture the generation in force.
Begin(req) ==
    /\ pc = "ready" /\ wlock = "free" /\ calls < MaxCalls
    /\ calls' = calls + 1
    /\ IF revoked
       THEN /\ Log(Record("denied", calls + 1, engineGen))
            /\ pc' = AfterDeny
            /\ UNCHANGED <<cur, rlock>>
       ELSE /\ cur' = [Idle EXCEPT !.req = req, !.n = calls + 1,
                                   !.gen = engineGen, !.red = surfaceGen]
            /\ TakeBarrier
            /\ pc' = "gates"
            /\ UNCHANGED ledger
    /\ UNCHANGED <<slot, wlock, policyVars, sessionVars, expired, stopVars,
                   poisoned, auths, relayed>>

\* The identity pin of the snapshot against the identity captured at launch.
IdentityGate == IdentityFails(Snapshot, launched)

\* The H32 gate, which consumes the nonce of a valid assertion.
AssertionFails ==
    loaded[cur.red].assertions /\ (cur.req.nonce \notin Nonces
                                   \/ cur.req.nonce \in usedNonces)

\* Identity, runtime limits, instruction authority, redaction and the
\* sensitive-file block, in this order.
Gates ==
    /\ pc = "gates"
    /\ LET early == IdentityGate \/ LimitsExceeded(Live, Len(toolCalls),
                                                   cur.req.oversize)
           spent == ~early /\ loaded[cur.red].assertions /\ ~AssertionFails
       IN  /\ usedNonces' = IF spent THEN usedNonces \cup {cur.req.nonce}
                                     ELSE usedNonces
           /\ IF early \/ AssertionFails \/ cur.req.sensitive
              THEN DenyCall
              ELSE pc' = "decide" /\ UNCHANGED <<cur, ledger, rlock>>
    /\ UNCHANGED <<slot, calls, wlock, policyVars, toolCalls, taints,
                   spawnDepth, expired, stopVars, poisoned, auths, relayed>>

\* Evaluate, capability ownership, egress controls, chain rules and the
\* capability evaluator, each of which only sees a decision that is not deny.
Verdict(pause) ==
    LET eval == Evaluate(Live, Tool, expired)
        owned == IF eval # "deny" /\ ~OwnershipHolds(Snapshot, Tool, expired)
                 THEN "deny" ELSE eval
        egress == IF owned = "deny" THEN "deny"
                  ELSE EgressAction(Live, taints, Tool, owned)
        chained == IF egress = "deny" THEN "deny"
                   ELSE ChainAction(Live, toolCalls, Tool, egress)
    IN  IF pause /\ chained # "deny" THEN "require_approval" ELSE chained

\* The decision, and for an allow the reservation of a delegation unit.
Decide ==
    /\ pc = "decide"
    /\ \E pause \in IF loaded[surfaceGen].capability THEN BOOLEAN ELSE {FALSE} :
         LET verdict == Verdict(pause)
             over == verdict = "allow" /\ OverCeiling(Snapshot, Tool, spawnDepth)
             unit == verdict = "allow" /\ ~over /\ Tool \in Snapshot.delegates
             final == IF over THEN "deny" ELSE verdict
         IN  /\ cur' = [cur EXCEPT !.eval = engineGen, !.reserved = unit]
             /\ spawnDepth' = IF unit THEN spawnDepth + 1 ELSE spawnDepth
             /\ pc' = CASE final = "deny" -> "deny"
                        [] final = "require_approval" -> "approval"
                        [] OTHER -> "commit"
    /\ UNCHANGED <<slot, calls, rlock, wlock, policyVars, toolCalls, taints,
                   usedNonces, expired, stopVars, auditVars, auths, relayed>>

Deny ==
    /\ pc = "deny"
    /\ DenyCall
    /\ UNCHANGED <<slot, calls, wlock, policyVars, sessionVars, expired,
                   stopVars, poisoned, auths, relayed>>

ReleaseForWait == rlock' = FALSE

\* The approval branch up to the blocking wait: the ceiling is checked, the
\* request is logged under the lock, the lock is released.
AskApproval ==
    /\ pc = "approval"
    /\ IF OverCeiling(Snapshot, Tool, spawnDepth)
       THEN DenyCall
       ELSE /\ Log(Record("approval_required", cur.n, cur.gen))
            /\ pc' = "waiting"
            /\ ReleaseForWait
            /\ UNCHANGED cur
    /\ UNCHANGED <<slot, calls, wlock, policyVars, sessionVars, expired,
                   stopVars, poisoned, auths, relayed>>

\* requestApproval returns without approval: rejected, timed out, no backend,
\* or no signed receipt.
Refuse ==
    /\ pc = "waiting"
    /\ DenyCall
    /\ UNCHANGED <<slot, calls, wlock, policyVars, sessionVars, expired,
                   stopVars, poisoned, auths, relayed>>

\* The operator approves and the receipt is signed.
Approve ==
    /\ pc = "waiting"
    /\ cur' = [cur EXCEPT !.via = "human",
                         !.stale = expired \cup IF revoked THEN {"session"}
                                                ELSE {}]
    /\ pc' = "recheck"
    /\ UNCHANGED <<slot, calls, rlock, wlock, policyVars, sessionVars, expired,
                   stopVars, auditVars, auths, relayed>>

\* The ceiling of the atomic reserve at grant time.
GrantCeiling == OverCeiling(Snapshot, Tool, spawnDepth)

\* After the wait, with a fresh clock and the pinned policy: the ownership grant
\* is checked, and a delegation unit is reserved.
Reserve ==
    /\ pc = "recheck"
    /\ IF ~OwnershipHolds(Snapshot, Tool, expired) \/ GrantCeiling
       THEN DenyCall /\ UNCHANGED spawnDepth
       ELSE LET unit == Tool \in Snapshot.delegates
            IN  /\ cur' = [cur EXCEPT !.reserved = unit]
                /\ spawnDepth' = IF unit THEN spawnDepth + 1 ELSE spawnDepth
                /\ pc' = "verify"
                /\ UNCHANGED <<ledger, rlock>>
    /\ UNCHANGED <<slot, calls, wlock, policyVars, toolCalls, taints,
                   usedNonces, expired, stopVars, poisoned, auths, relayed>>

\* ReleaseDelegation, when a unit is held.
ReleaseUnit ==
    spawnDepth' = IF cur.reserved /\ spawnDepth > 0 THEN spawnDepth - 1
                                                   ELSE spawnDepth

\* The kinetic stop, the lineage and the verified actor, read one after the
\* other.  Each of them only ever turns bad, so that a call which passes all
\* three also passes them at the instant of the first.
RecheckFails ==
    \/ revoked
    \/ (Snapshot.needs[Tool] \ {"ownership"}) \cap expired # {}

\* A unit reserved before a failing check is given back.
Verify ==
    /\ pc = "verify"
    /\ IF RecheckFails
       THEN DenyCall /\ ReleaseUnit
       ELSE pc' = "commit" /\ UNCHANGED <<cur, ledger, rlock, spawnDepth>>
    /\ UNCHANGED <<slot, calls, wlock, policyVars, toolCalls, taints,
                   usedNonces, expired, stopVars, poisoned, auths, relayed>>

MarkTaints == taints' = taints \cup Snapshot.taints[Tool]

\* CommitAuthorization succeeds: the allow record is on stable storage before
\* the taints are marked and the lock is released.
CommitAllow ==
    /\ pc = "commit" /\ ~poisoned
    /\ ledger' = Append(ledger, Record("allowed", cur.n, cur.gen))
    /\ auths' = Append(auths, [n |-> cur.n, tool |-> Tool, gen |-> cur.gen,
                               red |-> cur.red, eval |-> cur.eval,
                               via |-> cur.via, stale |-> cur.stale,
                               unit |-> cur.reserved, depth |-> spawnDepth,
                               nonce |-> cur.req.nonce, slot |-> slot])
    /\ MarkTaints
    /\ rlock' = FALSE
    /\ cur' = [cur EXCEPT !.reserved = FALSE]
    /\ pc' = "record"
    /\ UNCHANGED <<slot, calls, wlock, policyVars, toolCalls, spawnDepth,
                   usedNonces, expired, stopVars, poisoned, relayed>>

\* CommitAuthorization fails, and the sink is poisoned.  After a failed Sync
\* the record is in the file although the call is denied.
CommitFails ==
    /\ pc = "commit"
    /\ poisoned' = TRUE
    /\ \/ UNCHANGED ledger
       \/ ~poisoned /\ Log(Record("allowed", cur.n, cur.gen))
    /\ ReleaseUnit
    /\ rlock' = FALSE
    /\ cur' = Idle
    /\ pc' = AfterDeny
    /\ UNCHANGED <<slot, calls, wlock, policyVars, toolCalls, taints,
                   usedNonces, expired, stopVars, auths, relayed>>

RecordToolCall ==
    toolCalls' = Append(toolCalls, [server |-> CfgServer, tool |-> Tool])

\* logClientMessage, which the handshake slot does not call.
RecordCall ==
    /\ pc = "record"
    /\ IF slot = "loop" THEN RecordToolCall ELSE UNCHANGED toolCalls
    /\ pc' = "encode"
    /\ UNCHANGED <<slot, calls, cur, rlock, wlock, policyVars, taints,
                   spawnDepth, usedNonces, expired, stopVars, auditVars,
                   auths, relayed>>

MayEncode == ~revoked

\* encodeIfNotRevoked: the latch is read and the line is written under
\* kineticIOMu, the mutex under which the server is killed.
Encode ==
    /\ pc = "encode" /\ MayEncode
    /\ relayed' = Append(relayed, cur.n)
    /\ pc' = "ready" /\ slot' = "loop" /\ cur' = Idle
    /\ UNCHANGED <<calls, rlock, wlock, policyVars, sessionVars, expired,
                   stopVars, auditVars, auths>>

\* The write is refused after a stop, or fails on the pipe: the loop ends.
EncodeFails ==
    /\ pc = "encode"
    /\ pc' = "closed" /\ cur' = Idle
    /\ UNCHANGED <<slot, calls, rlock, wlock, policyVars, sessionVars, expired,
                   stopVars, auditVars, auths, relayed>>

\* The client closes its side, or the session context is cancelled.
EndOfInput ==
    /\ pc = "ready"
    /\ pc' = "closed"
    /\ UNCHANGED <<slot, calls, cur, rlock, wlock, policyVars, sessionVars,
                   expired, stopVars, auditVars, auths, relayed>>

-----------------------------------------------------------------------------
(***************************************************************************)
(* The reload.                                                             *)
(***************************************************************************)
\* The watcher has read a valid policy file and calls the committer.
ReloadRequest(p) ==
    /\ wlock = "free" /\ Len(loaded) <= MaxReloads
    /\ loaded' = Append(loaded, p)
    /\ wlock' = "waiting"
    /\ UNCHANGED <<clientVars, engineGen, surfaceGen, launched, sessionVars,
                   expired, stopVars, auditVars, auths, relayed>>

\* runtimeMu.Lock
ReloadLock ==
    /\ wlock = "waiting" /\ ~rlock
    /\ wlock' = "locked"
    /\ UNCHANGED <<clientVars, policyVars, sessionVars, expired, stopVars,
                   auditVars, auths, relayed>>

\* publish()
ReloadPublish ==
    /\ wlock = "locked"
    /\ engineGen' = Len(loaded)
    /\ wlock' = "published"
    /\ UNCHANGED <<clientVars, loaded, surfaceGen, launched, sessionVars,
                   expired, stopVars, auditVars, auths, relayed>>

\* Redactor, approval timeout, evaluator, H32 gate and audit patterns follow,
\* the transition is logged, and the lock is released.
ReloadSurfaces ==
    /\ wlock = "published"
    /\ surfaceGen' = engineGen
    /\ Log([Record("reloaded", 0, engineGen) EXCEPT !.ordered = TRUE])
    /\ wlock' = "free"
    /\ UNCHANGED <<clientVars, loaded, engineGen, launched, sessionVars,
                   expired, stopVars, poisoned, auths, relayed>>

-----------------------------------------------------------------------------
(***************************************************************************)
(* The kinetic stop, time, and the rest of the audit writers.              *)
(***************************************************************************)
\* enforceKineticStop latches the revocation.
KineticLatch ==
    /\ ~revoked
    /\ revoked' = TRUE
    /\ UNCHANGED <<clientVars, wlock, policyVars, sessionVars, expired,
                   contained, auditVars, auths, relayed>>

\* containSupervisedProcess kills the server under kineticIOMu.
KineticContain ==
    /\ revoked /\ ~contained
    /\ contained' = TRUE
    /\ UNCHANGED <<clientVars, wlock, policyVars, sessionVars, expired,
                   revoked, auditVars, auths, relayed>>

Expire(c) ==
    /\ c \notin expired
    /\ expired' = expired \cup {c}
    /\ UNCHANGED <<clientVars, wlock, policyVars, sessionVars, stopVars,
                   auditVars, auths, relayed>>

\* A write of any audit record fails and poisons the sink.
AuditWriteFails ==
    /\ ~poisoned
    /\ poisoned' = TRUE
    /\ UNCHANGED <<clientVars, wlock, policyVars, sessionVars, expired,
                   stopVars, ledger, auths, relayed>>

\* Steps of the loop that need nobody else.
ClientStep ==
    \/ Gates \/ Decide \/ Deny \/ AskApproval \/ Reserve \/ Verify
    \/ CommitAllow \/ CommitFails \/ RecordCall \/ Encode \/ EncodeFails

ReloadStep == ReloadLock \/ ReloadPublish \/ ReloadSurfaces

Next ==
    \/ RelayInitialized \/ DenyEnvelope \/ EndOfInput
    \/ \E req \in Requests : Begin(req)
    \/ ClientStep
    \/ Refuse \/ Approve
    \/ \E p \in Policies : ReloadRequest(p)
    \/ ReloadStep
    \/ KineticLatch \/ KineticContain
    \/ \E c \in Credentials : Expire(c)
    \/ AuditWriteFails

Spec == Init /\ [][Next]_vars

\* The goroutines of the loop and of the reload keep running.
FairSpec == Spec /\ WF_vars(ClientStep) /\ WF_vars(ReloadStep)

-----------------------------------------------------------------------------
Generations == 1 .. Len(loaded)

Digests == {"", LaunchDigest}

AuthRecords ==
    [n : Nat, tool : Tools, gen : Nat, red : Nat, eval : Nat,
     via : {"policy", "human"}, stale : SUBSET (Credentials \cup {"session"}),
     unit : BOOLEAN, depth : Nat, nonce : STRING, slot : {"handshake", "loop"}]

Pinnings ==
    [req : Requests \cup {NoRequest}, n : Nat, gen : Generations,
     red : Generations, eval : Generations, reserved : BOOLEAN,
     via : {"policy", "human"}, stale : SUBSET (Credentials \cup {"session"})]

LedgerRecords ==
    [type : {"denied", "approval_required", "allowed", "reloaded"},
     n : Nat, gen : Nat, ordered : BOOLEAN]

\* Types of the variables.
TypeOK ==
    /\ pc \in {"ready", "gates", "decide", "deny", "approval", "waiting",
               "recheck", "verify", "commit", "record", "encode", "closed"}
    /\ slot \in {"handshake", "loop"}
    /\ calls \in 0 .. MaxCalls
    /\ cur \in Pinnings
    /\ rlock \in BOOLEAN
    /\ wlock \in {"free", "waiting", "locked", "published"}
    /\ loaded \in Seq(Policies)
    /\ engineGen \in Generations /\ surfaceGen \in Generations
    /\ launched \in Digests
    /\ toolCalls \in Seq([server : {CfgServer}, tool : Tools])
    /\ taints \subseteq STRING
    /\ spawnDepth \in Nat
    /\ usedNonces \subseteq Nonces
    /\ expired \subseteq Credentials
    /\ revoked \in BOOLEAN /\ contained \in BOOLEAN /\ poisoned \in BOOLEAN
    /\ ledger \in Seq(LedgerRecords)
    /\ auths \in Seq(AuthRecords)
    /\ relayed \in Seq(Nat)

\* One policy generation gates, redacts, evaluates and pins a call, however
\* reloads interleave with it (the runtimeMu barrier of processToolsCall).
OneGeneration ==
    \A k \in DOMAIN auths : /\ auths[k].red = auths[k].gen
                            /\ auths[k].eval = auths[k].gen

Pinned(k) == loaded[auths[k].gen]

\* What an outcome asks of whoever allows the call.
Passes(action, via) ==
    action = "allow" \/ (action = "require_approval" /\ via = "human")

StagesPass(p, tool, via) ==
    /\ p.serverAllowed
    /\ tool \in p.allowed \/ (tool \notin p.known /\ p.defaultAction = "allow")
    /\ \A i \in DOMAIN p.stages[tool] : Passes(p.stages[tool][i], via)

EgressPasses(p, before, tool, via) ==
    Passes(EgressAction(p, before, tool, "allow"), via)

\* A committed authorization is one its pinned policy permits: the server is
\* the attested one, no Evaluate stage denies the tool, and where a stage
\* asks for approval a human gave it.
PinnedPolicyPermits ==
    \A k \in DOMAIN auths :
        /\ Pinned(k).pin \in {"", launched}
        /\ StagesPass(Pinned(k), auths[k].tool, auths[k].via)

\* The audit log is a faithful history of generations: a decision that the
\* code logs under the barrier stands after the policy_reloaded record of its
\* generation and before that of the next one.
LedgerFollowsReloads ==
    \A i, j \in DOMAIN ledger :
        i < j /\ ledger[i].ordered /\ ledger[j].ordered =>
            /\ ledger[i].gen <= ledger[j].gen
            /\ ledger[j].type = "reloaded" => ledger[i].gen < ledger[j].gen

\* The taints of the calls authorized before the k-th.
TaintsBefore(k) ==
    UNION {Pinned(i).taints[auths[i].tool] : i \in 1 .. k - 1}

\* After a call that taints the session, a call to a sink is authorized only
\* as the egress control of its own policy says, across approvals and reloads.
EgressRespected ==
    \A k \in DOMAIN auths :
        EgressPasses(Pinned(k), TaintsBefore(k), auths[k].tool, auths[k].via)

\* Whatever is reloaded meanwhile, each authorization is one the policy it was
\* decided under permits, given what the session had done before.
PolicyRespected == PinnedPolicyPermits /\ EgressRespected

\* Delegation accounting is exact: the session counter is the number of
\* authorized delegations plus the unit in hand, and no authorization exceeds
\* the ceiling of its policy, although the ceiling may change by reload and
\* units are reserved on two paths and given back on every failing check and
\* commit behind them.
DelegationExact ==
    /\ spawnDepth = Cardinality({k \in DOMAIN auths : auths[k].unit})
                    + IF cur.reserved THEN 1 ELSE 0
    /\ \A k \in DOMAIN auths :
          /\ auths[k].unit <=> auths[k].tool \in Pinned(k).delegates
          /\ auths[k].unit /\ Pinned(k).maxSpawnDepth > 0
                => auths[k].depth <= Pinned(k).maxSpawnDepth

\* A verdict from before the approval wait never authorizes: what had expired,
\* and whether the session was revoked, when the operator answered is seen.
GrantIsFresh ==
    \A k \in DOMAIN auths :
        auths[k].via = "human" =>
            auths[k].stale \cap (Pinned(k).needs[auths[k].tool] \cup {"session"})
                = {}

\* The calls the relay loop authorized after the i-th and before the k-th.
LoopCalls(i, k) == {j \in i + 1 .. k - 1 : auths[j].slot = "loop"}

\* session_max_tools bounds the calls the relay loop authorizes.
SessionLimitRespected ==
    \A k \in DOMAIN auths :
        auths[k].slot = "loop" /\ Pinned(k).sessionMaxTools > 0 =>
            Cardinality(LoopCalls(0, k)) < Pinned(k).sessionMaxTools

\* A nonce of an instruction-authority assertion authorizes one call.
NonceUsedOnce ==
    \A i, k \in DOMAIN auths :
        /\ Pinned(i).assertions /\ Pinned(k).assertions
        /\ auths[i].nonce = auths[k].nonce
        => i = k

\* The chain rules of its policy that the k-th authorization meets: one of the
\* calls the relay loop authorized before is a source within the rule's window.
DocumentedHits(k) ==
    LET p == Pinned(k)
    IN  {r \in DOMAIN p.chains :
            /\ auths[k].tool \in p.chains[r].sinks
            /\ \E i \in LoopCalls(0, k) :
                  /\ DocumentedWindow(p, r, Cardinality(LoopCalls(i, k)))
                  /\ SourceMatches(p.chains[r], [server |-> CfgServer,
                                                tool |-> auths[i].tool])}

\* What the first of the rules that are met asks of whoever allows the call.
HitsPass(p, hits, via) ==
    LET first == p.chains[CHOOSE i \in hits : \A j \in hits : i <= j].action
    IN  hits # {} => first # "deny" /\ (first = "require_approval"
                                           => via = "human")

\* No rule looks further back than one before it: EvaluateChain cuts the
\* history for all later rules.
NarrowingWindows(p) ==
    \A i, j \in DOMAIN p.chains :
        i < j /\ p.chains[i].within > 0 => p.chains[j].within \in 1 .. p.chains[i].within

\* A sink call is authorized only as the first chain rule says that has a
\* source among the calls the relay loop authorized within its window, under
\* every policy whose rules stand in the order of their windows.
ChainsHonouredInLoop ==
    \A k \in DOMAIN auths :
        auths[k].slot = "loop" /\ NarrowingWindows(Pinned(k)) =>
            HitsPass(Pinned(k), DocumentedHits(k), auths[k].via)

\* The rules about the session as a whole hold: chains, session_max_tools and
\* the single use of nonces.
SessionRulesHold ==
    ChainsHonouredInLoop /\ SessionLimitRespected /\ NonceUsedOnce

\* The proxy keeps its contract: authorize once, relay once and only what was
\* authorized, and nothing to a contained server.
Authorized == {auths[k].n : k \in DOMAIN auths}

Contract == INSTANCE RelayContract WITH authorized <- Authorized,
                                        Numbers <- 1 .. MaxCalls

ImplementsContract == Contract!Spec

-----------------------------------------------------------------------------
(***************************************************************************)
(* What makes the safety properties inductive.                             *)
(***************************************************************************)
InHand == pc \notin {"ready", "closed"}
Undecided == {"gates", "decide"}
Uncommitted == {"gates", "decide", "deny", "approval", "waiting", "recheck",
                "verify", "commit"}

\* The barrier: the call holds the read lock exactly while it must, then no
\* reload is inside the write lock, and the call is on the engine's generation.
BarrierInv ==
    /\ rlock <=> \/ pc \in {"gates", "decide", "deny", "approval"}
                 \/ pc = "commit" /\ cur.via = "policy"
    /\ rlock => wlock \in {"free", "waiting"} /\ cur.gen = engineGen
    /\ wlock # "published" => surfaceGen = engineGen
    /\ pc \in {"gates", "decide", "deny", "approval", "waiting"}
          => cur.via = "policy"
    /\ pc \in {"recheck", "verify"} => cur.via = "human"
    /\ pc \in Uncommitted => cur.red = cur.gen
    /\ pc \in Uncommitted \ Undecided => cur.eval = cur.gen

\* The numbers: the request in hand has the newest number, it is authorized
\* from its commit on, and it is not yet relayed.
NumberInv ==
    /\ InHand => cur.req \in Requests /\ cur.n = calls /\ calls > 0
    /\ \A k \in DOMAIN auths : auths[k].n \in 1 .. calls
    /\ \A i \in DOMAIN relayed : relayed[i] \in 1 .. calls
    /\ pc \in Uncommitted => \A k \in DOMAIN auths : auths[k].n # calls
    /\ pc \in {"record", "encode"} => \E k \in DOMAIN auths : auths[k].n = calls
    /\ InHand => \A i \in DOMAIN relayed : relayed[i] # calls
    /\ contained => revoked

\* The ledger: nothing ordered is ahead of the engine, and while a published
\* policy waits for its record nothing ordered is on its generation.
LedgerInv ==
    \A i \in DOMAIN ledger :
        ledger[i].ordered => /\ ledger[i].gen <= engineGen
                             /\ wlock = "published" => ledger[i].gen < engineGen

\* Generations only grow, and a reload has one to publish.
GenerationInv ==
    /\ wlock \in {"waiting", "locked"} => engineGen < Len(loaded)
    /\ wlock \in {"free", "published"} => engineGen = Len(loaded)

IndInv == TypeOK /\ BarrierInv /\ NumberInv /\ LedgerInv /\ GenerationInv
          /\ OneGeneration /\ LedgerFollowsReloads

\* Whoever will have allowed the call in hand when it commits.
Approver == IF pc = "commit" THEN cur.via ELSE "human"

\* Which authorization the loop recorded first: the handshake slot records none.
Unrecorded == IF auths # <<>> /\ auths[1].slot = "handshake" THEN 1 ELSE 0

\* The recorded calls are the authorizations of the loop, in order, but for
\* the one on its way from the commit to the record.
HistoryInv ==
    /\ \A k \in DOMAIN auths : auths[k].gen \in Generations
    /\ \A k \in DOMAIN auths : k > 1 => auths[k].slot = "loop"
    /\ slot = "handshake" => /\ toolCalls = <<>> /\ Len(auths) <= 1
                             /\ auths # <<>> => auths[1].slot = "handshake"
                             /\ pc \in Uncommitted \cup {"ready"} => auths = <<>>
    /\ pc = "record" => /\ auths # <<>>
                        /\ auths[Len(auths)].tool = Tool
                        /\ auths[Len(auths)].slot = slot
    /\ Len(auths) = Unrecorded + Len(toolCalls)
                    + IF pc = "record" /\ slot = "loop" THEN 1 ELSE 0
    /\ \A i \in DOMAIN toolCalls :
          toolCalls[i] = [server |-> CfgServer, tool |-> auths[i + Unrecorded].tool]

\* What the gates found still holds when the call commits.
GateInv ==
    /\ \A k \in DOMAIN auths : Pinned(k).assertions => auths[k].nonce \in usedNonces
    /\ pc \in Uncommitted \ {"gates"} =>
          /\ Snapshot.pin \in {"", launched}
          /\ Snapshot.sessionMaxTools > 0
                => Len(toolCalls) < Snapshot.sessionMaxTools
          /\ Snapshot.assertions =>
                /\ cur.req.nonce \in usedNonces
                /\ \A k \in DOMAIN auths :
                      Pinned(k).assertions => auths[k].nonce # cur.req.nonce

\* What was decided still holds when the call commits: the wait changes
\* neither the taints nor the history the verdict was about.
VerdictInv ==
    /\ taints = TaintsBefore(Len(auths) + 1)
    /\ pc \in {"approval", "waiting", "recheck", "verify", "commit"} =>
          /\ StagesPass(Snapshot, Tool, Approver)
          /\ EgressPasses(Snapshot, taints, Tool, Approver)
          /\ HitsPass(Snapshot, ChainMatches(Snapshot, toolCalls, Tool), Approver)

\* What had ended when the operator answered has ended at the recheck too.
FreshInv ==
    /\ pc \in {"recheck", "verify"}
          => cur.stale \subseteq expired \cup IF revoked THEN {"session"} ELSE {}
    /\ pc = "verify" /\ "ownership" \in Snapshot.needs[Tool]
          => "ownership" \notin cur.stale
    /\ pc = "commit" /\ cur.via = "human"
          => cur.stale \cap (Snapshot.needs[Tool] \cup {"session"}) = {}

\* A unit is held from the reserve to the commit, for a delegation within its ceiling.
UnitInv ==
    /\ pc \notin {"verify", "commit"} => ~cur.reserved
    /\ pc \in {"verify", "commit"} =>
          /\ cur.reserved <=> Tool \in Snapshot.delegates
          /\ cur.reserved /\ Snapshot.maxSpawnDepth > 0
                => spawnDepth <= Snapshot.maxSpawnDepth

SessionInv ==
    /\ HistoryInv /\ GateInv /\ VerdictInv /\ FreshInv /\ UnitInv
    /\ PinnedPolicyPermits /\ EgressRespected /\ ChainsHonouredInLoop
    /\ SessionLimitRespected /\ NonceUsedOnce /\ GrantIsFresh /\ DelegationExact

\* A reload completes although an approval may be awaited for ever: the wait
\* does not hold the barrier.
ReloadCompletes == wlock # "free" ~> wlock = "free"
=============================================================================
