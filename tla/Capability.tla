----------------------------- MODULE Capability -----------------------------
(***************************************************************************)
(* Capability accounting (internal/capability and its adapter in            *)
(* proxy/tools_call.go): every call of a session is reduced to a receipt of *)
(* one hash chain that says which capabilities were acquired, and a call    *)
(* whose effect is not covered by the declared authority is sent to the     *)
(* approval gate.                                                           *)
(***************************************************************************)
EXTENDS Integers, Sequences, FiniteSets

CONSTANTS Steps(_),     \* observations the n-th call may give rise to
          MaxCalls,     \* calls of a behaviour
          MaxReloads,   \* reloads that toggle the accounting
          ForcedOn      \* the process runs with -capability-eval

None == "none"
Addresses == {"ip1", "ip2"}
Hosts == {"h1", "h2"}
Paths == {"in1", "in1x", "in2", "out", "lost"}     \* in1x is another spelling of in1
Malformed == "bad"
Observed == {None, Malformed} \cup Addresses \cup Hosts \cup Paths \cup {"bash", "tool"}

Capabilities == {"read_sandbox_mem", "oob_read", "oob_write", "heap_escape", "native_exec",
                 "host_exec", "net_egress"}

SignalKinds == {"poc", "build", "memory", "escape", "host_exec", "egress", "file_outside"}

\* What a step carries; the proxy never fills signals, effect, target and executable.
StepType ==
    [tool : {"shell", "net", "file", "build", "other"},
     args : SUBSET {"shell", "url", "netcmd", "build", "poc", "memory", "escape"},
     signals : SUBSET SignalKinds, argUrl : Observed, path : Observed, destIP : Observed, destHost : Observed,
     effect : {None, "host_exec", "net_egress", "file_access", "canary_access", "unknown"},
     target : Observed, executable : Observed, primitive : BOOLEAN,
     root : {None, "missing", "ok"}, network : SUBSET (Addresses \cup {Malformed}),
     host : Observed, executables : SUBSET {"bash", "tool", Malformed}]

ASSUME CapabilityConstants ==
    /\ \A n \in 1 .. MaxCalls : Steps(n) \subseteq StepType
    /\ MaxCalls \in Nat /\ MaxReloads \in Nat /\ ForcedOn \in BOOLEAN

VARIABLES evaluator,    \* ChainEvaluator, or Off
          lastHash,     \* Proxy.capLastHash
          stepID,       \* Proxy.capStepID
          artifacts,    \* receipts and pause receipts in the order they were sealed
          reloads

vars == <<evaluator, lastHash, stepID, artifacts, reloads>>

Genesis == 0
Off == [on |-> FALSE]

-----------------------------------------------------------------------------
(* Observation of a step.                                                   *)

\* A populated host that is neither a host name nor an address.
MalformedDestination(s) == s.destHost \notin {None} \cup Hosts \cup Addresses

HostExecSurface(s) == s.tool = "shell" \/ "shell" \in s.args

EgressSurface(s) ==
    \/ s.destHost # None \/ s.destIP # None
    \/ s.tool = "net" \/ s.args \cap {"url", "netcmd"} # {}

\* PathOutsideWorkspace: "yes", "no", or "error" if it cannot be decided.
PathOutside(p, root) ==
    IF p = None \/ root # "ok" \/ p = "lost" THEN "error"
    ELSE IF p = "out" THEN "yes" ELSE "no"

CanonicalPath(p) == IF p = "in1x" THEN "in1" ELSE p

fileSurfacePath(s) == IF s.path # None THEN s.path ELSE s.target

BoundaryKinds == {"host_exec", "egress", "file_outside"}

\* Signals that a step brings along are taken as they are.
ExtractSignals(s) ==
    IF s.signals # {} THEN s.signals ELSE
    {k \in SignalKinds :
       \/ k \in {"poc", "memory", "escape"} /\ k \in s.args
       \/ k = "build" /\ (s.tool = "build" \/ "build" \in s.args)
       \/ k = "host_exec" /\ (s.effect = "host_exec" \/ HostExecSurface(s))
       \/ k = "egress" /\ (s.effect = "net_egress" \/ EgressSurface(s))
       \/ k = "file_outside" /\ s.effect = "file_access" /\ PathOutside(fileSurfacePath(s), s.root) = "yes"}

\* An explicit effect, or the one its boundary signals stand for.
deriveEffectKind(signals) ==
    IF "host_exec" \in signals THEN "host_exec"
    ELSE IF "egress" \in signals THEN "net_egress" ELSE None

bindDerivedTarget(s, kind) ==
    LET exe == IF s.tool = "shell" THEN "bash" ELSE None
        dest == CHOOSE d \in {s.target, s.destIP, s.destHost, s.argUrl} :
                   IF s.target # None THEN d = s.target
                   ELSE IF s.destIP # None THEN d = s.destIP
                   ELSE IF s.destHost # None THEN d = s.destHost ELSE d = s.argUrl
    IN  IF kind = "host_exec" THEN [s EXCEPT !.effect = kind, !.executable = exe, !.target = exe]
        ELSE [s EXCEPT !.effect = kind, !.target = dest]

-----------------------------------------------------------------------------
(* Attribution: is the effect covered by the declared authority?            *)

HostExecAttributable(s) ==
    CASE \/ s.target = None \/ s.executable = None \/ s.target # s.executable
         \/ s.destHost # None /\ s.destHost \notin Hosts -> "error"
      [] OTHER -> IF s.executables = {} \/ s.host = None THEN "out"
                  ELSE IF s.destHost = None THEN "error"
                  ELSE IF s.destHost = s.host /\ s.executable \in s.executables THEN "in" ELSE "out"

\* The raw target and both structured destinations must name the same place.
NetEgressAttributable(s) ==
    LET agrees == IF s.target \in Addresses
                  THEN s.destIP \in {None, s.target} /\ s.destHost \in {None, s.target}
                  ELSE s.target \in Hosts /\ s.destIP = None /\ s.destHost \in {None, s.target}
    IN  IF ~agrees THEN "error"
        ELSE IF s.target \in Addresses /\ s.target \in s.network
                /\ (s.destHost = None \/ s.destIP # None) THEN "in" ELSE "out"

FileAccessAttributable(s) ==
    LET raw == PathOutside(s.target, s.root)
        structured == PathOutside(s.path, s.root)
    IN  IF s.path = None THEN CASE raw = "error" -> "error" [] raw = "yes" -> "out" [] raw = "no" -> "in"
        ELSE IF raw = "error" \/ structured = "error" \/ raw # structured THEN "error"
        ELSE IF structured = "yes" THEN "out"
        ELSE IF CanonicalPath(s.target) = CanonicalPath(s.path) THEN "in" ELSE "error"

EffectAttributable(s) ==
    CASE MalformedDestination(s) \/ s.effect = "unknown" -> "error"
      [] ~MalformedDestination(s) /\ s.effect = "host_exec" -> HostExecAttributable(s)
      [] ~MalformedDestination(s) /\ s.effect = "net_egress" -> NetEgressAttributable(s)
      [] ~MalformedDestination(s) /\ s.effect = "file_access" -> FileAccessAttributable(s)
      [] ~MalformedDestination(s) /\ s.effect = "canary_access" -> "out"
      [] ~MalformedDestination(s) /\ s.effect = None -> "in"

ValidateAuthority(s) ==
    /\ s.root # None
    /\ Malformed \notin s.network /\ Malformed \notin s.executables
    /\ s.host \in {None} \cup Hosts

FaultyUntyped(s, signals) == FALSE      \* an untyped boundary falls through to allow

\* An observation without an effect must not cross a boundary unseen.
Untyped(s, signals) ==
    \/ signals \cap BoundaryKinds # {}
    \/ fileSurfacePath(s) # None /\ PathOutside(fileSurfacePath(s), s.root) # "no"

\* What Eval makes of a step: the covered step and its verdict.
Attribute(s) ==
    LET signals == ExtractSignals(s)
        kind == IF s.effect # None THEN s.effect ELSE deriveEffectKind(signals)
    IN  IF ~ValidateAuthority(s) THEN "error"
        ELSE IF s.effect # None THEN EffectAttributable(s)
        ELSE IF kind # None THEN EffectAttributable(bindDerivedTarget(s, kind))
        ELSE IF Untyped(s, signals) THEN "error" ELSE EffectAttributable(s)

FaultyConfirmedDelta(signals, attributable, held) ==    \* a paused effect is not accounted
    IF attributable THEN {c \in {"host_exec"} : "host_exec" \in signals} \ held ELSE {}

\* Boundary requests always count; runtime markers only without one.
confirmedDelta(signals, attributable, held) ==
    LET boundary == {c \in {"host_exec"} : "host_exec" \in signals}
                    \cup {c \in {"net_egress"} : "egress" \in signals}
        markers == IF attributable /\ signals \cap BoundaryKinds = {}
                   THEN {c \in {"oob_read", "oob_write"} : "memory" \in signals}
                        \cup {c \in {"heap_escape", "native_exec"} : "escape" \in signals}
                   ELSE {}
    IN  (boundary \cup markers) \ held

-----------------------------------------------------------------------------
(* The chain and the proxy.                                                 *)

NewChainEvaluator == [on |-> TRUE, lastStep |-> 0, lastHash |-> Genesis,
                      held |-> {"read_sandbox_mem"}, envelope |-> "HIGH"]

Init ==
    /\ evaluator \in {Off, NewChainEvaluator} /\ (ForcedOn => evaluator.on)
    /\ lastHash = Genesis /\ stepID = 0 /\ artifacts = <<>>
    /\ reloads = 0

\* The step follows the last one of the chain.
Follows(e, id, prior) ==
    /\ id > 0 /\ (e.lastStep # 0 => id > e.lastStep)
    /\ prior = IF e.lastStep = 0 THEN Genesis ELSE e.lastHash

\* A fresh token for each artifact stands for its hash.
NewHash == Len(artifacts) + 1

FaultyAdvanceAfterError(e, id, hash) == e

AdvanceAfterError(e, id, hash) ==
    IF e.lastStep # 0 /\ id <= e.lastStep THEN e
    ELSE [e EXCEPT !.lastStep = id, !.lastHash = hash]

Advance(e, id, hash, delta, attributable) ==
    [on |-> TRUE, lastStep |-> id, lastHash |-> hash, held |-> e.held \cup delta,
     envelope |-> IF attributable THEN e.envelope ELSE "BOUNDARY_CROSSING"]

\* A pause turns an allow into an approval and never weakens a deny.
GateDecision(policy, paused) ==
    IF paused /\ policy # "deny" THEN "require_approval" ELSE policy

\* One call: Eval and its receipt, or the pause receipt that takes its place.
Call(s, policy) ==
    /\ evaluator.on /\ Len(artifacts) < MaxCalls
    /\ LET id == stepID + 1
           verdict == IF Follows(evaluator, id, lastHash) THEN Attribute(s) ELSE "error"
           signals == ExtractSignals(s)
           delta == confirmedDelta(signals, verdict = "in", evaluator.held)
       IN  /\ stepID' = id
           /\ lastHash' = NewHash
           /\ artifacts' = Append(artifacts,
                 [step |-> s, id |-> id, prev |-> lastHash, chain |-> reloads,
                  decision |-> IF verdict = "in" THEN "ALLOW" ELSE "PAUSE",
                  delta |-> IF verdict = "error" THEN {} ELSE delta,
                  policy |-> policy, gate |-> GateDecision(policy, verdict # "in")])
           /\ evaluator' = IF verdict = "error" THEN AdvanceAfterError(evaluator, id, NewHash)
                           ELSE Advance(evaluator, id, NewHash, delta, verdict = "in")
    /\ UNCHANGED reloads

\* A reload that turns the accounting off drops the evaluator; turned on again it
\* starts a chain of its own.
Reload ==
    /\ reloads < MaxReloads /\ reloads' = reloads + 1
    /\ \E setting \in BOOLEAN :
          LET enabled == ForcedOn \/ setting
          IN  /\ evaluator' = IF enabled /\ ~evaluator.on THEN NewChainEvaluator
                              ELSE IF ~enabled THEN Off ELSE evaluator
              /\ lastHash' = IF enabled /\ ~evaluator.on THEN Genesis ELSE lastHash
    /\ UNCHANGED <<stepID, artifacts>>

Next == Reload \/ \E s \in Steps(Len(artifacts) + 1), policy \in {"allow", "deny"} : Call(s, policy)

Spec == Init /\ [][Next]_vars

-----------------------------------------------------------------------------
(* Properties.                                                              *)

TypeOK ==
    /\ evaluator.on \in BOOLEAN
    /\ evaluator.on => /\ evaluator.lastStep \in 0 .. MaxCalls /\ evaluator.lastHash \in 0 .. MaxCalls
                       /\ evaluator.held \subseteq Capabilities
                       /\ evaluator.envelope \in {"HIGH", "BOUNDARY_CROSSING"}
    /\ lastHash \in 0 .. MaxCalls /\ stepID = Len(artifacts)
    /\ \A i \in DOMAIN artifacts : artifacts[i].gate \in {"allow", "deny", "require_approval"}
    /\ reloads \in 0 .. MaxReloads

Artifacts == DOMAIN artifacts

\* The artifacts that belong to the chain of the evaluator now in place: those
\* sealed since the last one whose predecessor is Genesis.
LastGenesis ==
    LET g == {i \in Artifacts : artifacts[i].prev = Genesis}
    IN  IF g = {} \/ lastHash = Genesis THEN Len(artifacts) + 1 ELSE CHOOSE i \in g : \A j \in g : j <= i

\* What a step shows: what it brings along, else what its tool and arguments say.
ShowsShell(s) == IF s.signals = {} THEN HostExecSurface(s) ELSE "host_exec" \in s.signals
ShowsNetwork(s) == IF s.signals = {} THEN EgressSurface(s) ELSE "egress" \in s.signals

\* A step is judged by one effect: the one it states, else a shell, else the network,
\* else its path.  That effect is covered by what was declared: the executable is a
\* declared one on the declared host, every destination that is named is one declared
\* address, the path is inside the workspace.  What a step shows besides is not judged:
\* the network inside a declared shell, a shell in a step that states another effect.
Justified(s) ==
    LET runs(x) == x \in s.executables /\ s.host # None /\ s.destHost = s.host
        reaches == \E a \in Addresses \cap s.network :
                      /\ {s.target, s.destIP, s.destHost} \subseteq {None, a}
                      /\ a \in {s.target, s.destIP, s.argUrl}
        inside(p) == s.root = "ok" /\ p \notin {None, "out", "lost"}
        shell == s.effect = None /\ ShowsShell(s)
        network == s.effect = None /\ ~ShowsShell(s) /\ ShowsNetwork(s)
    IN  /\ s.root # None /\ s.effect \notin {"canary_access", "unknown"}
        /\ s.effect = "host_exec" => runs(s.executable) /\ s.target = s.executable
        /\ shell => s.tool = "shell" /\ runs("bash")
        /\ s.effect = "net_egress" => reaches /\ s.target # None
        /\ network => reaches
        /\ s.effect = "file_access" =>
              inside(s.target) /\ (s.path = None \/ CanonicalPath(s.path) = CanonicalPath(s.target))
        /\ s.effect = None /\ ~shell /\ ~network =>
              fileSurfacePath(s) = None \/ inside(fileSurfacePath(s))

\* A call that goes ahead without an approval is justified by what its step shows,
\* wherever it stands in the chain.  A call the policy denies stays denied.
AllowIsJustified ==
    \A i \in Artifacts :
       /\ artifacts[i].policy = "deny" => artifacts[i].gate = "deny"
       /\ artifacts[i].gate = "allow" => Justified(artifacts[i].step)

\* The proxy and the evaluator agree on the tip of the chain after every call,
\* also after one that failed: the next call continues the chain and is judged by
\* what it does, not refused because of its predecessor.
TipsAgree ==
    evaluator.on => /\ lastHash = (IF evaluator.lastStep = 0 THEN Genesis ELSE evaluator.lastHash)
                    /\ stepID >= evaluator.lastStep

\* The receipts alone say which capabilities the session holds.
HeldIsAccounted ==
    evaluator.on =>
       evaluator.held = {"read_sandbox_mem"} \cup UNION {artifacts[i].delta : i \in LastGenesis .. Len(artifacts)}

\* Each artifact continues the one before it or starts a chain after the
\* accounting was off, and no two continue the same one.
ChainIsLinear ==
    \A i \in Artifacts : artifacts[i].prev \in {Genesis, i - 1} /\ artifacts[i].id = i
       /\ (artifacts[i].prev = Genesis /\ i > 1 => artifacts[i].chain > artifacts[i - 1].chain)

\* Every request for a shell or the network that was not refused as invalid is held
\* from then on, whether it was let through or paused.
RequestsAreHeld ==
    evaluator.on =>
       \A i \in LastGenesis .. Len(artifacts) :
          Attribute(artifacts[i].step) # "error" =>
             /\ ShowsShell(artifacts[i].step) => "host_exec" \in evaluator.held
             /\ ShowsNetwork(artifacts[i].step) => "net_egress" \in evaluator.held

\* The receipts form one chain per evaluator, whose tip proxy and evaluator agree on.
ReceiptChainHolds == TypeOK /\ ChainIsLinear /\ TipsAgree

\* The receipts tell what the session holds, and whatever it asked for is held.
AccountHolds == HeldIsAccounted /\ RequestsAreHeld
=============================================================================
