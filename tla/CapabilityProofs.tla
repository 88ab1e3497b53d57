-------------------------- MODULE CapabilityProofs --------------------------
(***************************************************************************)
(* Capability accounting for any number of calls, reloads and observations. *)
(* The proxy and the evaluator advance together, also over a call that      *)
(* fails, so that no step is ever refused for its place in the chain; then  *)
(* every verdict is what Attribute makes of the step alone, and the account *)
(* follows receipt by receipt.                                              *)
(***************************************************************************)
EXTENDS Capability, TLAPS

Verdicts == {"in", "out", "error"}

Running ==
    [on : {TRUE}, lastStep : Nat, lastHash : Nat, held : SUBSET Capabilities,
     envelope : {"HIGH", "BOUNDARY_CROSSING"}]

Evaluators == {Off} \cup Running

ArtifactType ==
    [step : StepType, id : Nat, prev : Nat, chain : Nat, decision : {"ALLOW", "PAUSE"},
     delta : SUBSET Capabilities, policy : {"allow", "deny"},
     gate : {"allow", "deny", "require_approval"}]

TypeInv ==
    /\ evaluator \in Evaluators
    /\ lastHash \in Nat /\ stepID \in Nat /\ reloads \in 0 .. MaxReloads
    /\ artifacts \in Seq(ArtifactType) /\ Len(artifacts) <= MaxCalls

\* Proxy and evaluator are at the same place: before the first call of a chain, or
\* at the last artifact.
TipInv ==
    /\ stepID = Len(artifacts) /\ lastHash \in {Genesis, Len(artifacts)}
    /\ evaluator.on =>
          \/ evaluator.lastStep = 0 /\ evaluator.lastHash = Genesis /\ lastHash = Genesis
          \/ evaluator.lastStep = Len(artifacts) /\ evaluator.lastHash = lastHash /\ lastHash = Len(artifacts)

\* An evaluator that starts a chain was made by a reload that came after the last artifact.
ChainInv ==
    /\ ChainIsLinear
    /\ \A i \in Artifacts : artifacts[i].chain <= reloads
    /\ evaluator.on /\ lastHash = Genesis /\ Len(artifacts) > 0 => artifacts[Len(artifacts)].chain < reloads

\* Artifact i starts the chain that the last artifact belongs to.
StartsChain(i) ==
    /\ i \in Artifacts /\ artifacts[i].prev = Genesis
    /\ \A j \in Artifacts : artifacts[j].prev = Genesis => j <= i

\* What the chain in place has acquired is held.
HeldInv ==
    /\ lastHash # Genesis => \E i \in Artifacts : StartsChain(i)
    /\ evaluator.on /\ lastHash = Genesis => evaluator.held = {"read_sandbox_mem"}
    /\ evaluator.on /\ lastHash # Genesis =>
          \A i \in Artifacts : StartsChain(i) =>
             /\ evaluator.held = {"read_sandbox_mem"} \cup UNION {artifacts[j].delta : j \in i .. Len(artifacts)}
             /\ \A j \in i .. Len(artifacts) :
                   Attribute(artifacts[j].step) # "error" =>
                      /\ ShowsShell(artifacts[j].step) => "host_exec" \in evaluator.held
                      /\ ShowsNetwork(artifacts[j].step) => "net_egress" \in evaluator.held

IndInv == TypeInv /\ TipInv /\ ChainInv /\ HeldInv /\ AllowIsJustified
-----------------------------------------------------------------------------
(***************************************************************************)
(* What the operators compute.                                             *)
(***************************************************************************)
LEMMA StepFields ==
    ASSUME NEW s \in StepType
    PROVE  /\ s.args \in SUBSET {"shell", "url", "netcmd", "build", "poc", "memory", "escape"}
           /\ s.effect \in {None, "host_exec", "net_egress", "file_access", "canary_access", "unknown"}
           /\ s.root \in {None, "missing", "ok"}
           /\ s.argUrl \in Observed /\ s.path \in Observed /\ s.destIP \in Observed
           /\ s.destHost \in Observed /\ s.target \in Observed /\ s.executable \in Observed
           /\ s.host \in Observed
  BY DEF StepType

\* The target of a derived network effect: the first destination that is there.
LEMMA DerivedDestination ==
    ASSUME NEW s \in StepType
    PROVE  LET b == bindDerivedTarget(s, "net_egress")
           IN  /\ b.effect = "net_egress"
               /\ b.target \in {s.target, s.destIP, s.destHost, s.argUrl}
               /\ s.target # None => b.target = s.target
               /\ b.network = s.network /\ b.destIP = s.destIP /\ b.destHost = s.destHost
  <1> DEFINE P(d) == IF s.target # None THEN d = s.target
                     ELSE IF s.destIP # None THEN d = s.destIP
                     ELSE IF s.destHost # None THEN d = s.destHost ELSE d = s.argUrl
             S == {s.target, s.destIP, s.destHost, s.argUrl}
             dest == CHOOSE d \in S : P(d)
  <1>1. \E d \in S : P(d)
    <2>1. CASE s.target # None  BY <2>1
    <2>2. CASE s.target = None /\ s.destIP # None  BY <2>2
    <2>3. CASE s.target = None /\ s.destIP = None /\ s.destHost # None  BY <2>3
    <2>4. CASE s.target = None /\ s.destIP = None /\ s.destHost = None  BY <2>4
    <2> QED  BY <2>1, <2>2, <2>3, <2>4
  <1> HIDE DEF P, S
  <1>2. dest \in S /\ P(dest)
    BY <1>1, Zenon
  <1> USE DEF P, S
  <1>3. bindDerivedTarget(s, "net_egress") = [s EXCEPT !.effect = "net_egress", !.target = dest]
    BY DEF bindDerivedTarget
  <1> HIDE DEF dest
  <1> QED
    BY <1>2, <1>3 DEF StepType

LEMMA DerivedExecutable ==
    ASSUME NEW s \in StepType
    PROVE  LET b == bindDerivedTarget(s, "host_exec")
           IN  /\ b.effect = "host_exec" /\ b.host = s.host /\ b.destHost = s.destHost
               /\ b.executables = s.executables /\ b.target = b.executable
               /\ b.executable = IF s.tool = "shell" THEN "bash" ELSE None
  BY DEF bindDerivedTarget, StepType

\* An attributable shell runs a declared executable on the declared host.
LEMMA ExecAttributed ==
    ASSUME NEW s, HostExecAttributable(s) = "in"
    PROVE  /\ s.destHost = s.host /\ s.host # None
           /\ s.executable \in s.executables /\ s.target = s.executable /\ s.executable # None
  BY DEF HostExecAttributable

\* An attributable request for the network goes to a declared address.
LEMMA NetAttributed ==
    ASSUME NEW s, NetEgressAttributable(s) = "in"
    PROVE  /\ s.target \in Addresses /\ s.target \in s.network
           /\ s.destHost = None \/ s.destIP # None
           /\ s.destIP \in {None, s.target} /\ s.destHost \in {None, s.target}
  BY DEF NetEgressAttributable

\* An attributable access to a file stays inside the workspace.
LEMMA FileAttributed ==
    ASSUME NEW s, FileAccessAttributable(s) = "in"
    PROVE  /\ PathOutside(s.target, s.root) = "no"
           /\ s.path = None \/ CanonicalPath(s.path) = CanonicalPath(s.target)
  <1>1. PathOutside(s.target, s.root) \in {"yes", "no", "error"}
    BY DEF PathOutside
  <1>2. PathOutside(s.path, s.root) \in {"yes", "no", "error"}
    BY DEF PathOutside
  <1> QED
    BY <1>1, <1>2, Zenon DEF FileAccessAttributable

LEMMA PathInside ==
    ASSUME NEW p, NEW root, PathOutside(p, root) = "no"
    PROVE  root = "ok" /\ p \notin {None, "out", "lost"}
  BY DEF PathOutside

\* Attribution of an explicit effect.
LEMMA EffectAttributed ==
    ASSUME NEW s, EffectAttributable(s) = "in"
    PROVE  /\ s.effect = "host_exec" => HostExecAttributable(s) = "in"
           /\ s.effect = "net_egress" => NetEgressAttributable(s) = "in"
           /\ s.effect = "file_access" => FileAccessAttributable(s) = "in"
           /\ s.effect \notin {"canary_access", "unknown"}
  <1>1. CASE MalformedDestination(s) \/ s.effect = "unknown"
    BY <1>1 DEF EffectAttributable, None
  <1>2. CASE ~MalformedDestination(s) /\ s.effect # "unknown"
    BY <1>2 DEF EffectAttributable, None
  <1> QED
    BY <1>1, <1>2

LEMMA AttributeIsVerdict ==
    ASSUME NEW s \in StepType PROVE Attribute(s) \in Verdicts
  <1>1. \A t : HostExecAttributable(t) \in Verdicts
    BY DEF HostExecAttributable, Verdicts
  <1>2. \A t : NetEgressAttributable(t) \in Verdicts
    BY DEF NetEgressAttributable, Verdicts
  <1>3. \A t : FileAccessAttributable(t) \in Verdicts
    <2> SUFFICES ASSUME NEW t PROVE FileAccessAttributable(t) \in Verdicts
      OBVIOUS
    <2>1. PathOutside(t.target, t.root) \in {"yes", "no", "error"}
      BY DEF PathOutside
    <2> QED
      BY <2>1 DEF FileAccessAttributable, Verdicts
  <1>4. \A t : t.effect \in {None, "host_exec", "net_egress", "file_access", "canary_access", "unknown"}
               => EffectAttributable(t) \in Verdicts
    <2> SUFFICES ASSUME NEW t,
                        t.effect \in {None, "host_exec", "net_egress", "file_access", "canary_access", "unknown"}
                 PROVE  EffectAttributable(t) \in Verdicts
      OBVIOUS
    <2>1. CASE MalformedDestination(t) \/ t.effect = "unknown"
      BY <2>1 DEF EffectAttributable, Verdicts
    <2>2. CASE ~MalformedDestination(t) /\ t.effect # "unknown"
      BY <2>2, <1>1, <1>2, <1>3 DEF EffectAttributable, Verdicts, None
    <2> QED
      BY <2>1, <2>2
  <1>5. deriveEffectKind(ExtractSignals(s)) \in {"host_exec", "net_egress", None}
    BY DEF deriveEffectKind
  <1>6. EffectAttributable(s) \in Verdicts
    BY <1>4, StepFields
  <1>7. EffectAttributable(bindDerivedTarget(s, "host_exec")) \in Verdicts
    BY <1>4, DerivedExecutable
  <1>8. EffectAttributable(bindDerivedTarget(s, "net_egress")) \in Verdicts
    BY <1>4, DerivedDestination
  <1> QED
    BY <1>5, <1>6, <1>7, <1>8 DEF Attribute, Verdicts

\* The signals show a shell or the network whenever the step does.
LEMMA SurfacesAreSignalled ==
    ASSUME NEW s \in StepType
    PROVE  /\ ShowsShell(s) => "host_exec" \in ExtractSignals(s)
           /\ ShowsNetwork(s) => "egress" \in ExtractSignals(s)
           /\ s.effect = None =>
                 /\ "host_exec" \in ExtractSignals(s) => ShowsShell(s)
                 /\ "egress" \in ExtractSignals(s) => ShowsNetwork(s)
  BY DEF ExtractSignals, ShowsShell, ShowsNetwork, SignalKinds, None

\* A verdict "in" is justified by what the step shows and what was declared.
LEMMA VerdictIsJustified ==
    ASSUME NEW s \in StepType, Attribute(s) = "in"
    PROVE  Justified(s)
  <1>0. ValidateAuthority(s) /\ s.root # None
    BY DEF Attribute, ValidateAuthority
  <1>1. CASE s.effect # None
    <2>1. EffectAttributable(s) = "in"
      BY <1>0, <1>1 DEF Attribute
    <2>2. /\ s.effect = "host_exec" =>
                /\ s.destHost = s.host /\ s.host # None
                /\ s.executable \in s.executables /\ s.target = s.executable
          /\ s.effect = "net_egress" =>
                /\ s.target \in Addresses /\ s.target \in s.network
                /\ s.destIP \in {None, s.target} /\ s.destHost \in {None, s.target}
          /\ s.effect \notin {"canary_access", "unknown"}
      BY <2>1, EffectAttributed, ExecAttributed, NetAttributed
    <2>3. s.effect = "file_access" =>
             /\ PathOutside(s.target, s.root) = "no"
             /\ s.path = None \/ CanonicalPath(s.path) = CanonicalPath(s.target)
      BY <2>1, EffectAttributed, FileAttributed
    <2>4. s.effect = "file_access" =>
             s.root = "ok" /\ s.target \notin {None, "out", "lost"}
      BY <2>3, PathInside
    <2>5. s.target \in Addresses => s.target # None
      BY DEF Addresses, None
    <2> QED
      BY <1>0, <1>1, <2>2, <2>3, <2>4, <2>5 DEF Justified
  <1>2. CASE s.effect = None /\ ShowsShell(s)
    <2> DEFINE b == bindDerivedTarget(s, "host_exec")
    <2>1. deriveEffectKind(ExtractSignals(s)) = "host_exec"
      BY <1>2, SurfacesAreSignalled DEF deriveEffectKind
    <2>2. EffectAttributable(b) = "in"
      BY <1>0, <1>2, <2>1 DEF Attribute, None
    <2>3. HostExecAttributable(b) = "in"
      BY <2>2, EffectAttributed, DerivedExecutable
    <2>4. s.destHost = s.host /\ s.host # None /\ s.tool = "shell" /\ "bash" \in s.executables
      BY <2>3, ExecAttributed, DerivedExecutable
    <2> QED
      BY <1>0, <1>2, <2>4 DEF Justified, None
  <1>3. CASE s.effect = None /\ ~ShowsShell(s) /\ ShowsNetwork(s)
    <2> DEFINE b == bindDerivedTarget(s, "net_egress")
    <2>1. deriveEffectKind(ExtractSignals(s)) = "net_egress"
      BY <1>3, SurfacesAreSignalled DEF deriveEffectKind
    <2>2. EffectAttributable(b) = "in"
      BY <1>0, <1>3, <2>1 DEF Attribute, None
    <2>3. NetEgressAttributable(b) = "in"
      BY <2>2, EffectAttributed, DerivedDestination
    <2>4. /\ b.target \in Addresses /\ b.target \in s.network
          /\ s.destHost = None \/ s.destIP # None
          /\ s.destIP \in {None, b.target} /\ s.destHost \in {None, b.target}
          /\ b.target \in {s.target, s.destIP, s.destHost, s.argUrl}
          /\ s.target \in {None, b.target}
      BY <2>3, NetAttributed, DerivedDestination
    <2>5. b.target # None
      BY <2>4 DEF Addresses, None
    <2> HIDE DEF b
    <2>6. b.target \in {s.target, s.destIP, s.argUrl}
      BY <2>4, <2>5
    <2> QED
      BY <1>0, <1>3, <2>4, <2>6 DEF Justified, None
  <1>4. CASE s.effect = None /\ ~ShowsShell(s) /\ ~ShowsNetwork(s)
    <2>1. deriveEffectKind(ExtractSignals(s)) = None
      BY <1>4, SurfacesAreSignalled DEF deriveEffectKind
    <2>2. ~Untyped(s, ExtractSignals(s))
      BY <1>0, <1>4, <2>1 DEF Attribute
    <2>3. fileSurfacePath(s) = None \/ PathOutside(fileSurfacePath(s), s.root) = "no"
      BY <2>2 DEF Untyped
    <2> HIDE DEF fileSurfacePath
    <2>4. fileSurfacePath(s) = None
          \/ (s.root = "ok" /\ fileSurfacePath(s) \notin {None, "out", "lost"})
      BY <2>3, PathInside
    <2> QED
      BY <1>0, <1>4, <2>4 DEF Justified, None
  <1> QED
    BY <1>1, <1>2, <1>3, <1>4
-----------------------------------------------------------------------------
(***************************************************************************)
(* The steps.                                                              *)
(***************************************************************************)
LEMMA RunningIsOn == ~Off.on /\ \A e \in Running : e.on
  <1>1. ~Off.on
    BY DEF Off
  <1>2. \A e \in Running : e.on = TRUE
    BY DEF Running
  <1> QED
    BY <1>1, <1>2

LEMMA ArtifactAt ==
    ASSUME TypeInv, NEW i \in 1 .. Len(artifacts) PROVE artifacts[i] \in ArtifactType
  BY DEF TypeInv

LEMMA InitInd == ASSUME Init PROVE IndInv
  <1>1. TypeInv
    <2>1. NewChainEvaluator \in Running
      BY DEF NewChainEvaluator, Running, Genesis, Capabilities
    <2>2. evaluator \in Evaluators
      BY <2>1 DEF Init, Evaluators
    <2> QED
      BY <2>2, CapabilityConstants DEF Init, TypeInv, Genesis
  <1>2. artifacts = <<>> /\ Len(artifacts) = 0 /\ Artifacts = {}
    BY DEF Init, Artifacts
  <1>3. TipInv
    BY <1>2 DEF Init, TipInv, Off, NewChainEvaluator, Genesis
  <1>4. ChainInv /\ AllowIsJustified
    BY <1>2 DEF ChainInv, ChainIsLinear, AllowIsJustified
  <1>5. HeldInv
    BY <1>2 DEF Init, HeldInv, Off, NewChainEvaluator
  <1> QED
    BY <1>1, <1>3, <1>4, <1>5 DEF IndInv

LEMMA ReloadInd == ASSUME IndInv, Reload PROVE IndInv'
  <1> PICK setting \in BOOLEAN :
         LET enabled == ForcedOn \/ setting
         IN  /\ evaluator' = IF enabled /\ ~evaluator.on THEN NewChainEvaluator
                             ELSE IF ~enabled THEN Off ELSE evaluator
             /\ lastHash' = IF enabled /\ ~evaluator.on THEN Genesis ELSE lastHash
    BY DEF Reload
  <1>1. UNCHANGED <<stepID, artifacts>> /\ reloads < MaxReloads /\ reloads' = reloads + 1
    BY DEF Reload
  <1>2. \/ evaluator' = NewChainEvaluator /\ lastHash' = Genesis
        \/ evaluator' = Off /\ lastHash' = lastHash
        \/ evaluator' = evaluator /\ lastHash' = lastHash
    OBVIOUS
  <1>3. /\ NewChainEvaluator \in Evaluators /\ Off \in Evaluators /\ ~Off.on
        /\ NewChainEvaluator.lastStep = 0 /\ NewChainEvaluator.lastHash = Genesis
        /\ NewChainEvaluator.held = {"read_sandbox_mem"}
    BY DEF NewChainEvaluator, Evaluators, Running, Off, Genesis, Capabilities
  <1>4. TypeInv'
    BY <1>1, <1>2, <1>3, CapabilityConstants DEF IndInv, TypeInv, Genesis
  <1>5. TipInv'
    BY <1>1, <1>2, <1>3 DEF IndInv, TipInv
  <1>6. Artifacts' = Artifacts /\ Len(artifacts) \in Nat /\ Artifacts = 1 .. Len(artifacts)
    BY <1>1 DEF Artifacts, IndInv, TypeInv
  <1>7. \A i \in Artifacts : artifacts[i].chain \in Nat /\ artifacts[i].chain <= reloads /\ reloads \in Nat
    <2> SUFFICES ASSUME NEW i \in Artifacts
                 PROVE  artifacts[i].chain \in Nat /\ artifacts[i].chain <= reloads /\ reloads \in Nat
      OBVIOUS
    <2>1. artifacts[i] \in ArtifactType
      BY <1>6, ArtifactAt DEF IndInv
    <2> QED
      BY <2>1, CapabilityConstants DEF IndInv, TypeInv, ChainInv, ArtifactType
  <1>8. ChainInv'
    BY <1>1, <1>6, <1>7 DEF IndInv, ChainInv, ChainIsLinear
  <1>9. AllowIsJustified'
    BY <1>1, <1>6 DEF IndInv, AllowIsJustified
  <1>10. \A i : StartsChain(i)' <=> StartsChain(i)
    BY <1>1, <1>6 DEF StartsChain
  <1>11. HeldInv'
    BY <1>1, <1>2, <1>3, <1>6, <1>10 DEF IndInv, HeldInv
  <1> QED
    BY <1>4, <1>5, <1>8, <1>9, <1>11 DEF IndInv

\* Proxy and evaluator agree, so that the verdict is about the step alone, and
\* failed or not the call takes both one artifact further.
LEMMA CallAppends ==
    ASSUME IndInv, NEW s \in StepType, NEW policy \in {"allow", "deny"}, Call(s, policy)
    PROVE  \E A \in ArtifactType :
              /\ artifacts' = Append(artifacts, A)
              /\ A.step = s /\ A.id = Len(artifacts) + 1 /\ A.prev = lastHash /\ A.chain = reloads
              /\ A.policy = policy /\ A.gate = GateDecision(policy, Attribute(s) # "in")
              /\ Attribute(s) # "error" =>
                    /\ ShowsShell(s) => "host_exec" \in evaluator.held \cup A.delta
                    /\ ShowsNetwork(s) => "net_egress" \in evaluator.held \cup A.delta
              /\ evaluator.on /\ evaluator' \in Evaluators /\ evaluator'.on
              /\ evaluator'.held = evaluator.held \cup A.delta
              /\ evaluator'.lastStep = Len(artifacts) + 1
              /\ evaluator'.lastHash = Len(artifacts) + 1
  <1> DEFINE v == Attribute(s)
             signals == ExtractSignals(s)
             d == confirmedDelta(signals, v = "in", evaluator.held)
             n == Len(artifacts)
             A == [step |-> s, id |-> n + 1, prev |-> lastHash, chain |-> reloads,
                   decision |-> IF v = "in" THEN "ALLOW" ELSE "PAUSE",
                   delta |-> IF v = "error" THEN {} ELSE d,
                   policy |-> policy, gate |-> GateDecision(policy, v # "in")]
  <1>1. /\ n \in Nat /\ stepID = n /\ evaluator.on /\ reloads \in Nat /\ lastHash \in Nat
        /\ evaluator \in Evaluators
    BY CapabilityConstants DEF IndInv, TypeInv, TipInv, Call
  <1>2. evaluator \in Running
    BY <1>1, RunningIsOn DEF Evaluators
  <1>3. Follows(evaluator, n + 1, lastHash) /\ (evaluator.lastStep # 0 => n + 1 > evaluator.lastStep)
    BY <1>1, <1>2 DEF IndInv, TipInv, Follows, Genesis, Running
  <1>4. v \in Verdicts
    BY AttributeIsVerdict
  <1>5. d \in SUBSET Capabilities
    BY DEF confirmedDelta, Capabilities
  <1>6. v # "error" => /\ ShowsShell(s) => "host_exec" \in evaluator.held \cup d
                       /\ ShowsNetwork(s) => "net_egress" \in evaluator.held \cup d
    BY SurfacesAreSignalled DEF confirmedDelta
  <1>7. GateDecision(policy, v # "in") \in {"allow", "deny", "require_approval"}
    BY DEF GateDecision
  <1>8. /\ artifacts' = Append(artifacts, A)
        /\ evaluator' = IF v = "error" THEN AdvanceAfterError(evaluator, n + 1, n + 1)
                        ELSE Advance(evaluator, n + 1, n + 1, d, v = "in")
    BY <1>1, <1>3 DEF Call, NewHash
  <1> HIDE DEF v, d, n
  <1>9. A \in ArtifactType
    BY <1>1, <1>5, <1>7 DEF ArtifactType
  <1>10. CASE v = "error"
    <2>1. evaluator' = [evaluator EXCEPT !.lastStep = n + 1, !.lastHash = n + 1]
      BY <1>1, <1>2, <1>3, <1>8, <1>10 DEF AdvanceAfterError, Running
    <2>2. /\ evaluator' \in Running
          /\ evaluator'.held = evaluator.held /\ evaluator'.lastStep = n + 1
          /\ evaluator'.lastHash = n + 1
      <3>1. n + 1 \in Nat
        BY <1>1
      <3> QED
        BY <1>2, <2>1, <3>1 DEF Running
    <2>3. A.delta = {}
      BY <1>10
    <2>4. evaluator' \in Evaluators /\ evaluator'.on
      BY <2>2, RunningIsOn DEF Evaluators
    <2> QED
      BY <1>1, <1>8, <1>9, <1>10, <2>2, <2>3, <2>4 DEF n, v
  <1>11. CASE v # "error"
    <2>1. evaluator' = [on |-> TRUE, lastStep |-> n + 1, lastHash |-> n + 1, held |-> evaluator.held \cup d,
                        envelope |-> IF v = "in" THEN evaluator.envelope ELSE "BOUNDARY_CROSSING"]
      BY <1>8, <1>11 DEF Advance
    <2>2. /\ evaluator' \in Running
          /\ evaluator'.held = evaluator.held \cup d /\ evaluator'.lastStep = n + 1
          /\ evaluator'.lastHash = n + 1
      BY <1>1, <1>2, <1>5, <2>1 DEF Running
    <2>3. A.delta = d
      BY <1>11
    <2>4. evaluator' \in Evaluators /\ evaluator'.on
      BY <2>2, RunningIsOn DEF Evaluators
    <2> QED
      BY <1>1, <1>6, <1>8, <1>9, <1>11, <2>2, <2>3, <2>4 DEF n, v
  <1> QED
    BY <1>10, <1>11
LEMMA CallInd ==
    ASSUME IndInv, NEW s \in StepType, NEW policy \in {"allow", "deny"}, Call(s, policy)
    PROVE  IndInv'
  <1> DEFINE n == Len(artifacts)
  <1>1. PICK A \in ArtifactType :
              /\ artifacts' = Append(artifacts, A)
              /\ A.step = s /\ A.id = n + 1 /\ A.prev = lastHash /\ A.chain = reloads
              /\ A.policy = policy /\ A.gate = GateDecision(policy, Attribute(s) # "in")
              /\ Attribute(s) # "error" =>
                    /\ ShowsShell(s) => "host_exec" \in evaluator.held \cup A.delta
                    /\ ShowsNetwork(s) => "net_egress" \in evaluator.held \cup A.delta
              /\ evaluator.on /\ evaluator' \in Evaluators /\ evaluator'.on
              /\ evaluator'.held = evaluator.held \cup A.delta
              /\ evaluator'.lastStep = n + 1 /\ evaluator'.lastHash = n + 1
    BY CallAppends
  <1>2. /\ n \in Nat /\ n < MaxCalls /\ lastHash' = n + 1 /\ reloads' = reloads /\ stepID' = n + 1
        /\ lastHash \in {Genesis, n} /\ reloads \in Nat
    BY CapabilityConstants DEF IndInv, TypeInv, TipInv, Call, NewHash
  <1>3. /\ artifacts' \in Seq(ArtifactType) /\ Len(artifacts') = n + 1
        /\ artifacts'[n + 1] = A /\ \A i \in 1 .. n : artifacts'[i] = artifacts[i]
    BY <1>1, <1>2 DEF IndInv, TypeInv
  <1>4. /\ Artifacts = 1 .. n /\ Artifacts' = 1 .. n + 1 /\ \A i \in Artifacts' : i \in Artifacts \/ i = n + 1
        /\ Artifacts \subseteq Artifacts' /\ n + 1 \in Artifacts' /\ n + 1 \notin Artifacts
    BY <1>2, <1>3 DEF Artifacts, IndInv, TypeInv
  <1> HIDE DEF n
  <1>5. TypeInv'
    BY <1>1, <1>2, <1>3, CapabilityConstants DEF IndInv, TypeInv
  <1>6. TipInv'
    BY <1>1, <1>2, <1>3 DEF TipInv
  <1>7. ChainInv'
    <2>1. \A i \in Artifacts : artifacts[i].chain \in Nat
      BY <1>4, ArtifactAt DEF IndInv, ArtifactType, n
    <2>2. \A i \in Artifacts' :
             artifacts'[i].prev \in {Genesis, i - 1} /\ artifacts'[i].id = i /\ artifacts'[i].chain <= reloads'
      BY <1>1, <1>2, <1>3, <1>4 DEF IndInv, ChainInv, ChainIsLinear
    <2>3. ASSUME NEW i \in Artifacts', artifacts'[i].prev = Genesis, i > 1
          PROVE  artifacts'[i].chain > artifacts'[i - 1].chain
      <3>1. CASE i \in Artifacts
        <4>1. i - 1 \in 1 .. n /\ i \in 1 .. n
          BY <1>2, <1>4, <2>3, <3>1
        <4> QED
          BY <1>3, <1>4, <2>3, <3>1, <4>1 DEF IndInv, ChainInv, ChainIsLinear
      <3>2. CASE i = n + 1
        <4>1. n \in Artifacts /\ n > 0 /\ artifacts'[i - 1] = artifacts[n]
          BY <1>2, <1>3, <1>4, <2>3, <3>2
        <4>2. lastHash = Genesis /\ artifacts'[i].chain = reloads
          BY <1>1, <1>3, <2>3, <3>2
        <4>3. artifacts[n].chain < reloads /\ artifacts[n].chain \in Nat
          BY <1>1, <2>1, <4>1, <4>2 DEF IndInv, ChainInv, n
        <4> QED
          BY <1>2, <4>1, <4>2, <4>3
      <3> QED
        BY <1>4, <3>1, <3>2
    <2>4. lastHash' # Genesis
      BY <1>2 DEF Genesis
    <2> QED
      BY <2>2, <2>3, <2>4 DEF ChainInv, ChainIsLinear
  <1>8. AllowIsJustified'
    <2> SUFFICES ASSUME NEW i \in Artifacts'
                 PROVE  /\ artifacts'[i].policy = "deny" => artifacts'[i].gate = "deny"
                        /\ artifacts'[i].gate = "allow" => Justified(artifacts'[i].step)
      BY DEF AllowIsJustified
    <2>1. CASE i \in Artifacts
      BY <1>3, <1>4, <2>1 DEF IndInv, AllowIsJustified
    <2>2. CASE i = n + 1
      <3>1. A.gate = "allow" => Attribute(s) = "in"
        BY <1>1 DEF GateDecision
      <3>2. A.policy = "deny" => A.gate = "deny"
        BY <1>1 DEF GateDecision
      <3> QED
        BY <1>1, <1>3, <2>2, <3>1, <3>2, VerdictIsJustified
    <2> QED
      BY <1>4, <2>1, <2>2
  <1>9. HeldInv'
    <2>0. lastHash' # Genesis /\ evaluator'.on
      BY <1>1, <1>2 DEF Genesis
    <2> DEFINE Kept(h, j) == Attribute(artifacts'[j].step) # "error" =>
                                /\ ShowsShell(artifacts'[j].step) => "host_exec" \in h
                                /\ ShowsNetwork(artifacts'[j].step) => "net_egress" \in h
    <2>1. Kept(evaluator.held \cup A.delta, n + 1)
      BY <1>1, <1>3
    <2>2. CASE lastHash = Genesis
      <3>1. evaluator.held = {"read_sandbox_mem"}
        BY <1>1, <2>2 DEF IndInv, HeldInv
      <3>2. artifacts'[n + 1].prev = Genesis /\ \A j \in Artifacts' : j <= n + 1
        BY <1>1, <1>2, <1>3, <1>4, <2>2
      <3>3. \A i : StartsChain(i)' <=> i = n + 1
        BY <1>2, <1>4, <3>2 DEF StartsChain
      <3>4. UNION {artifacts'[j].delta : j \in n + 1 .. Len(artifacts')} = A.delta
        <4>1. n + 1 .. Len(artifacts') = {n + 1}
          BY <1>2, <1>3
        <4>2. {artifacts'[j].delta : j \in {n + 1}} = {A.delta}
          BY <1>3
        <4> QED
          BY <4>1, <4>2
      <3>5. \A j \in n + 1 .. Len(artifacts') : j = n + 1
        BY <1>2, <1>3
      <3>6. evaluator'.held = {"read_sandbox_mem"}
               \cup UNION {artifacts'[j].delta : j \in n + 1 .. Len(artifacts')}
        BY <1>1, <3>1, <3>4
      <3>7. \A j \in n + 1 .. Len(artifacts') : Kept(evaluator'.held, j)
        BY <1>1, <2>1, <3>5
      <3> HIDE DEF Kept
      <3>8. \A i \in Artifacts' : StartsChain(i)' =>
               /\ evaluator'.held = {"read_sandbox_mem"}
                     \cup UNION {artifacts'[j].delta : j \in i .. Len(artifacts')}
               /\ \A j \in i .. Len(artifacts') : Kept(evaluator'.held, j)
        BY <3>3, <3>6, <3>7
      <3> QED
        BY <1>4, <2>0, <3>3, <3>8 DEF HeldInv, Kept
    <2>3. CASE lastHash # Genesis
      <3>1. \A i \in Artifacts' : StartsChain(i)' => i \in Artifacts /\ StartsChain(i)
        BY <1>1, <1>3, <1>4, <2>3 DEF StartsChain
      <3>2. \E i \in Artifacts' : StartsChain(i)'
        <4>1. PICK i \in Artifacts : StartsChain(i)
          BY <2>3 DEF IndInv, HeldInv
        <4>2. StartsChain(i)'
          BY <1>1, <1>3, <1>4, <2>3, <4>1 DEF StartsChain
        <4> QED
          BY <1>4, <4>2
      <3>3. ASSUME NEW i \in Artifacts', StartsChain(i)'
            PROVE  /\ evaluator'.held = {"read_sandbox_mem"}
                         \cup UNION {artifacts'[j].delta : j \in i .. Len(artifacts')}
                   /\ \A j \in i .. Len(artifacts') : Kept(evaluator'.held, j)
        <4>1. i \in Artifacts /\ StartsChain(i) /\ i \in 1 .. n
          BY <1>4, <3>1, <3>3
        <4>2. /\ evaluator.held = {"read_sandbox_mem"} \cup UNION {artifacts[j].delta : j \in i .. n}
              /\ \A j \in i .. n : Attribute(artifacts[j].step) # "error" =>
                    /\ ShowsShell(artifacts[j].step) => "host_exec" \in evaluator.held
                    /\ ShowsNetwork(artifacts[j].step) => "net_egress" \in evaluator.held
          BY <1>1, <2>3, <4>1 DEF IndInv, HeldInv, n
        <4>3. i .. Len(artifacts') = i .. n \cup {n + 1} /\ \A j \in i .. n : artifacts'[j] = artifacts[j]
          BY <1>2, <1>3, <4>1
        <4> DEFINE X == {artifacts[j].delta : j \in i .. n}
                   Y == {artifacts'[j].delta : j \in i .. Len(artifacts')}
        <4>4. Y = X \cup {A.delta}
          BY <1>3, <4>3
        <4>5. \A j \in i .. Len(artifacts') : Kept(evaluator'.held, j)
          BY <1>1, <2>1, <4>2, <4>3
        <4>6. evaluator.held = {"read_sandbox_mem"} \cup UNION X
          BY <4>2
        <4> HIDE DEF X, Y
        <4>7. evaluator'.held = {"read_sandbox_mem"} \cup UNION Y
          <5>1. UNION Y = (UNION X) \cup A.delta
            BY <4>4
          <5>2. evaluator'.held = ({"read_sandbox_mem"} \cup UNION X) \cup A.delta
            BY <1>1, <4>6
          <5> QED
            BY <5>1, <5>2
        <4> USE DEF X, Y
        <4> QED
          BY <4>5, <4>7
      <3> HIDE DEF Kept
      <3>4. \A i \in Artifacts' : StartsChain(i)' =>
               /\ evaluator'.held = {"read_sandbox_mem"}
                     \cup UNION {artifacts'[j].delta : j \in i .. Len(artifacts')}
               /\ \A j \in i .. Len(artifacts') : Kept(evaluator'.held, j)
        BY <3>3
      <3> QED
        BY <2>0, <3>2, <3>4 DEF HeldInv, Kept
    <2> QED
      BY <2>2, <2>3
  <1> QED
    BY <1>5, <1>6, <1>7, <1>8, <1>9 DEF IndInv

\* The inductive invariant holds of every behaviour of the accounting.
THEOREM AccountingInd == Spec => []IndInv
  <1>1. Init => IndInv
    BY InitInd
  <1>2. IndInv /\ [Next]_vars => IndInv'
    <2> SUFFICES ASSUME IndInv, [Next]_vars PROVE IndInv'
      OBVIOUS
    <2>1. CASE Reload
      BY <2>1, ReloadInd
    <2>2. ASSUME NEW s \in Steps(Len(artifacts) + 1), NEW policy \in {"allow", "deny"}, Call(s, policy)
          PROVE  IndInv'
      <3>1. Len(artifacts) + 1 \in 1 .. MaxCalls
        BY <2>2, CapabilityConstants DEF IndInv, TypeInv, Call
      <3>2. s \in StepType
        BY <2>2, <3>1, CapabilityConstants
      <3> QED
        BY <2>2, <3>2, CallInd
    <2>3. CASE UNCHANGED vars
      <3>1. Artifacts' = Artifacts /\ \A i : StartsChain(i)' <=> StartsChain(i)
        BY <2>3 DEF vars, Artifacts, StartsChain
      <3> QED
        BY <2>3, <3>1 DEF vars, IndInv, TypeInv, TipInv, ChainInv, ChainIsLinear, HeldInv, AllowIsJustified
    <2> QED
      BY <2>1, <2>2, <2>3 DEF Next
  <1> QED
    BY <1>1, <1>2, PTL DEF Spec

\* The artifact that LastGenesis finds is the one that starts the chain.
LEMMA LastGenesisStarts ==
    ASSUME IndInv, lastHash # Genesis
    PROVE  LastGenesis \in Artifacts /\ StartsChain(LastGenesis)
  <1> DEFINE g == {i \in Artifacts : artifacts[i].prev = Genesis}
  <1>1. PICK i \in Artifacts : StartsChain(i)
    BY DEF IndInv, HeldInv
  <1>2. i \in g /\ \A j \in g : j <= i
    BY <1>1 DEF StartsChain
  <1>3. LastGenesis = CHOOSE k \in g : \A j \in g : j <= k
    BY <1>2 DEF LastGenesis
  <1> HIDE DEF g
  <1>4. LastGenesis \in g /\ \A j \in g : j <= LastGenesis
    BY <1>2, <1>3, Zenon
  <1> QED
    BY <1>4 DEF g, StartsChain

\* Every receipt continues the one before it or starts a chain of its own after a
\* reload, and proxy and evaluator agree on the tip after every call, failed or not.
THEOREM ReceiptsFormChains == Spec => []ReceiptChainHolds
  <1>1. IndInv => ReceiptChainHolds
    <2> SUFFICES ASSUME IndInv PROVE ReceiptChainHolds
      OBVIOUS
    <2>1. Len(artifacts) \in Nat /\ Len(artifacts) <= MaxCalls /\ MaxCalls \in Nat /\ Artifacts = 1 .. Len(artifacts)
      BY CapabilityConstants DEF IndInv, TypeInv, Artifacts
    <2>2. evaluator = Off \/ evaluator \in Running
      BY DEF IndInv, TypeInv, Evaluators
    <2>3. evaluator.on => evaluator \in Running
      BY <2>2, RunningIsOn
    <2>4. evaluator.on \in BOOLEAN
      <3>1. Off.on = FALSE /\ \A e \in Running : e.on = TRUE
        BY DEF Off, Running
      <3> QED
        BY <2>2, <3>1
    <2>5. \A i \in Artifacts : artifacts[i].gate \in {"allow", "deny", "require_approval"}
      BY <2>1, ArtifactAt DEF IndInv, ArtifactType
    <2>6. evaluator.on => /\ evaluator.lastStep \in 0 .. MaxCalls /\ evaluator.lastHash \in 0 .. MaxCalls
                          /\ evaluator.held \subseteq Capabilities
                          /\ evaluator.envelope \in {"HIGH", "BOUNDARY_CROSSING"}
      BY <2>1, <2>3 DEF IndInv, TipInv, Running, Genesis
    <2>7. TypeOK
      BY <2>1, <2>4, <2>5, <2>6 DEF IndInv, TypeInv, TipInv, TypeOK, Genesis, Artifacts
    <2>8. TipsAgree
      BY <2>1, <2>3 DEF IndInv, TipInv, TipsAgree, Genesis
    <2> QED
      BY <2>7, <2>8 DEF IndInv, ChainInv, ReceiptChainHolds
  <1> QED
    BY <1>1, AccountingInd, PTL

\* The receipts of the chain in place say exactly what the session holds, and every
\* shell or network request it made is held, whether it was let through or paused.
THEOREM AccountIsComplete == Spec => []AccountHolds
  <1>1. IndInv => AccountHolds
    <2> SUFFICES ASSUME IndInv, evaluator.on
                 PROVE  /\ evaluator.held = {"read_sandbox_mem"}
                              \cup UNION {artifacts[i].delta : i \in LastGenesis .. Len(artifacts)}
                        /\ \A i \in LastGenesis .. Len(artifacts) :
                              Attribute(artifacts[i].step) # "error" =>
                                 /\ ShowsShell(artifacts[i].step) => "host_exec" \in evaluator.held
                                 /\ ShowsNetwork(artifacts[i].step) => "net_egress" \in evaluator.held
      BY DEF AccountHolds, HeldIsAccounted, RequestsAreHeld
    <2>1. CASE lastHash = Genesis
      <3>1. LastGenesis = Len(artifacts) + 1 /\ Len(artifacts) \in Nat
        BY <2>1 DEF LastGenesis, IndInv, TypeInv
      <3>2. LastGenesis .. Len(artifacts) = {}
        BY <3>1
      <3>3. UNION {artifacts[i].delta : i \in {}} = {}
        OBVIOUS
      <3> QED
        BY <2>1, <3>2, <3>3 DEF IndInv, HeldInv
    <2>2. CASE lastHash # Genesis
      BY <2>2, LastGenesisStarts DEF IndInv, HeldInv
    <2> QED
      BY <2>1, <2>2
  <1> QED
    BY <1>1, AccountingInd, PTL

\* A call that goes ahead without an approval is covered by the declared authority,
\* for every observation a step may carry and at every place of a chain.
THEOREM AllowsAreJustified == Spec => []AllowIsJustified
  <1>1. IndInv => AllowIsJustified
    BY DEF IndInv
  <1> QED
    BY <1>1, AccountingInd, PTL
=============================================================================
