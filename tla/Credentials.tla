---------------------------- MODULE Credentials ----------------------------
(***************************************************************************)
(* The credentials of one tools/call, read one after the other against a    *)
(* clock that moves between the readings: the verified actor context, the   *)
(* lineage of the actor, the rules for its arguments, client and time, and  *)
(* the ownership of the capability, some of them again after the wait for   *)
(* an approval, while the policy may be reloaded.                           *)
(***************************************************************************)
EXTENDS Lineage, Ownership, ArgumentRules

CONSTANTS
    Policies,     \* [lineage, ownership, requireActor, scopes, approval, rules, identities, times]
    Reloads,      \* those of them a reload may bring
    Envelopes(_), \* tool, arguments and lineage claims of the calls tried under a policy
    DayLength,    \* ticks of a day
    ClientID,     \* the configured client
    Contexts,     \* verified actor contexts the process may start with
    MaxTime, MaxCalls, MaxReloads

Off == [off |-> TRUE]
Enabled(x) == x # Off
Server == "s1"

ASSUME CredentialConstants ==
    /\ Reloads \subseteq Policies /\ Off \notin Policies
    /\ \A p \in Policies :
          /\ Enabled(p.ownership) => IsFiniteSet(p.ownership.caps)
          /\ Len(p.rules) \in Nat /\ DOMAIN p.rules = 1 .. Len(p.rules)
          /\ \A e \in Envelopes(p) : e.args \subseteq Arguments
    /\ \A c \in Contexts : Enabled(c) => c.until \in Int
    /\ {MaxTime, MaxCalls, MaxReloads} \subseteq Nat /\ DayLength \in Nat \ {0}

VARIABLES policy,      \* the policy in force
          verified,    \* Engine.verified, a context or Off
          clock, reloads,
          pc,          \* where the call is
          call,        \* its claims and what was found out about it
          committed    \* records of the authorized calls

vars == <<policy, verified, clock, reloads, pc, call, committed>>

-----------------------------------------------------------------------------
(* The verified actor context.                                              *)

\* Context.Check: well formed, sealed and not expired.
Check(c, now) == c.sealed /\ now < c.until

\* What DecodeFD hands over at process start: no context or a well-formed sealed one.
Decodable(c) == Enabled(c) => c.sealed

\* An expired context does not speak for the agent any more.
sessionIdentityAt(now) ==
    IF Enabled(verified) /\ Check(verified, now) THEN verified.agent ELSE ClientID

verifiedActorRequired(p) == p.requireActor \/ p.scopes # {}

evaluateVerifiedActor(p, now) ==
    verifiedActorRequired(p) =>
       Enabled(verified) /\ Check(verified, now) /\ p.scopes \subseteq verified.scopes

\* Policy validation, without which nothing is loaded.
PolicyValid(p) ==
    /\ Enabled(p.lineage) => RegistryValid(p.lineage)
    /\ Enabled(p.ownership) => OwnershipValid(p.ownership)

-----------------------------------------------------------------------------

NoCall == [env |-> Off, policy |-> Off, lineage |-> Off, stages |-> <<>>, decision |-> NoName, proof |-> Off, answered |-> -1]

Init ==
    /\ policy \in {p \in Policies : PolicyValid(p)}
    /\ verified \in {c \in Contexts : Decodable(c)}
    /\ clock = 0 /\ reloads = 0 /\ pc = "idle" /\ call = NoCall /\ committed = <<>>

\* A reload excludes calls but for the one that waits for an answer or was given
\* one: the lock is released before the wait and not taken again.
Reload(p) ==
    /\ pc \in {"idle", "wait"} \/ call.answered >= 0
    /\ reloads < MaxReloads /\ reloads' = reloads + 1
    /\ policy' = IF PolicyValid(p) THEN p ELSE policy
    /\ UNCHANGED <<verified, clock, pc, call, committed>>

Start(e) ==
    /\ pc = "idle" /\ Len(committed) < MaxCalls
    /\ call' = [NoCall EXCEPT !.env = e, !.policy = policy] /\ pc' = "actor"
    /\ UNCHANGED <<policy, verified, clock, reloads, committed>>

Denied == pc' = "idle" /\ call' = NoCall

Evaluate ==
    /\ pc = "actor"
    /\ IF evaluateVerifiedActor(call.policy, clock) THEN pc' = "lineage" /\ call' = call ELSE Denied
    /\ UNCHANGED <<policy, verified, clock, reloads, committed>>

Claim(now) == [actor |-> sessionIdentityAt(now), grant |-> call.env.grant, cap |-> call.env.cap,
               res |-> call.env.res, tool |-> call.env.tool, state |-> call.env.state,
               trajectory |-> call.env.trajectory]

\* Evaluated and evaluated again with a fresh clock and the policy of the call.
EvaluateLineage ==
    /\ pc \in {"lineage", "recheck_lineage"}
    /\ LET p == call.policy.lineage
           next == IF pc = "lineage" THEN "rules" ELSE "recheck_actor"
       IN  IF ~Enabled(p) THEN pc' = next /\ call' = call
           ELSE IF ~ValidateAt(p, Claim(clock), clock) THEN Denied
           ELSE /\ pc' = next
                /\ call' = [call EXCEPT !.lineage = [claim |-> Claim(clock), at |-> clock]]
    /\ UNCHANGED <<policy, verified, clock, reloads, committed>>

\* What the argument rules, the identity, the clock and approval_required say.
Stages(p, env, now) ==
    [i \in DOMAIN p.rules |-> evaluateRule(p.rules[i], env.args)]
    \o (IF p.identities # <<>> /\ ClientID # NoName THEN <<evaluateIdentity(p.identities, ClientID, Server, env.tool)>> ELSE <<>>)
    \o <<evaluateTimeRestriction(p.times, Server, env.tool, now \div DayLength, now % DayLength)>>
    \o (IF p.approval THEN <<"require_approval">> ELSE <<>>)

EvaluateRules ==
    /\ pc = "rules"
    /\ LET stages == Stages(call.policy, call.env, clock)
           decision == Merge(stages)
       IN  IF decision = "deny" THEN Denied
           ELSE pc' = "ownership" /\ call' = [call EXCEPT !.stages = stages, !.decision = decision]
    /\ UNCHANGED <<policy, verified, clock, reloads, committed>>

OwnershipRequest == [requester |-> ClientID, server |-> Server, tool |-> call.env.tool, value |-> call.env.res]

CheckOwnership ==
    /\ pc \in {"ownership", "recheck_ownership"}
    /\ \E signs \in BOOLEAN :
          LET p == call.policy.ownership
              status == IF Enabled(p) THEN checkCapabilityOwnership(p, OwnershipRequest, clock, signs)
                        ELSE "unprotected"
          IN  IF ~ProofHolds(status) THEN Denied
              ELSE /\ call' = [call EXCEPT !.proof = [status |-> status, at |-> clock]]
                   /\ pc' = IF pc = "recheck_ownership" THEN "recheck_lineage"
                            ELSE IF call.decision = "require_approval" THEN "wait" ELSE "commit"
    /\ UNCHANGED <<policy, verified, clock, reloads, committed>>

Approve ==
    /\ pc = "wait" /\ pc' = "recheck_ownership"
    /\ call' = [call EXCEPT !.answered = clock]
    /\ UNCHANGED <<policy, verified, clock, reloads, committed>>

Refuse ==
    /\ pc = "wait" /\ Denied
    /\ UNCHANGED <<policy, verified, clock, reloads, committed>>

FaultyRecheckActor ==
    /\ pc = "recheck_actor" /\ pc' = "commit" /\ call' = call
    /\ UNCHANGED <<policy, verified, clock, reloads, committed>>

RecheckActor ==
    /\ pc = "recheck_actor"
    /\ IF Enabled(verified) /\ verifiedActorRequired(call.policy) /\ ~Check(verified, clock)
       THEN Denied ELSE pc' = "commit" /\ call' = call
    /\ UNCHANGED <<policy, verified, clock, reloads, committed>>

CommitAuthorization ==
    /\ pc = "commit"
    /\ committed' = Append(committed, call)
    /\ Denied
    /\ UNCHANGED <<policy, verified, clock, reloads>>

Tick ==
    /\ clock < MaxTime /\ clock' = clock + 1
    /\ UNCHANGED <<policy, verified, reloads, pc, call, committed>>

Next ==
    \/ \E p \in Reloads : Reload(p)
    \/ \E e \in Envelopes(policy) : Start(e)
    \/ Evaluate \/ EvaluateLineage \/ EvaluateRules \/ CheckOwnership \/ Approve \/ Refuse \/ RecheckActor
    \/ CommitAuthorization \/ Tick

Spec == Init /\ [][Next]_vars

-----------------------------------------------------------------------------
(* Properties.                                                              *)

TypeOK ==
    /\ PolicyValid(policy)
    /\ clock \in 0 .. MaxTime /\ reloads \in 0 .. MaxReloads
    /\ pc \in {"idle", "actor", "lineage", "rules", "ownership", "wait", "recheck_ownership", "recheck_lineage",
               "recheck_actor", "commit"}
    /\ (pc = "idle") = (call = NoCall)
    /\ Len(committed) <= MaxCalls

Committed == {committed[i] : i \in DOMAIN committed}

\* Delegation never amplifies: whoever may use a capability by a grant that an agent
\* issued, that agent may use it at the same time by the parent of the grant.
NoAmplification ==
    LET r == policy.lineage
        may(actor, grant, cap, res) ==
           Delegated(r, [actor |-> actor, grant |-> grant, cap |-> cap, res |-> res], clock)
    IN  Enabled(r) =>
           \A g \in DOMAIN r.grants : r.grants[g].parent # NoName =>
              \A cap \in r.grants[g].caps, res \in r.grants[g].res :
                 may(r.grants[g].subject, g, cap, res) => may(r.grants[g].issuer, r.grants[g].parent, cap, res)

\* The grant and all that are above it, found by following the parents however far:
\* what every set has that has the grant and, with a grant, the parent of it.
Ancestors(r, grant) ==
    {g \in DOMAIN r.grants :
       \A S \in SUBSET DOMAIN r.grants :
          /\ grant \in S
          /\ \A x \in S : r.grants[x].parent \in DOMAIN r.grants => r.grants[x].parent \in S
          => g \in S}

\* A committed call under lineage: every grant above the one it names covers the call
\* at the time it was judged, the topmost comes from the human of the actor, and the
\* chain is no longer than the bound.
EveryAncestorCovers ==
    \A c \in Committed : Enabled(c.lineage) =>
       LET r == c.policy.lineage
           chain == Ancestors(r, c.env.grant)
           human == r.agents[c.lineage.claim.actor].human
       IN  /\ \A g \in chain : /\ inInterval(r.grants[g], c.lineage.at)
                               /\ c.env.cap \in r.grants[g].caps /\ c.env.res \in r.grants[g].res
                               /\ inInterval(r.agents[r.grants[g].subject], c.lineage.at)
                               /\ r.agents[r.grants[g].subject].human = human
           /\ \E g \in chain : r.grants[g].parent = NoName /\ r.grants[g].issuer = human
           /\ Cardinality(chain) <= MaxGrantDepth

\* A lineage is judged for the verified agent while its context holds, and for the
\* configured client only without one: an expired context authorizes no lineage.
LineageActorIsCurrent ==
    \A c \in Committed : Enabled(c.lineage) =>
       c.lineage.claim.actor = IF Enabled(verified) /\ verified.sealed /\ c.lineage.at < verified.until
                               THEN verified.agent ELSE ClientID

\* What authorizes an approved call was found out after the answer, for the verified
\* agent itself where the policy requires one.
ApprovedOnFreshCredentials ==
    \A c \in Committed : c.decision = "require_approval" =>
       /\ c.proof.at >= c.answered
       /\ Enabled(c.policy.lineage) => c.lineage.at >= c.answered
       /\ Enabled(c.policy.lineage) /\ verifiedActorRequired(c.policy) => c.lineage.claim.actor = verified.agent

\* Every stage counts, whatever the order: each lets a committed call pass, or asks
\* for an approval that was given.
NoStageIsSkipped ==
    \A c \in Committed : \A i \in DOMAIN c.stages :
       c.stages[i] = "allow" \/ (c.stages[i] = "require_approval" /\ c.answered >= 0)

\* A mandate covers all the names a server may take the value from: no argument of
\* the kind the rule is about, however its name is spelled, leaves the allowlist.
MandateCoversEveryAlias ==
    \A c \in Committed : \A i \in DOMAIN c.policy.rules :
       LET rule == c.policy.rules[i]
           about(family) == {a \in c.env.args : a.key \in Alias[family]}
           inside(family) == \A a \in about(family) : a.kind \in Shaped /\ a.text \in rule.patterns
       IN  CASE rule.type = "allow_recipient" -> inside("recipient")
             [] rule.type = "allow_destination" -> inside("destination")
             [] rule.type = "allow_path_slot" -> inside("effect")
             [] rule.type = "allow_resource_owner" -> inside("owner")
             [] rule.type = "allow_activation" -> inside("executable")
             [] rule.type = "deny_secret" -> about("secret") = {}
             [] OTHER -> TRUE

\* A call of a listed endpoint comes from its owner or under one and only one grant
\* of the owner that was in force when the proof was made, for a declared tool.
OwnershipIsProven ==
    \A c \in Committed :
       LET o == c.policy.ownership
       IN  Enabled(o) /\ Server \in DOMAIN o.owner =>
              /\ \E d \in o.caps : d.server = Server /\ d.tool = c.env.tool
              /\ \/ ClientID = o.owner[Server]
                 \/ Cardinality({g \in o.grants :
                       /\ g.owner = o.owner[Server] /\ g.delegate = ClientID
                       /\ g.server = Server /\ g.tool = c.env.tool
                       /\ c.proof.at >= g.from /\ c.proof.at < g.until
                       /\ g.scope = NoScope \/ c.env.res \in g.values}) = 1

\* The validation of the policy leaves no allowed tool the owner itself cannot use.
OwnerMayUseAllowed ==
    Enabled(policy.ownership) =>
       \A p \in policy.ownership.allowed : p[1] \in DOMAIN policy.ownership.owner =>
          ProofHolds(checkCapabilityOwnership(policy.ownership,
             [requester |-> policy.ownership.owner[p[1]], server |-> p[1], tool |-> p[2], value |-> NoScope], clock, TRUE))

\* All rules of the policy a call was judged by let it pass.
RulesAreApplied == NoStageIsSkipped /\ MandateCoversEveryAlias

\* Authority that was passed on never exceeds what was held above, up to the human.
LineageHolds == TypeOK /\ NoAmplification /\ EveryAncestorCovers /\ LineageActorIsCurrent

\* A listed endpoint is used by its owner or under a grant of its owner, and the owner
\* may use every tool of it that is allowed.
OwnershipHolds == OwnershipIsProven /\ OwnerMayUseAllowed
=============================================================================
