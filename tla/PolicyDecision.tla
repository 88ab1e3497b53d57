--------------------------- MODULE PolicyDecision ---------------------------
(***************************************************************************)
(* What the policy engine and the session checks of the proxy decide about *)
(* one tools/call, as operators over a policy and the session state:       *)
(* Engine.Evaluate, Engine.EvaluateChain, evaluateEgressControls, the      *)
(* taint rules, the delegation ceiling and the identity pin.               *)
(*                                                                         *)
(* A policy is the part of policy.Policy the decisions read, resolved for  *)
(* the one server behind the proxy.  The arguments of a call are folded    *)
(* into its tool: two argument classes that a rule tells apart are two     *)
(* elements of Tools, and stages[t] lists what the argument rules, the     *)
(* identity rules, the time restrictions and approval_required return for  *)
(* tool t, in the order Evaluate consults them.                            *)
(***************************************************************************)
EXTENDS Naturals, Sequences

CONSTANTS
    Tools,      \* tools (with a class of arguments) a client may call
    Policies,   \* policies the policy file may hold
    Servers,    \* logical server names
    Credentials \* kinds of credentials whose validity ends with time

Actions == {"allow", "deny", "require_approval"}

\* A capability-ownership grant, a lineage grant, the verified actor context.
CredentialKinds == {"ownership", "lineage", "actor"}

PolicyFields(p) ==
    /\ p.defaultAction \in {"allow", "deny"}
    /\ p.serverAllowed \in BOOLEAN
    /\ p.known \subseteq Tools            \* tools the registry lists
    /\ p.allowed \subseteq p.known        \* and that are allowed: true
    /\ p.stages \in [Tools -> Seq(Actions \cup {"other"})]
    /\ p.needs \in [Tools -> SUBSET Credentials]
    /\ p.delegates \subseteq p.known
    /\ p.maxSpawnDepth \in Nat            \* 0 disables the ceiling
    /\ p.taints \in [Tools -> SUBSET STRING]
    /\ p.egress \in Seq([when : STRING, sinks : SUBSET Tools,
                         action : {"deny", "require_approval"}])
    /\ p.chains \in Seq([server : Servers \cup {"*"}, sources : SUBSET Tools,
                         sinks : SUBSET Tools, within : Nat,
                         action : Actions \cup {"other"}])
    /\ p.chainWindow \in Nat
    /\ p.sessionMaxTools \in Nat          \* 0 disables the limit
    /\ p.pin \in STRING                   \* "" without an attestation
    /\ p.capability \in BOOLEAN           \* settings.capability_accounting
    /\ p.assertions \in BOOLEAN           \* instruction_authority_continuity

ASSUME PolicyAssumption ==
    /\ Credentials \subseteq CredentialKinds
    /\ \A p \in Policies : PolicyFields(p)

-----------------------------------------------------------------------------
\* mergeEvalDecision folded over the stages: the first outcome that is neither
\* allow nor require_approval is a deny, whatever the other stages say.
MergeStages(st) ==
    IF \E i \in DOMAIN st : st[i] \notin {"allow", "require_approval"}
    THEN "deny"
    ELSE IF \E i \in DOMAIN st : st[i] = "require_approval"
    THEN "require_approval"
    ELSE "allow"

\* The stage that a credential with a validity interval adds to Evaluate.
CredentialStage(p, tool, expired) ==
    IF (p.needs[tool] \ {"ownership"}) \cap expired # {} THEN "deny" ELSE "allow"

Evaluate(p, tool, expired) ==
    IF \/ ~p.serverAllowed
       \/ tool \notin p.known /\ p.defaultAction = "deny"
       \/ tool \in p.known /\ tool \notin p.allowed
    THEN "deny"
    ELSE MergeStages(<<CredentialStage(p, tool, expired)>> \o p.stages[tool])

\* checkCapabilityOwnership: a protected tool needs a grant that is valid now.
OwnershipHolds(p, tool, expired) ==
    "ownership" \in p.needs[tool] => "ownership" \notin expired

\* evaluateEgressControls: the first control that matches decides.
EgressMatches(p, taints, tool) ==
    {i \in DOMAIN p.egress : p.egress[i].when \in taints
                             /\ tool \in p.egress[i].sinks}

EgressAction(p, taints, tool, decision) ==
    LET hits == EgressMatches(p, taints, tool)
    IN  IF hits = {} THEN decision
        ELSE p.egress[CHOOSE i \in hits : \A j \in hits : i <= j].action

-----------------------------------------------------------------------------
\* checkChain and EvaluateChain.  history is the sequence of recorded calls;
\* chain rule i looks at the calls that are left after every rule up to i has
\* cut the sequence to its own within_calls.
ChainWindow(p) == IF p.chainWindow = 0 THEN 10 ELSE p.chainWindow

\* Faulty variant: the rule ignores the last recorded call.
FaultyInChainWindow(p, history, i, k) ==
    /\ Len(history) - k < ChainWindow(p)
    /\ k < Len(history)

InChainWindow(p, history, i, k) ==
    /\ Len(history) - k < ChainWindow(p)
    /\ \A j \in 1 .. i :
          p.chains[j].within > 0 => Len(history) - k < p.chains[j].within

\* The window the policy reference documents: within_calls of the rule itself,
\* counted back from the call in hand over the ago calls since.
DocumentedWindow(p, i, ago) ==
    /\ ago < ChainWindow(p)
    /\ p.chains[i].within > 0 => ago < p.chains[i].within

SourceMatches(rule, call) ==
    /\ rule.server \in {"*", call.server}
    /\ call.tool \in rule.sources

ChainMatches(p, history, tool) ==
    {i \in DOMAIN p.chains :
        /\ tool \in p.chains[i].sinks
        /\ \E k \in DOMAIN history : /\ InChainWindow(p, history, i, k)
                                     /\ SourceMatches(p.chains[i], history[k])}

\* An action that is neither deny nor require_approval leaves the decision.
ChainAction(p, history, tool, decision) ==
    LET hits == ChainMatches(p, history, tool)
        first == p.chains[CHOOSE i \in hits : \A j \in hits : i <= j].action
    IN  IF hits # {} /\ first \in {"deny", "require_approval"} THEN first
        ELSE decision

-----------------------------------------------------------------------------
\* toolDelegates and the ceiling of checkDelegationCeiling.
OverCeiling(p, tool, depth) ==
    tool \in p.delegates /\ p.maxSpawnDepth > 0 /\ depth + 1 > p.maxSpawnDepth

\* identityEvidence: configured and not attested by the launched identity.
IdentityFails(p, launched) == p.pin # "" /\ p.pin # launched

\* evaluateRuntimeLimits, with the size and the age of the session as inputs.
LimitsExceeded(p, recorded, oversize) ==
    oversize \/ (p.sessionMaxTools > 0 /\ recorded >= p.sessionMaxTools)
=============================================================================
