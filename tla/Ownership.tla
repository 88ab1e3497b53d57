------------------------------ MODULE Ownership ------------------------------
(***************************************************************************)
(* Capability ownership (internal/ownership, policy/capability_ownership.go *)
(* and proxy/capability_ownership.go): a call of a protected tool must come *)
(* from the owner of the endpoint or under exactly one grant of the owner.  *)
(* An ownership block c has                                                 *)
(*   c.owner   server |-> owner        c.allowed  <<server, tool>> pairs the *)
(*   c.caps    [server, tool, effect, scope]      policy allows              *)
(*   c.grants  [id, owner, delegate, server, tool, effect, scope, values,    *)
(*              from, until]                                                 *)
(***************************************************************************)
EXTENDS Integers, FiniteSets

NoScope == ""      \* also no effect and no value

Declared(c, server, tool) == {d \in c.caps : d.server = server /\ d.tool = tool}

\* Every allowed tool of a listed endpoint is declared.
Complete(c) == \A p \in c.allowed : p[1] \in DOMAIN c.owner => Declared(c, p[1], p[2]) # {}

GrantAgrees(c, g) ==
    /\ g.server \in DOMAIN c.owner /\ g.owner = c.owner[g.server]
    /\ \E d \in Declared(c, g.server, g.tool) :
          g.effect = d.effect /\ g.scope = d.scope /\ (d.scope # NoScope => g.values # {})
    /\ g.from < g.until

\* CapabilityOwnership.Validate, without which the policy is not loaded.
OwnershipValid(c) ==
    /\ \A d \in c.caps : d.server \in DOMAIN c.owner /\ d.effect # NoScope
                         /\ Cardinality(Declared(c, d.server, d.tool)) = 1
    /\ Complete(c)
    /\ \A g, h \in c.grants : g.id = h.id => g = h
    /\ \A g \in c.grants : GrantAgrees(c, g)

\* The grants that agree on everything but the time.
Matching(c, d, req) ==
    {g \in c.grants :
       /\ g.owner = c.owner[d.server] /\ g.delegate = req.requester
       /\ g.server = d.server /\ g.tool = d.tool /\ g.effect = d.effect /\ g.scope = d.scope
       /\ d.scope # NoScope => req.value \in g.values}

InWindow(g, now) == g.from <= now /\ now < g.until

FaultyOwnershipEvaluate(c, d, req, now) ==       \* the first of several grants is taken
    IF req.requester = c.owner[d.server] THEN "direct"
    ELSE IF {g \in Matching(c, d, req) : InWindow(g, now)} # {} THEN "matched" ELSE "missing"

\* Registry.Evaluate: the status of the proof.
OwnershipEvaluate(c, d, req, now) ==
    LET live == {g \in Matching(c, d, req) : InWindow(g, now)}
    IN  IF req.requester = c.owner[d.server] THEN "direct"
        ELSE IF Cardinality(live) = 1 THEN "matched"
        ELSE IF live # {} THEN "ambiguous"
        ELSE IF Matching(c, d, req) # {} THEN "expired" ELSE "missing"

\* The gate of the proxy: "unprotected", a valid status, or the reason of the
\* denial.  A proof that cannot be signed does not allow.
checkCapabilityOwnership(c, req, now, signs) ==
    IF req.server \notin DOMAIN c.owner THEN "unprotected"
    ELSE IF Declared(c, req.server, req.tool) = {} THEN "missing"
    ELSE LET status == OwnershipEvaluate(c, CHOOSE d \in Declared(c, req.server, req.tool) : TRUE, req, now)
         IN  IF status \in {"direct", "matched"} /\ ~signs THEN "mismatch" ELSE status

ProofHolds(status) == status \in {"unprotected", "direct", "matched"}
=============================================================================
