------------------------------- MODULE Lineage -------------------------------
(***************************************************************************)
(* Principal lineage (internal/lineage): which agent may use which          *)
(* capability on which resource, by a chain of grants that a human heads.   *)
(* A registry r has                                                         *)
(*   r.agents        name |-> [parent, human, from, until]                  *)
(*   r.grants        id |-> [issuer, subject, parent, caps, res, from, until]*)
(*   r.trajectories  id |-> [actor, grant, cap, tool, res, state]            *)
(* where names are unique (a second entry of a name is refused on loading)  *)
(* and the empty name is no parent.                                         *)
(***************************************************************************)
EXTENDS Integers, Sequences

CONSTANT MaxGrantDepth

NoName == ""

ASSUME GrantDepthPositive == MaxGrantDepth \in Nat \ {0}

validInterval(x) == x.from < x.until
inInterval(x, now) == x.from <= now /\ now < x.until

FaultyWalkToRoot(r, id) ==      \* one grant more than the bound
    LET up[i \in 1 .. MaxGrantDepth + 1] ==
           IF i = 1 THEN id
           ELSE IF up[i - 1] \in DOMAIN r.grants THEN r.grants[up[i - 1]].parent ELSE NoName
        roots == {i \in 1 .. MaxGrantDepth + 1 : up[i] \in DOMAIN r.grants /\ r.grants[up[i]].parent = NoName}
    IN  IF roots = {} THEN <<>>
        ELSE LET n == CHOOSE i \in roots : TRUE IN [i \in 1 .. n |-> up[n + 1 - i]]

\* The grants from the root to id, or <<>> if an ancestor is missing, there is a
\* cycle, or there are more than MaxGrantDepth of them.
walkToRoot(r, id) ==
    LET up[i \in 1 .. MaxGrantDepth] ==
           IF i = 1 THEN id
           ELSE IF up[i - 1] \in DOMAIN r.grants THEN r.grants[up[i - 1]].parent ELSE NoName
        roots == {i \in 1 .. MaxGrantDepth : up[i] \in DOMAIN r.grants /\ r.grants[up[i]].parent = NoName}
    IN  IF roots = {} THEN <<>>
        ELSE LET n == CHOOSE i \in roots : TRUE IN [i \in 1 .. n |-> up[n + 1 - i]]

\* Every agent reaches a root agent: the parents form no cycle.
AgentsAcyclic(agents) ==
    \A seen \in SUBSET DOMAIN agents : seen # {} => \E a \in seen : agents[a].parent \notin seen

AgentsValid(agents) ==
    /\ \A a \in DOMAIN agents :
          /\ a # NoName /\ agents[a].human # NoName /\ validInterval(agents[a])
          /\ agents[a].parent # a /\ agents[a].parent \in {NoName} \cup DOMAIN agents
    /\ AgentsAcyclic(agents)

\* A root grant comes from a human and names a root agent; any other comes from the
\* subject of its parent.
GrantValid(r, id) ==
    LET g == r.grants[id]
    IN  /\ id # NoName /\ g.issuer # NoName /\ g.subject \in DOMAIN r.agents
        /\ g.caps # {} /\ g.res # {} /\ validInterval(g) /\ g.parent # id
        /\ IF g.parent = NoName
           THEN /\ g.issuer \in {r.agents[a].human : a \in DOMAIN r.agents} \ DOMAIN r.agents
                /\ r.agents[g.subject].parent = NoName
           ELSE /\ g.parent \in DOMAIN r.grants /\ g.issuer \in DOMAIN r.agents
                /\ g.issuer = r.grants[g.parent].subject
        /\ walkToRoot(r, id) # <<>>

coveredByChain(r, chain, cap, res) ==
    \A i \in DOMAIN chain : cap \in r.grants[chain[i]].caps /\ res \subseteq r.grants[chain[i]].res

TrajectoryValid(r, tr) ==
    /\ tr.actor \in DOMAIN r.agents /\ tr.grant \in DOMAIN r.grants
    /\ r.grants[tr.grant].subject = tr.actor
    /\ tr.res # {} /\ tr.tool # NoName /\ tr.state # NoName
    /\ coveredByChain(r, walkToRoot(r, tr.grant), tr.cap, tr.res)

\* NewRegistry accepts the entries.
RegistryValid(r) ==
    /\ AgentsValid(r.agents)
    /\ \A id \in DOMAIN r.grants : GrantValid(r, id)
    /\ \A t \in DOMAIN r.trajectories : TrajectoryValid(r, r.trajectories[t])

-----------------------------------------------------------------------------

\* One grant of the chain, for an actor of the given human.
LinkHolds(r, chain, i, env, human, now) ==
    LET g == r.grants[chain[i]]
        subject == r.agents[g.subject]
        live(a) == a \in DOMAIN r.agents /\ inInterval(r.agents[a], now) /\ r.agents[a].human = human
    IN  /\ inInterval(g, now) /\ live(g.subject)
        /\ IF i = 1
           THEN g.issuer = human /\ g.issuer \notin DOMAIN r.agents /\ subject.parent = NoName
           ELSE LET p == r.grants[chain[i - 1]]
                IN  /\ g.issuer = p.subject /\ live(g.issuer) /\ subject.parent = g.issuer
                    /\ g.caps \subseteq p.caps /\ g.res \subseteq p.res
        /\ env.cap \in g.caps /\ env.res \in g.res

\* R1 and R2: a registered actor, and a chain of grants down to it.
Delegated(r, env, now) ==
    /\ env.actor \in DOMAIN r.agents /\ inInterval(r.agents[env.actor], now)
    /\ env.grant \in DOMAIN r.grants /\ r.grants[env.grant].subject = env.actor
    /\ LET chain == walkToRoot(r, env.grant)
       IN  chain # <<>> /\ \A i \in DOMAIN chain : LinkHolds(r, chain, i, env, r.agents[env.actor].human, now)

\* R3: the call is the one a registered trajectory pins.
OnTrajectory(r, env) ==
    /\ env.trajectory \in DOMAIN r.trajectories
    /\ LET tr == r.trajectories[env.trajectory]
       IN  /\ tr.actor = env.actor /\ tr.grant = env.grant /\ tr.cap = env.cap /\ tr.tool = env.tool
           /\ tr.state = env.state /\ env.res \in tr.res

ValidateAt(r, env, now) == Delegated(r, env, now) /\ OnTrajectory(r, env)
=============================================================================
