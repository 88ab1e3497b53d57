-------------------------- MODULE CredentialProofs --------------------------
(***************************************************************************)
(* Proofs about what authorizes a call: the credentials it is judged by, for *)
(* any policies, calls and clocks, and the authority of the instruction it   *)
(* carries out, for any transformations and any edits of what is stored.     *)
(***************************************************************************)
EXTENDS Credentials, InstructionAuthority, FiniteSetTheorems, SequenceTheorems, WellFoundedInduction, TLAPS

\* A set of naturals that is not empty has a least element.
LEMMA LeastExists ==
    ASSUME NEW S \in SUBSET Nat, S # {}
    PROVE  \E i \in S : \A j \in S : i <= j
  <1>1. PICK i \in S : \A j \in S : ~(<<j, i>> \in OpToRel(<, Nat))
    BY WFMin, NatLessThanWellFounded
  <1>2. \A j \in S : ~(j < i)
    BY <1>1 DEF OpToRel
  <1> QED
    BY <1>2

\* Induction over the naturals, for a set.
LEMMA NatSetInduction ==
    ASSUME NEW S, 0 \in S, \A n \in Nat : n \in S => n + 1 \in S
    PROVE  Nat \subseteq S
  <1> SUFFICES ASSUME Nat \ S # {} PROVE FALSE
    OBVIOUS
  <1>1. PICK i \in Nat \ S : \A j \in Nat \ S : i <= j
    BY LeastExists
  <1>2. i # 0 /\ i - 1 \in Nat /\ i - 1 \in S
    BY <1>1
  <1> QED
    BY <1>1, <1>2

-----------------------------------------------------------------------------
(***************************************************************************)
(* The merge of the stages.                                                *)
(***************************************************************************)

\* The result of the first stages, as the recursion of Merge gives it.
IsMergeRun(f, stages, n) ==
    f = [i \in 0 .. n |-> IF i = 0 THEN "allow"
                          ELSE IF f[i - 1] = "deny" THEN "deny"
                          ELSE mergeEvalDecision(f[i - 1], stages[i])]

\* What IsMergeRun says of each position.
LEMMA MergeRunIs ==
    ASSUME NEW f, NEW stages, NEW n \in Nat, IsMergeRun(f, stages, n)
    PROVE  /\ DOMAIN f = 0 .. n /\ f[0] = "allow"
           /\ \A i \in 1 .. n : f[i] = IF f[i - 1] = "deny" THEN "deny"
                                       ELSE mergeEvalDecision(f[i - 1], stages[i])
  <1> DEFINE F(g) == [i \in 0 .. n |-> IF i = 0 THEN "allow"
                                       ELSE IF g[i - 1] = "deny" THEN "deny"
                                       ELSE mergeEvalDecision(g[i - 1], stages[i])]
  <1>1. f = F(f)
    BY DEF IsMergeRun
  <1>2. \A g : DOMAIN F(g) = 0 .. n /\ F(g)[0] = "allow"
    OBVIOUS
  <1>3. \A g : \A i \in 1 .. n : F(g)[i] = IF g[i - 1] = "deny" THEN "deny"
                                           ELSE mergeEvalDecision(g[i - 1], stages[i])
    OBVIOUS
  <1> HIDE DEF F
  <1>4. DOMAIN f = 0 .. n /\ f[0] = "allow"
    BY <1>1, <1>2
  <1>5. \A i \in 1 .. n : f[i] = IF f[i - 1] = "deny" THEN "deny"
                                 ELSE mergeEvalDecision(f[i - 1], stages[i])
    BY <1>1, <1>3
  <1> QED
    BY <1>4, <1>5

LEMMA MergeRunExists ==
    ASSUME NEW stages, NEW n \in Nat
    PROVE  \E f : IsMergeRun(f, stages, n)
  <1> DEFINE S == {k \in Nat : \E f : IsMergeRun(f, stages, k)}
  <1>1. 0 \in S
    <2> DEFINE f == [i \in 0 .. 0 |-> "allow"]
    <2>1. f = [i \in 0 .. 0 |-> IF i = 0 THEN "allow"
                                ELSE IF f[i - 1] = "deny" THEN "deny"
                                ELSE mergeEvalDecision(f[i - 1], stages[i])]
      OBVIOUS
    <2>2. IsMergeRun(f, stages, 0)
      BY <2>1 DEF IsMergeRun
    <2> QED
      BY <2>2
  <1>2. ASSUME NEW k \in Nat, k \in S PROVE k + 1 \in S
    <2>1. PICK f : IsMergeRun(f, stages, k)
      BY <1>2
    <2>2. /\ DOMAIN f = 0 .. k /\ f[0] = "allow"
          /\ \A i \in 1 .. k : f[i] = IF f[i - 1] = "deny" THEN "deny"
                                      ELSE mergeEvalDecision(f[i - 1], stages[i])
      BY <2>1, MergeRunIs
    <2> DEFINE last == IF f[k] = "deny" THEN "deny" ELSE mergeEvalDecision(f[k], stages[k + 1])
               g == [i \in 0 .. k + 1 |-> IF i = k + 1 THEN last ELSE f[i]]
    <2>3. \A i \in 0 .. k : g[i] = f[i]
      OBVIOUS
    <2>4. g[k + 1] = last
      OBVIOUS
    <2>5. \A i \in 0 .. k + 1 : g[i] = IF i = 0 THEN "allow"
                                       ELSE IF g[i - 1] = "deny" THEN "deny"
                                       ELSE mergeEvalDecision(g[i - 1], stages[i])
      <3> TAKE i \in 0 .. k + 1
      <3>1. CASE i = 0
        BY <2>2, <2>3, <3>1
      <3>2. CASE i \in 1 .. k
        <4>1. i - 1 \in 0 .. k
          BY <3>2
        <4> HIDE DEF g
        <4> QED
          BY <2>2, <2>3, <3>2, <4>1
      <3>3. CASE i = k + 1
        <4>1. g[i - 1] = f[k] /\ i # 0 /\ stages[i] = stages[k + 1]
          BY <2>3, <3>3
        <4> HIDE DEF g
        <4> QED
          BY <2>4, <3>3, <4>1
      <3> QED
        BY <3>1, <3>2, <3>3
    <2>6. IsMergeRun(g, stages, k + 1)
      <3>1. g = [i \in 0 .. k + 1 |-> g[i]]
        OBVIOUS
      <3> HIDE DEF g
      <3> QED
        BY <2>5, <3>1 DEF IsMergeRun
    <2> QED
      BY <2>6
  <1>3. Nat \subseteq S
    <2> HIDE DEF S
    <2> QED
      BY <1>1, <1>2, NatSetInduction
  <1> QED
    BY <1>3

\* A result that is not deny had no stage that denied, and every stage that asked
\* for an approval is heard.
LEMMA MergeHearsAll ==
    ASSUME NEW stages, Len(stages) \in Nat, Merge(stages) # "deny"
    PROVE  \A j \in 1 .. Len(stages) :
              stages[j] = "allow" \/ (stages[j] = "require_approval" /\ Merge(stages) = "require_approval")
  <1> DEFINE n == Len(stages)
             run == CHOOSE f : IsMergeRun(f, stages, n)
  <1>1. IsMergeRun(run, stages, n)
    BY MergeRunExists
  <1>2. Merge(stages) = run[n]
    BY DEF Merge, IsMergeRun
  <1>3. /\ run[0] = "allow"
        /\ \A i \in 1 .. n : run[i] = IF run[i - 1] = "deny" THEN "deny"
                                      ELSE mergeEvalDecision(run[i - 1], stages[i])
    BY <1>1, MergeRunIs
  <1> DEFINE S == {k \in Nat : k <= n /\ run[k] # "deny" =>
                      \A j \in 1 .. k : stages[j] = "allow" \/ (stages[j] = "require_approval" /\ run[k] = "require_approval")}
  <1> HIDE DEF run, n
  <1>4. 0 \in S
    OBVIOUS
  <1>5. ASSUME NEW k \in Nat, k \in S PROVE k + 1 \in S
    <2> SUFFICES ASSUME k + 1 <= n, run[k + 1] # "deny", NEW j \in 1 .. k + 1
                 PROVE  stages[j] = "allow" \/ (stages[j] = "require_approval" /\ run[k + 1] = "require_approval")
      OBVIOUS
    <2>0. n \in Nat
      BY DEF n
    <2>1. k + 1 \in 1 .. n /\ k + 1 - 1 = k
      BY <2>0
    <2>2. run[k + 1] = IF run[k] = "deny" THEN "deny" ELSE mergeEvalDecision(run[k], stages[k + 1])
      BY <1>3, <2>1
    <2>3. run[k] # "deny" /\ run[k + 1] = mergeEvalDecision(run[k], stages[k + 1])
      BY <2>2
    <2>4. \/ stages[k + 1] = "allow" /\ run[k + 1] = run[k]
          \/ stages[k + 1] = "require_approval" /\ run[k + 1] = "require_approval"
      BY <2>3 DEF mergeEvalDecision
    <2>5. k <= n
      BY <2>0
    <2>6. \A i \in 1 .. k : stages[i] = "allow" \/ (stages[i] = "require_approval" /\ run[k] = "require_approval")
      BY <1>5, <2>3, <2>5
    <2>7. CASE j = k + 1
      BY <2>4, <2>7
    <2>8. CASE j \in 1 .. k
      BY <2>4, <2>6, <2>8
    <2> QED
      BY <2>7, <2>8
  <1>6. Nat \subseteq S
    <2> HIDE DEF S
    <2> QED
      BY <1>4, <1>5, NatSetInduction
  <1>7. n \in S
    BY <1>6 DEF n
  <1> QED
    BY <1>2, <1>7 DEF n

-----------------------------------------------------------------------------
(***************************************************************************)
(* The argument rules.                                                     *)
(***************************************************************************)

\* What MandateCoversEveryAlias says of one rule.
MandateKept(rule, args) ==
    LET about(family) == {a \in args : a.key \in Alias[family]}
        inside(family) == \A a \in about(family) : a.kind \in Shaped /\ a.text \in rule.patterns
    IN  CASE rule.type = "allow_recipient" -> inside("recipient")
          [] rule.type = "allow_destination" -> inside("destination")
          [] rule.type = "allow_path_slot" -> inside("effect")
          [] rule.type = "allow_resource_owner" -> inside("owner")
          [] rule.type = "allow_activation" -> inside("executable")
          [] rule.type = "deny_secret" -> about("secret") = {}
          [] OTHER -> TRUE

\* A mandate is about every alias, and takes texts of its list only.
LEMMA MandateIsInside ==
    ASSUME NEW rule, NEW slots, Mandate(rule, slots), NEW a \in slots
    PROVE  a.kind \in Shaped /\ a.text \in rule.patterns
  BY DEF Mandate, NotBlank, matchesAnyPattern, recipientInAllowlist

\* The host of a destination keeps its text.
LEMMA HostIsInside ==
    ASSUME NEW list, NEW slots \in SUBSET Arguments, HostsIn(list, slots), NEW a \in slots
    PROVE  a.kind \in Shaped /\ a.text \in list
  <1>1. PICK h \in destinationHostname(a) : recipientInAllowlist(list, h)
    BY DEF HostsIn
  <1>2. a.kind \in Shaped /\ h = [a EXCEPT !.kind = IF a.kind = "cased" THEN "cased" ELSE "plain"]
    BY <1>1 DEF destinationHostname
  <1>3. a \in Arguments
    OBVIOUS
  <1>4. h.text = a.text
    BY <1>2, <1>3 DEF Arguments
  <1> QED
    BY <1>1, <1>2, <1>4 DEF recipientInAllowlist

LEMMA RuleKeepsMandate ==
    ASSUME NEW rule, NEW args \in SUBSET Arguments, evaluateRule(rule, args) # "deny"
    PROVE  MandateKept(rule, args)
  <1> DEFINE inside(family) == \A a \in Collect(args, family) : a.kind \in Shaped /\ a.text \in rule.patterns
  <1>0. rule.type # "require_approval_always" => Passes(rule, args)
    BY DEF evaluateRule
  <1>1. CASE rule.type = "allow_recipient"
    <2>1. Mandate(rule, Collect(args, "recipient"))
      BY <1>0, <1>1 DEF Passes, TextPasses
    <2>2. inside("recipient")
      BY <2>1, MandateIsInside
    <2> QED
      BY <1>1, <2>2 DEF MandateKept, Collect
  <1>2. CASE rule.type = "allow_destination"
    <2>1. HostsIn(rule.patterns, Collect(args, "destination"))
      BY <1>0, <1>2 DEF Passes, SlotPasses
    <2>2. Collect(args, "destination") \in SUBSET Arguments
      BY DEF Collect
    <2>3. inside("destination")
      BY <2>1, <2>2, HostIsInside
    <2> QED
      BY <1>2, <2>3 DEF MandateKept, Collect
  <1>3. CASE rule.type = "allow_path_slot"
    <2>1. Mandate(rule, Collect(args, "effect"))
      BY <1>0, <1>3 DEF Passes, PathPasses
    <2>2. inside("effect")
      BY <2>1, MandateIsInside
    <2> QED
      BY <1>3, <2>2 DEF MandateKept, Collect
  <1>4. CASE rule.type = "allow_resource_owner"
    <2>1. Mandate(rule, Collect(args, "owner"))
      BY <1>0, <1>4 DEF Passes, TextPasses
    <2>2. inside("owner")
      BY <2>1, MandateIsInside
    <2> QED
      BY <1>4, <2>2 DEF MandateKept, Collect
  <1>5. CASE rule.type = "allow_activation"
    <2>1. ExecutablesIn(rule.patterns, Collect(args, "executable"))
      BY <1>0, <1>5 DEF Passes, SlotPasses, Activation
    <2>2. inside("executable")
      BY <2>1 DEF ExecutablesIn, executableInAllowlist, Shaped
    <2> QED
      BY <1>5, <2>2 DEF MandateKept, Collect
  <1>6. CASE rule.type = "deny_secret"
    <2>1. Collect(args, "secret") = {}
      BY <1>0, <1>6 DEF Passes, SlotPasses
    <2> QED
      BY <1>6, <2>1 DEF MandateKept, Collect
  <1>7. CASE rule.type \notin {"allow_recipient", "allow_destination", "allow_path_slot", "allow_resource_owner",
                              "allow_activation", "deny_secret"}
    BY <1>7 DEF MandateKept
  <1> QED
    BY <1>1, <1>2, <1>3, <1>4, <1>5, <1>6, <1>7

\* The rules are the first stages.
LEMMA RulesAreStages ==
    ASSUME NEW p \in Policies, NEW env, NEW now
    PROVE  LET s == Stages(p, env, now)
           IN  /\ Len(s) \in Nat /\ DOMAIN s = 1 .. Len(s)
               /\ \A i \in DOMAIN p.rules : i \in 1 .. Len(s) /\ s[i] = evaluateRule(p.rules[i], env.args)
  <1> DEFINE rules == [i \in DOMAIN p.rules |-> evaluateRule(p.rules[i], env.args)]
             identity == IF p.identities # <<>> /\ ClientID # NoName
                         THEN <<evaluateIdentity(p.identities, ClientID, Server, env.tool)>> ELSE <<>>
             time0 == evaluateTimeRestriction(p.times, Server, env.tool, now \div DayLength, now % DayLength)
             approval == IF p.approval THEN <<"require_approval">> ELSE <<>>
             X == {"allow", "deny", "require_approval", time0}
  <1>0. Len(p.rules) \in Nat /\ DOMAIN p.rules = 1 .. Len(p.rules)
    BY CredentialConstants
  <1>1. rules \in Seq(X) /\ DOMAIN rules = DOMAIN p.rules
    <2>1. \A i \in DOMAIN p.rules : evaluateRule(p.rules[i], env.args) \in X
      BY DEF evaluateRule
    <2> HIDE DEF X
    <2> QED
      BY <1>0, <2>1
  <1>2. identity \in Seq(X)
    <2>1. evaluateIdentity(p.identities, ClientID, Server, env.tool) \in X
      BY DEF evaluateIdentity
    <2> HIDE DEF X
    <2>2. \A x \in X : <<x>> \in Seq(X)
      OBVIOUS
    <2>3. <<>> \in Seq(X)
      OBVIOUS
    <2> QED
      BY <2>1, <2>2, <2>3, Zenon
  <1>3. <<time0>> \in Seq(X)
    <2>1. time0 \in X
      OBVIOUS
    <2> HIDE DEF X, time0
    <2> QED
      BY <2>1
  <1>4. approval \in Seq(X)
    <2>1. "require_approval" \in X
      OBVIOUS
    <2> HIDE DEF X
    <2> QED
      BY <2>1
  <1>5. Stages(p, env, now) = rules \o identity \o <<time0>> \o approval
    BY DEF Stages
  <1>6. \A i \in DOMAIN p.rules : rules[i] = evaluateRule(p.rules[i], env.args)
    OBVIOUS
  <1> HIDE DEF rules, identity, time0, approval, X
  <1> DEFINE a == rules \o identity
             b == a \o <<time0>>
  <1>7. a \in Seq(X) /\ \A i \in DOMAIN p.rules : i \in DOMAIN a /\ a[i] = rules[i]
    BY <1>1, <1>2
  <1> HIDE DEF a
  <1>8. b \in Seq(X) /\ \A i \in DOMAIN p.rules : i \in DOMAIN b /\ b[i] = rules[i]
    BY <1>3, <1>7
  <1>9. Stages(p, env, now) = b \o approval
    BY <1>5 DEF a, b
  <1> HIDE DEF b
  <1>10. /\ Stages(p, env, now) \in Seq(X)
         /\ \A i \in DOMAIN p.rules : i \in DOMAIN Stages(p, env, now) /\ Stages(p, env, now)[i] = rules[i]
    BY <1>4, <1>8, <1>9
  <1> QED
    BY <1>6, <1>10

-----------------------------------------------------------------------------
(***************************************************************************)
(* The ownership of a capability.                                          *)
(***************************************************************************)

\* A declaration is the only one of its tool.
LEMMA DeclaredOnce ==
    ASSUME NEW o, OwnershipValid(o), IsFiniteSet(o.caps),
           NEW server, NEW tool, NEW d \in Declared(o, server, tool), NEW e \in Declared(o, server, tool)
    PROVE  d = e
  <1>1. d \in o.caps /\ d.server = server /\ d.tool = tool
    BY DEF Declared
  <1>2. Cardinality(Declared(o, server, tool)) = 1
    BY <1>1 DEF OwnershipValid
  <1>3. IsFiniteSet(Declared(o, server, tool))
    <2>1. Declared(o, server, tool) \in SUBSET o.caps
      BY DEF Declared
    <2> QED
      BY <2>1, FS_Subset
  <1>4. PICK x : Declared(o, server, tool) = {x}
    BY <1>2, <1>3, FS_Singleton
  <1> QED
    BY <1>4

\* What OwnershipIsProven says of one proof.
Proven(o, tool, value, at) ==
    /\ \E d \in o.caps : d.server = Server /\ d.tool = tool
    /\ \/ ClientID = o.owner[Server]
       \/ Cardinality({g \in o.grants :
             /\ g.owner = o.owner[Server] /\ g.delegate = ClientID
             /\ g.server = Server /\ g.tool = tool
             /\ at >= g.from /\ at < g.until
             /\ g.scope = NoScope \/ value \in g.values}) = 1

LEMMA ProofIsSound ==
    ASSUME NEW o, OwnershipValid(o), IsFiniteSet(o.caps), Server \in DOMAIN o.owner,
           NEW tool, NEW value, NEW at, NEW signs,
           ProofHolds(checkCapabilityOwnership(o, [requester |-> ClientID, server |-> Server, tool |-> tool, value |-> value], at, signs))
    PROVE  Proven(o, tool, value, at)
  <1> DEFINE req == [requester |-> ClientID, server |-> Server, tool |-> tool, value |-> value]
             D == Declared(o, Server, tool)
             d == CHOOSE x \in D : TRUE
             live == {g \in Matching(o, d, req) : InWindow(g, at)}
             status == OwnershipEvaluate(o, d, req, at)
  <1>0. req.requester = ClientID /\ req.server = Server /\ req.tool = tool /\ req.value = value
    OBVIOUS
  <1> HIDE DEF req
  <1>1. D # {} /\ status \in {"unprotected", "direct", "matched"}
    BY <1>0 DEF ProofHolds, checkCapabilityOwnership, req
  <1>2. d \in D
    BY <1>1
  <1>3. d \in o.caps /\ d.server = Server /\ d.tool = tool
    BY <1>2 DEF Declared
  <1> HIDE DEF d
  <1>4. ClientID = o.owner[Server] \/ Cardinality(live) = 1
    BY <1>0, <1>1, <1>3 DEF OwnershipEvaluate
  <1> DEFINE T == {g \in o.grants :
                     /\ g.owner = o.owner[Server] /\ g.delegate = ClientID
                     /\ g.server = Server /\ g.tool = tool
                     /\ at >= g.from /\ at < g.until
                     /\ g.scope = NoScope \/ value \in g.values}
  <1>5. ASSUME NEW g \in o.grants, g.server = Server, g.tool = tool
        PROVE  g.effect = d.effect /\ g.scope = d.scope
    <2>1. PICK e \in Declared(o, Server, tool) : g.effect = e.effect /\ g.scope = e.scope
      BY <1>5 DEF OwnershipValid, GrantAgrees
    <2>2. e = d
      BY <1>2, DeclaredOnce
    <2> QED
      BY <2>1, <2>2
  <1>6. live = T
    <2>1. \A g \in o.grants : g \in live <=> g \in T
      <3> TAKE g \in o.grants
      <3>1. InWindow(g, at) <=> at >= g.from /\ at < g.until
        BY DEF InWindow
      <3> QED
        BY <1>0, <1>3, <1>5, <3>1 DEF Matching
    <2>2. live \subseteq o.grants /\ T \subseteq o.grants
      BY DEF Matching
    <2> HIDE DEF live, T
    <2> QED
      BY <2>1, <2>2
  <1> QED
    BY <1>3, <1>4, <1>6 DEF Proven

\* A tool that is allowed on a listed endpoint is declared, so its owner may use it.
LEMMA OwnerMayUse ==
    ASSUME NEW o, OwnershipValid(o), NEW p \in o.allowed, p[1] \in DOMAIN o.owner, NEW now
    PROVE  ProofHolds(checkCapabilityOwnership(o,
              [requester |-> o.owner[p[1]], server |-> p[1], tool |-> p[2], value |-> NoScope], now, TRUE))
  <1> DEFINE req == [requester |-> o.owner[p[1]], server |-> p[1], tool |-> p[2], value |-> NoScope]
             d == CHOOSE x \in Declared(o, p[1], p[2]) : TRUE
  <1>1. Declared(o, p[1], p[2]) # {}
    BY DEF OwnershipValid, Complete
  <1>2. d \in Declared(o, p[1], p[2])
    BY <1>1
  <1>3. d.server = p[1]
    BY <1>2 DEF Declared
  <1>4. req.requester = o.owner[p[1]] /\ req.server = p[1] /\ req.tool = p[2]
    OBVIOUS
  <1> HIDE DEF req, d
  <1>5. OwnershipEvaluate(o, d, req, now) = "direct"
    BY <1>3, <1>4 DEF OwnershipEvaluate
  <1>6. checkCapabilityOwnership(o, req, now, TRUE) = "direct"
    BY <1>1, <1>4, <1>5 DEF checkCapabilityOwnership, d
  <1> QED
    BY <1>6 DEF ProofHolds, req

-----------------------------------------------------------------------------
(***************************************************************************)
(* The walk along the parents of a grant.                                  *)
(***************************************************************************)
IsWalk(f, r, id, n) ==
    f = [i \in 1 .. n |-> IF i = 1 THEN id
                          ELSE IF f[i - 1] \in DOMAIN r.grants THEN r.grants[f[i - 1]].parent ELSE NoName]

LEMMA WalkIs ==
    ASSUME NEW f, NEW r, NEW id, NEW n \in Nat, IsWalk(f, r, id, n)
    PROVE  \A i \in 1 .. n : f[i] = IF i = 1 THEN id
                                    ELSE IF f[i - 1] \in DOMAIN r.grants THEN r.grants[f[i - 1]].parent ELSE NoName
  <1> DEFINE F(g) == [i \in 1 .. n |-> IF i = 1 THEN id
                                       ELSE IF g[i - 1] \in DOMAIN r.grants THEN r.grants[g[i - 1]].parent ELSE NoName]
  <1>1. f = F(f)
    BY DEF IsWalk
  <1>2. \A g : \A i \in 1 .. n : F(g)[i] = IF i = 1 THEN id
                                           ELSE IF g[i - 1] \in DOMAIN r.grants THEN r.grants[g[i - 1]].parent ELSE NoName
    OBVIOUS
  <1> HIDE DEF F
  <1> QED
    BY <1>1, <1>2

LEMMA WalkExists ==
    ASSUME NEW r, NEW id, NEW n \in Nat
    PROVE  \E f : IsWalk(f, r, id, n)
  <1> DEFINE S == {k \in Nat : \E f : IsWalk(f, r, id, k)}
             Up(x) == IF x \in DOMAIN r.grants THEN r.grants[x].parent ELSE NoName
  <1>1. 0 \in S
    <2> DEFINE f == [i \in 1 .. 0 |-> NoName]
    <2>1. f = [i \in 1 .. 0 |-> IF i = 1 THEN id
                                ELSE IF f[i - 1] \in DOMAIN r.grants THEN r.grants[f[i - 1]].parent ELSE NoName]
      OBVIOUS
    <2>2. IsWalk(f, r, id, 0)
      BY <2>1 DEF IsWalk
    <2> QED
      BY <2>2
  <1>2. ASSUME NEW k \in Nat, k \in S PROVE k + 1 \in S
    <2>1. PICK f : IsWalk(f, r, id, k)
      BY <1>2
    <2>2. \A i \in 1 .. k : f[i] = IF i = 1 THEN id ELSE Up(f[i - 1])
      BY <2>1, WalkIs
    <2> HIDE DEF Up
    <2> DEFINE last == IF k = 0 THEN id ELSE Up(f[k])
               g == [i \in 1 .. k + 1 |-> IF i = k + 1 THEN last ELSE f[i]]
    <2>3. \A i \in 1 .. k : g[i] = f[i]
      OBVIOUS
    <2>4. g[k + 1] = last
      OBVIOUS
    <2>5. \A i \in 1 .. k + 1 : g[i] = IF i = 1 THEN id ELSE Up(g[i - 1])
      <3> TAKE i \in 1 .. k + 1
      <3>1. CASE i \in 1 .. k
        <4>1. i # 1 => i - 1 \in 1 .. k
          BY <3>1
        <4> HIDE DEF g
        <4> QED
          BY <2>2, <2>3, <3>1, <4>1
      <3>2. CASE i = k + 1
        <4>1. i # 1 => k # 0 /\ i - 1 \in 1 .. k /\ i - 1 = k
          BY <3>2
        <4>2. i = 1 => k = 0
          BY <3>2
        <4> HIDE DEF g
        <4> QED
          BY <2>3, <2>4, <3>2, <4>1, <4>2
      <3> QED
        BY <3>1, <3>2
    <2>6. IsWalk(g, r, id, k + 1)
      <3>1. g = [i \in 1 .. k + 1 |-> g[i]]
        OBVIOUS
      <3> HIDE DEF g
      <3> QED
        BY <2>5, <3>1 DEF IsWalk, Up
    <2> QED
      BY <2>6
  <1>3. Nat \subseteq S
    <2> HIDE DEF S
    <2> QED
      BY <1>1, <1>2, NatSetInduction
  <1> QED
    BY <1>3

\* u lists n grants, from id to one without a parent, each the child of the next.
IsChain(r, id, n, u) ==
    /\ n \in 1 .. MaxGrantDepth /\ u[1] = id
    /\ \A i \in 1 .. n : u[i] \in DOMAIN r.grants
    /\ \A i \in 1 .. n - 1 : r.grants[u[i]].parent = u[i + 1]
    /\ r.grants[u[n]].parent = NoName

Turned(u, n) == [i \in 1 .. n |-> u[n + 1 - i]]

\* A walk that ends is such a list, turned over.
LEMMA WalkIsChain ==
    ASSUME NEW r, NoName \notin DOMAIN r.grants, NEW id, walkToRoot(r, id) # <<>>
    PROVE  \E n \in 1 .. MaxGrantDepth : \E u :
              IsChain(r, id, n, u) /\ walkToRoot(r, id) = Turned(u, n)
  <1> DEFINE u == CHOOSE f : IsWalk(f, r, id, MaxGrantDepth)
             roots == {i \in 1 .. MaxGrantDepth : u[i] \in DOMAIN r.grants /\ r.grants[u[i]].parent = NoName}
             n == CHOOSE i \in roots : TRUE
  <1>0. MaxGrantDepth \in Nat \ {0}
    BY GrantDepthPositive
  <1>1. IsWalk(u, r, id, MaxGrantDepth)
    BY <1>0, WalkExists
  <1>2. walkToRoot(r, id) = IF roots = {} THEN <<>> ELSE Turned(u, n)
    BY DEF walkToRoot, IsWalk, Turned
  <1>3. roots # {}
    BY <1>2
  <1>4. n \in roots
    BY <1>3
  <1>5. \A i \in 1 .. MaxGrantDepth : u[i] = IF i = 1 THEN id
           ELSE IF u[i - 1] \in DOMAIN r.grants THEN r.grants[u[i - 1]].parent ELSE NoName
    BY <1>0, <1>1, WalkIs
  <1>6. n \in 1 .. MaxGrantDepth /\ u[n] \in DOMAIN r.grants /\ r.grants[u[n]].parent = NoName
    BY <1>4
  <1>7. walkToRoot(r, id) = Turned(u, n)
    BY <1>2, <1>3
  <1> HIDE DEF u, n
  <1> DEFINE S == {k \in Nat : n - k >= 1 => u[n - k] \in DOMAIN r.grants}
  <1>8. 0 \in S
    BY <1>0, <1>6
  <1>9. ASSUME NEW k \in Nat, k \in S PROVE k + 1 \in S
    <2> SUFFICES ASSUME n - (k + 1) >= 1 PROVE u[n - (k + 1)] \in DOMAIN r.grants
      OBVIOUS
    <2> DEFINE m == n - k
    <2>1. m \in 1 .. MaxGrantDepth /\ m # 1 /\ m - 1 = n - (k + 1) /\ m >= 1
      BY <1>0, <1>6
    <2>2. u[m] \in DOMAIN r.grants
      BY <1>9, <2>1
    <2> HIDE DEF m
    <2>3. u[m - 1] \in DOMAIN r.grants
      BY <1>5, <2>1, <2>2
    <2> QED
      BY <2>1, <2>3
  <1>10. Nat \subseteq S
    <2> HIDE DEF S
    <2> QED
      BY <1>8, <1>9, NatSetInduction
  <1>11. \A i \in 1 .. n : u[i] \in DOMAIN r.grants
    <2> TAKE i \in 1 .. n
    <2>1. n - i \in Nat /\ n - (n - i) = i
      BY <1>0, <1>6
    <2>2. n - i \in S
      BY <2>1, <1>10
    <2> QED
      BY <2>1, <2>2
  <1>12. \A i \in 1 .. n - 1 : r.grants[u[i]].parent = u[i + 1]
    <2> TAKE i \in 1 .. n - 1
    <2>1. i + 1 \in 1 .. MaxGrantDepth /\ i + 1 # 1 /\ i + 1 - 1 = i /\ i \in 1 .. n
      BY <1>0, <1>6
    <2> QED
      BY <1>5, <1>11, <2>1
  <1>13. u[1] = id
    BY <1>0, <1>5
  <1> QED
    BY <1>6, <1>7, <1>11, <1>12, <1>13 DEF IsChain

\* There is one such list only, so the walk finds it.
LEMMA ChainIsWalk ==
    ASSUME NEW r, NoName \notin DOMAIN r.grants, NEW id, NEW n, NEW u, IsChain(r, id, n, u)
    PROVE  walkToRoot(r, id) = Turned(u, n)
  <1> DEFINE w == CHOOSE f : IsWalk(f, r, id, MaxGrantDepth)
             roots == {i \in 1 .. MaxGrantDepth : w[i] \in DOMAIN r.grants /\ r.grants[w[i]].parent = NoName}
             m == CHOOSE i \in roots : TRUE
  <1>0. MaxGrantDepth \in Nat \ {0}
    BY GrantDepthPositive
  <1>1. IsWalk(w, r, id, MaxGrantDepth)
    BY <1>0, WalkExists
  <1>2. walkToRoot(r, id) = IF roots = {} THEN <<>> ELSE [i \in 1 .. m |-> w[m + 1 - i]]
    BY DEF walkToRoot, IsWalk
  <1>3. \A i \in 1 .. MaxGrantDepth : w[i] = IF i = 1 THEN id
           ELSE IF w[i - 1] \in DOMAIN r.grants THEN r.grants[w[i - 1]].parent ELSE NoName
    BY <1>0, <1>1, WalkIs
  <1>4. /\ n \in 1 .. MaxGrantDepth /\ u[1] = id
        /\ \A i \in 1 .. n : u[i] \in DOMAIN r.grants
        /\ \A i \in 1 .. n - 1 : r.grants[u[i]].parent = u[i + 1]
        /\ r.grants[u[n]].parent = NoName
    BY DEF IsChain
  <1> DEFINE S == {k \in Nat : k + 1 <= n => w[k + 1] = u[k + 1]}
             T == {k \in Nat : n + k + 1 <= MaxGrantDepth => w[n + k + 1] = NoName}
  <1> HIDE DEF w
  <1>5. 0 \in S
    BY <1>0, <1>3, <1>4
  <1>6. ASSUME NEW k \in Nat, k \in S PROVE k + 1 \in S
    <2> SUFFICES ASSUME k + 1 + 1 <= n PROVE w[k + 1 + 1] = u[k + 1 + 1]
      OBVIOUS
    <2> DEFINE j == k + 1
    <2>1. j \in 1 .. n - 1 /\ j \in 1 .. n /\ j + 1 \in 1 .. MaxGrantDepth /\ j + 1 # 1 /\ j + 1 - 1 = j /\ j <= n
      BY <1>0, <1>4
    <2>2. w[j] = u[j]
      BY <1>6, <2>1
    <2> HIDE DEF j
    <2>3. w[j + 1] = u[j + 1]
      BY <1>3, <1>4, <2>1, <2>2
    <2> QED
      BY <2>3 DEF j
  <1>7. Nat \subseteq S
    <2> HIDE DEF S
    <2> QED
      BY <1>5, <1>6, NatSetInduction
  <1>8. \A i \in 1 .. n : w[i] = u[i]
    <2> TAKE i \in 1 .. n
    <2>1. i - 1 \in Nat /\ i - 1 + 1 = i /\ i <= n
      BY <1>0, <1>4
    <2>2. i - 1 \in S
      BY <1>7, <2>1
    <2> QED
      BY <2>1, <2>2
  <1>9. 0 \in T
    <2> SUFFICES ASSUME n + 0 + 1 <= MaxGrantDepth PROVE w[n + 0 + 1] = NoName
      OBVIOUS
    <2>1. n + 0 + 1 = n + 1 /\ n + 1 \in 1 .. MaxGrantDepth /\ n + 1 # 1 /\ n + 1 - 1 = n /\ n \in 1 .. n
      BY <1>0, <1>4
    <2>2. w[n] = u[n]
      BY <1>8, <2>1
    <2> QED
      BY <1>3, <1>4, <2>1, <2>2
  <1>10. ASSUME NEW k \in Nat, k \in T PROVE k + 1 \in T
    <2> SUFFICES ASSUME n + (k + 1) + 1 <= MaxGrantDepth PROVE w[n + (k + 1) + 1] = NoName
      OBVIOUS
    <2> DEFINE j == n + k + 1
    <2>1. j \in Nat /\ n + (k + 1) + 1 = j + 1 /\ j + 1 \in 1 .. MaxGrantDepth /\ j + 1 # 1 /\ j + 1 - 1 = j /\ j <= MaxGrantDepth
      BY <1>0, <1>4
    <2>2. w[j] = NoName
      BY <1>10, <2>1
    <2> HIDE DEF j
    <2>3. w[j + 1] = NoName
      BY <1>3, <2>1, <2>2
    <2> QED
      BY <2>1, <2>3
  <1>11. Nat \subseteq T
    <2> HIDE DEF T
    <2> QED
      BY <1>9, <1>10, NatSetInduction
  <1>12. \A i \in 1 .. MaxGrantDepth : i > n => w[i] = NoName
    <2> SUFFICES ASSUME NEW i \in 1 .. MaxGrantDepth, i > n PROVE w[i] = NoName
      OBVIOUS
    <2>1. i - n - 1 \in Nat /\ n + (i - n - 1) + 1 = i /\ i <= MaxGrantDepth
      BY <1>0, <1>4
    <2>2. i - n - 1 \in T
      BY <1>11, <2>1
    <2> QED
      BY <2>1, <2>2
  <1>13. roots = {n}
    <2>1. n \in roots
      <3>1. n \in 1 .. n
        BY <1>0, <1>4
      <3> QED
        BY <1>4, <1>8, <3>1
    <2>2. ASSUME NEW i \in roots PROVE i = n
      <3>1. i \in 1 .. MaxGrantDepth /\ w[i] \in DOMAIN r.grants /\ r.grants[w[i]].parent = NoName
        OBVIOUS
      <3>2. ~(i > n)
        BY <1>12, <3>1
      <3>3. ~(i < n)
        <4> SUFFICES ASSUME i < n PROVE FALSE
          OBVIOUS
        <4>1. i \in 1 .. n - 1 /\ i \in 1 .. n /\ i + 1 \in 1 .. n
          BY <1>0, <1>4, <3>1
        <4>2. r.grants[u[i]].parent = u[i + 1] /\ u[i + 1] \in DOMAIN r.grants /\ w[i] = u[i]
          BY <1>4, <1>8, <4>1
        <4> QED
          BY <3>1, <4>2
      <3> QED
        BY <1>0, <1>4, <3>1, <3>2, <3>3
    <2> QED
      BY <2>1, <2>2
  <1>14. m = n
    BY <1>13
  <1> HIDE DEF roots, m
  <1>15. walkToRoot(r, id) = [i \in 1 .. n |-> w[n + 1 - i]]
    BY <1>2, <1>13, <1>14
  <1>16. \A i \in 1 .. n : n + 1 - i \in 1 .. n
    BY <1>0, <1>4
  <1> QED
    BY <1>8, <1>15, <1>16 DEF Turned

-----------------------------------------------------------------------------
(***************************************************************************)
(* Delegation.                                                             *)
(***************************************************************************)
LEMMA RegistryHasNames ==
    ASSUME NEW r, RegistryValid(r)
    PROVE  NoName \notin DOMAIN r.grants
  BY DEF RegistryValid, GrantValid

\* What a delegated use rests on: the grants of the walk, from the one that is named
\* (position n of the chain) to the root (position 1).
LEMMA DelegatedByChain ==
    ASSUME NEW r, RegistryValid(r), NEW env, NEW now, Delegated(r, env, now)
    PROVE  \E n \in 1 .. MaxGrantDepth : \E u :
              /\ IsChain(r, env.grant, n, u)
              /\ \A i \in 1 .. n : LinkHolds(r, Turned(u, n), i, env, r.agents[env.actor].human, now)
  <1> DEFINE chain == walkToRoot(r, env.grant)
  <1>1. chain # <<>> /\ \A i \in DOMAIN chain : LinkHolds(r, chain, i, env, r.agents[env.actor].human, now)
    BY DEF Delegated
  <1>2. NoName \notin DOMAIN r.grants
    BY RegistryHasNames
  <1>3. PICK n \in 1 .. MaxGrantDepth : \E u :
           IsChain(r, env.grant, n, u) /\ chain = Turned(u, n)
    BY <1>1, <1>2, WalkIsChain
  <1>4. PICK u : IsChain(r, env.grant, n, u) /\ chain = Turned(u, n)
    BY <1>3
  <1>5. DOMAIN chain = 1 .. n
    BY <1>4 DEF Turned
  <1> HIDE DEF chain
  <1>6. \A i \in 1 .. n : LinkHolds(r, Turned(u, n), i, env, r.agents[env.actor].human, now)
    BY <1>1, <1>4, <1>5
  <1> QED
    BY <1>4, <1>6

\* A link that is not the root: its issuer is the subject of the grant above.
LEMMA LinkBelow ==
    ASSUME NEW r, NEW chain, NEW i \in Nat, i # 1, NEW env, NEW human, NEW now,
           LinkHolds(r, chain, i, env, human, now)
    PROVE  LET g == r.grants[chain[i]]
           IN  /\ g.issuer = r.grants[chain[i - 1]].subject
               /\ g.issuer \in DOMAIN r.agents /\ inInterval(r.agents[g.issuer], now)
               /\ r.agents[g.issuer].human = human
  BY DEF LinkHolds

\* A link depends on its chain in its own and in the next higher place only.
LEMMA LinkIsLocal ==
    ASSUME NEW r, NEW chain, NEW other, NEW i \in Nat, chain[i] = other[i], i # 1 => chain[i - 1] = other[i - 1],
           NEW env, NEW env2, env.cap = env2.cap, env.res = env2.res, NEW human, NEW now,
           LinkHolds(r, chain, i, env, human, now)
    PROVE  LinkHolds(r, other, i, env2, human, now)
  BY DEF LinkHolds

LEMMA NoneAmplifies ==
    ASSUME NEW r, RegistryValid(r), NEW now, NEW g \in DOMAIN r.grants, r.grants[g].parent # NoName,
           NEW cap, NEW res,
           Delegated(r, [actor |-> r.grants[g].subject, grant |-> g, cap |-> cap, res |-> res], now)
    PROVE  Delegated(r, [actor |-> r.grants[g].issuer, grant |-> r.grants[g].parent, cap |-> cap, res |-> res], now)
  <1> DEFINE env == [actor |-> r.grants[g].subject, grant |-> g, cap |-> cap, res |-> res]
             up == [actor |-> r.grants[g].issuer, grant |-> r.grants[g].parent, cap |-> cap, res |-> res]
             human == r.agents[r.grants[g].subject].human
  <1>0. /\ env.actor = r.grants[g].subject /\ env.grant = g /\ env.cap = cap /\ env.res = res
        /\ up.actor = r.grants[g].issuer /\ up.grant = r.grants[g].parent /\ up.cap = cap /\ up.res = res
    OBVIOUS
  <1>1. Delegated(r, env, now)
    OBVIOUS
  <1> HIDE DEF env, up
  <1>2. NoName \notin DOMAIN r.grants
    BY RegistryHasNames
  <1>3. PICK n \in 1 .. MaxGrantDepth : \E u :
              /\ IsChain(r, env.grant, n, u)
              /\ \A i \in 1 .. n : LinkHolds(r, Turned(u, n), i, env, r.agents[env.actor].human, now)
    BY <1>1, DelegatedByChain
  <1>4. PICK u :
              /\ IsChain(r, env.grant, n, u)
              /\ \A i \in 1 .. n : LinkHolds(r, Turned(u, n), i, env, r.agents[env.actor].human, now)
    BY <1>3
  <1>5. MaxGrantDepth \in Nat \ {0} /\ n \in 1 .. MaxGrantDepth
    BY GrantDepthPositive
  <1>6. /\ u[1] = g /\ r.grants[u[n]].parent = NoName
        /\ \A i \in 1 .. n : u[i] \in DOMAIN r.grants
        /\ \A i \in 1 .. n - 1 : r.grants[u[i]].parent = u[i + 1]
    BY <1>0, <1>4 DEF IsChain
  <1>7. n # 1
    BY <1>6
  <1> DEFINE v == [i \in 1 .. n - 1 |-> u[i + 1]]
             chain == Turned(u, n)
             above == Turned(v, n - 1)
  <1>8. n - 1 \in 1 .. MaxGrantDepth /\ 1 \in 1 .. n - 1 /\ n - 1 \in 1 .. n - 1 /\ 1 + 1 = 2 /\ n - 1 + 1 = n
    BY <1>5, <1>7
  <1>9. \A i \in 1 .. n - 1 : v[i] = u[i + 1] /\ i + 1 \in 1 .. n
    BY <1>5
  <1>10. \A i \in 1 .. n - 1 - 1 : i \in 1 .. n - 1 /\ i + 1 \in 1 .. n - 1
    BY <1>5
  <1>11. v[1] = r.grants[g].parent
    BY <1>6, <1>8, <1>9
  <1> HIDE DEF v
  <1>12. IsChain(r, r.grants[g].parent, n - 1, v)
    <2>1. \A i \in 1 .. n - 1 : v[i] \in DOMAIN r.grants
      BY <1>6, <1>9
    <2>2. \A i \in 1 .. n - 1 - 1 : r.grants[v[i]].parent = v[i + 1]
      <3> TAKE i \in 1 .. n - 1 - 1
      <3>1. i \in 1 .. n - 1 /\ i + 1 \in 1 .. n - 1
        BY <1>10
      <3>2. v[i] = u[i + 1] /\ v[i + 1] = u[i + 1 + 1] /\ r.grants[u[i + 1]].parent = u[i + 1 + 1]
        BY <1>6, <1>9, <3>1
      <3> QED
        BY <3>2
    <2>3. r.grants[v[n - 1]].parent = NoName
      BY <1>6, <1>8, <1>9
    <2> QED
      BY <1>8, <1>11, <2>1, <2>2, <2>3 DEF IsChain
  <1>13. walkToRoot(r, up.grant) = above
    BY <1>0, <1>2, <1>12, ChainIsWalk
  <1>14. ASSUME NEW i \in 1 .. n - 1
         PROVE  i \in 1 .. n /\ above[i] = chain[i] /\ (i # 1 => above[i - 1] = chain[i - 1])
    <2>1. \A k \in 1 .. n - 1 : n - 1 + 1 - k \in 1 .. n - 1 /\ k \in 1 .. n /\ n - 1 + 1 - k + 1 = n + 1 - k
      BY <1>5
    <2>2. \A k \in 1 .. n - 1 : above[k] = v[n - 1 + 1 - k] /\ chain[k] = u[n + 1 - k]
      BY <2>1 DEF Turned
    <2>3. \A k \in 1 .. n - 1 : above[k] = chain[k]
      BY <1>9, <2>1, <2>2
    <2>4. i # 1 => i - 1 \in 1 .. n - 1
      BY <1>5
    <2> HIDE DEF above, chain
    <2> QED
      BY <2>1, <2>3, <2>4
  <1>15. DOMAIN above = 1 .. n - 1 /\ above # <<>>
    <2>1. DOMAIN above = 1 .. n - 1
      BY DEF Turned
    <2> HIDE DEF above
    <2>2. DOMAIN above # {}
      BY <1>8, <2>1
    <2>3. DOMAIN (<<>>) = {}
      OBVIOUS
    <2> QED
      BY <2>1, <2>2, <2>3, Zenon
  <1>16. \A i \in 1 .. n : LinkHolds(r, chain, i, env, human, now)
    BY <1>0, <1>4
  <1>17. /\ r.grants[g].issuer = r.grants[r.grants[g].parent].subject
         /\ r.grants[g].issuer \in DOMAIN r.agents /\ inInterval(r.agents[r.grants[g].issuer], now)
         /\ r.agents[r.grants[g].issuer].human = human
    <2>1. n \in 1 .. n /\ n \in Nat /\ n - 1 \in 1 .. n /\ n + 1 - n = 1 /\ n + 1 - (n - 1) = 2
      BY <1>5, <1>7
    <2>2. chain[n] = g /\ chain[n - 1] = r.grants[g].parent
      BY <1>6, <1>8, <2>1 DEF Turned
    <2>3. LinkHolds(r, chain, n, env, human, now)
      BY <1>16, <2>1
    <2> HIDE DEF chain
    <2> QED
      BY <1>7, <2>1, <2>2, <2>3, LinkBelow
  <1> HIDE DEF above, chain
  <1>18. \A i \in 1 .. n - 1 : LinkHolds(r, above, i, up, human, now)
    <2> TAKE i \in 1 .. n - 1
    <2>1. LinkHolds(r, chain, i, env, human, now) /\ i \in Nat
      BY <1>14, <1>16, <1>5
    <2> QED
      BY <1>0, <1>14, <2>1, LinkIsLocal
  <1>19. r.grants[g].parent \in DOMAIN r.grants
    BY <1>6, <1>8, <1>9, <1>11
  <1> QED
    BY <1>0, <1>13, <1>15, <1>17, <1>18, <1>19 DEF Delegated, up

\* What EveryAncestorCovers says of one delegated use.
Covered(r, grant, actor, cap, res, at) ==
    LET chain == Ancestors(r, grant)
        human == r.agents[actor].human
    IN  /\ \A g \in chain : /\ inInterval(r.grants[g], at)
                            /\ cap \in r.grants[g].caps /\ res \in r.grants[g].res
                            /\ inInterval(r.agents[r.grants[g].subject], at)
                            /\ r.agents[r.grants[g].subject].human = human
        /\ \E g \in chain : r.grants[g].parent = NoName /\ r.grants[g].issuer = human
        /\ Cardinality(chain) <= MaxGrantDepth

LEMMA LinkCovers ==
    ASSUME NEW r, NEW chain, NEW i, NEW env, NEW human, NEW now, LinkHolds(r, chain, i, env, human, now)
    PROVE  /\ inInterval(r.grants[chain[i]], now)
           /\ env.cap \in r.grants[chain[i]].caps /\ env.res \in r.grants[chain[i]].res
           /\ inInterval(r.agents[r.grants[chain[i]].subject], now)
           /\ r.agents[r.grants[chain[i]].subject].human = human
           /\ i = 1 => r.grants[chain[i]].issuer = human
  BY DEF LinkHolds

LEMMA DelegatedIsCovered ==
    ASSUME NEW r, RegistryValid(r), NEW env, NEW now, Delegated(r, env, now)
    PROVE  Covered(r, env.grant, env.actor, env.cap, env.res, now)
  <1> DEFINE human == r.agents[env.actor].human
             A == Ancestors(r, env.grant)
  <1>1. PICK n \in 1 .. MaxGrantDepth : \E u :
              /\ IsChain(r, env.grant, n, u)
              /\ \A i \in 1 .. n : LinkHolds(r, Turned(u, n), i, env, human, now)
    BY DelegatedByChain
  <1>2. PICK u :
              /\ IsChain(r, env.grant, n, u)
              /\ \A i \in 1 .. n : LinkHolds(r, Turned(u, n), i, env, human, now)
    BY <1>1
  <1>3. MaxGrantDepth \in Nat \ {0} /\ n \in 1 .. MaxGrantDepth
    BY GrantDepthPositive
  <1>4. /\ u[1] = env.grant /\ r.grants[u[n]].parent = NoName
        /\ \A i \in 1 .. n : u[i] \in DOMAIN r.grants
        /\ \A i \in 1 .. n - 1 : r.grants[u[i]].parent = u[i + 1]
    BY <1>2 DEF IsChain
  <1>5. NoName \notin DOMAIN r.grants
    BY RegistryHasNames
  <1> DEFINE R == {u[i] : i \in 1 .. n}
             chain == Turned(u, n)
  <1>6. A \subseteq R
    <2>1. R \in SUBSET DOMAIN r.grants
      BY <1>4
    <2>2. env.grant \in R
      <3>1. 1 \in 1 .. n
        BY <1>3
      <3> QED
        BY <1>4, <3>1
    <2>3. \A x \in R : r.grants[x].parent \in DOMAIN r.grants => r.grants[x].parent \in R
      <3> SUFFICES ASSUME NEW i \in 1 .. n, r.grants[u[i]].parent \in DOMAIN r.grants
                   PROVE  r.grants[u[i]].parent \in R
        OBVIOUS
      <3>1. i # n
        BY <1>4, <1>5
      <3>2. i \in 1 .. n - 1 /\ i + 1 \in 1 .. n
        BY <1>3, <3>1
      <3> QED
        BY <1>4, <3>2
    <2> HIDE DEF R
    <2> QED
      BY <2>1, <2>2, <2>3 DEF Ancestors
  <1>7. \A i \in 1 .. n : /\ inInterval(r.grants[u[i]], now)
                          /\ env.cap \in r.grants[u[i]].caps /\ env.res \in r.grants[u[i]].res
                          /\ inInterval(r.agents[r.grants[u[i]].subject], now)
                          /\ r.agents[r.grants[u[i]].subject].human = human
                          /\ i = n => r.grants[u[i]].issuer = human
    <2> TAKE i \in 1 .. n
    <2>1. n + 1 - i \in 1 .. n /\ n + 1 - (n + 1 - i) = i /\ (i = n => n + 1 - i = 1)
      BY <1>3
    <2>2. LinkHolds(r, chain, n + 1 - i, env, human, now)
      BY <1>2, <2>1
    <2>3. chain[n + 1 - i] = u[i]
      BY <2>1 DEF Turned
    <2> HIDE DEF chain, human
    <2> QED
      BY <2>1, <2>2, <2>3, LinkCovers
  <1>8. u[n] \in A
    <2> SUFFICES ASSUME NEW S \in SUBSET DOMAIN r.grants, env.grant \in S,
                        \A x \in S : r.grants[x].parent \in DOMAIN r.grants => r.grants[x].parent \in S
                 PROVE  u[n] \in S
      <3>1. n \in 1 .. n
        BY <1>3
      <3>2. u[n] \in DOMAIN r.grants
        BY <1>4, <3>1
      <3> QED
        BY <3>2 DEF Ancestors
    <2> DEFINE T == {k \in Nat : k + 1 <= n => u[k + 1] \in S}
    <2>1. 0 \in T
      BY <1>4
    <2>2. ASSUME NEW k \in Nat, k \in T PROVE k + 1 \in T
      <3> SUFFICES ASSUME k + 1 + 1 <= n PROVE u[k + 1 + 1] \in S
        OBVIOUS
      <3>1. k + 1 \in 1 .. n - 1 /\ k + 1 <= n /\ k + 1 + 1 \in 1 .. n
        BY <1>3
      <3>2. u[k + 1] \in S /\ r.grants[u[k + 1]].parent = u[k + 1 + 1] /\ u[k + 1 + 1] \in DOMAIN r.grants
        BY <1>4, <2>2, <3>1
      <3> QED
        BY <3>2
    <2>3. Nat \subseteq T
      <3> HIDE DEF T
      <3> QED
        BY <2>1, <2>2, NatSetInduction
    <2>4. n - 1 \in Nat /\ n - 1 + 1 = n /\ n <= n
      BY <1>3
    <2>5. n - 1 \in T
      BY <2>3, <2>4
    <2> QED
      BY <2>4, <2>5
  <1>9. Cardinality(A) <= MaxGrantDepth
    <2>1. IsFiniteSet(1 .. n) /\ Cardinality(1 .. n) = n
      <3>1. IsFiniteSet(1 .. n) /\ Cardinality(1 .. n) = IF 1 > n THEN 0 ELSE n - 1 + 1
        BY <1>3, FS_Interval
      <3> QED
        BY <1>3, <3>1
    <2> DEFINE f == [i \in 1 .. n |-> u[i]]
    <2>2. f \in Surjection(1 .. n, R)
      BY DEF Surjection
    <2>3. IsFiniteSet(R) /\ Cardinality(R) <= Cardinality(1 .. n)
      <3> HIDE DEF R, f
      <3> QED
        BY <2>1, <2>2, FS_Surjection
    <2>4. Cardinality(A) <= Cardinality(R) /\ IsFiniteSet(A)
      <3> HIDE DEF A, R
      <3> QED
        BY <1>6, <2>3, FS_Subset
    <2>5. Cardinality(A) \in Nat /\ Cardinality(R) \in Nat
      <3> HIDE DEF A, R
      <3> QED
        BY <2>3, <2>4, FS_CardinalityType
    <2> HIDE DEF A, R
    <2> QED
      BY <1>3, <2>1, <2>3, <2>4, <2>5
  <1>10. \A g \in A : /\ inInterval(r.grants[g], now)
                      /\ env.cap \in r.grants[g].caps /\ env.res \in r.grants[g].res
                      /\ inInterval(r.agents[r.grants[g].subject], now)
                      /\ r.agents[r.grants[g].subject].human = human
    <2> HIDE DEF A, human
    <2> QED
      BY <1>6, <1>7
  <1>11. r.grants[u[n]].parent = NoName /\ r.grants[u[n]].issuer = human
    <2>1. n \in 1 .. n
      BY <1>3
    <2> QED
      BY <1>4, <1>7, <2>1
  <1> HIDE DEF A
  <1> QED
    BY <1>8, <1>9, <1>10, <1>11 DEF Covered, A

-----------------------------------------------------------------------------
(***************************************************************************)
(* What is known of a call by the place where it is.                       *)
(***************************************************************************)
IdentityAt(v, now) == IF Enabled(v) /\ Check(v, now) THEN v.agent ELSE ClientID

\* The lineage was judged for the identity of its moment, and it delegates.
LineageJudged(p, env, lineage, v) ==
    Enabled(lineage) =>
       /\ RegistryValid(p.lineage)
       /\ Delegated(p.lineage, lineage.claim, lineage.at)
       /\ lineage.claim.grant = env.grant /\ lineage.claim.cap = env.cap /\ lineage.claim.res = env.res
       /\ lineage.claim.actor = IdentityAt(v, lineage.at)

\* No stage denied, a stage that asked for an approval was heard, and the mandates hold.
RulesJudged(p, env, stages, decision) ==
    /\ \A i \in DOMAIN stages :
          stages[i] = "allow" \/ (stages[i] = "require_approval" /\ decision = "require_approval")
    /\ \A i \in DOMAIN p.rules : MandateKept(p.rules[i], env.args)

OwnershipJudged(p, env, proof) ==
    Enabled(p.ownership) /\ Server \in DOMAIN p.ownership.owner => Proven(p.ownership, env.tool, env.res, proof.at)

\* An approved call has its proof and its lineage from after the answer.
FreshlyJudged(p, lineage, decision, proof, answered, v) ==
    decision = "require_approval" =>
       /\ answered >= 0 /\ proof.at >= answered
       /\ Enabled(p.lineage) => lineage.at >= answered
       /\ Enabled(p.lineage) /\ verifiedActorRequired(p) => lineage.claim.actor = v.agent

CallFields == {"env", "policy", "lineage", "stages", "decision", "proof", "answered"}

Rechecks == {"recheck_ownership", "recheck_lineage", "recheck_actor"}

PlaceInv ==
    /\ DOMAIN call = CallFields
    /\ pc # "idle" => /\ call.policy \in Policies /\ PolicyValid(call.policy)
                      /\ call.env.args \subseteq Arguments /\ Len(committed) < MaxCalls
    /\ pc \notin {"idle", "actor"} /\ verifiedActorRequired(call.policy) => Enabled(verified)
    /\ LineageJudged(call.policy, call.env, call.lineage, verified)
    /\ Enabled(call.lineage) => call.lineage.at \in 0 .. clock
    /\ pc \in Rechecks \cup {"ownership", "wait", "commit"} =>
          RulesJudged(call.policy, call.env, call.stages, call.decision)
    /\ pc \in Rechecks \cup {"wait", "commit"} => OwnershipJudged(call.policy, call.env, call.proof)
    /\ pc \in Rechecks \cup {"wait"} => call.decision = "require_approval"
    /\ pc \in Rechecks => call.answered \in 0 .. clock
    /\ pc \in {"recheck_lineage", "recheck_actor"} => call.proof.at >= call.answered
    /\ pc = "recheck_actor" =>
          (Enabled(call.policy.lineage) => Enabled(call.lineage) /\ call.lineage.at >= call.answered)
    /\ pc = "commit" => FreshlyJudged(call.policy, call.lineage, call.decision, call.proof, call.answered, verified)

\* A committed call, under the context the process has had from its start.
Authorized(c, v) ==
    /\ LineageJudged(c.policy, c.env, c.lineage, v)
    /\ RulesJudged(c.policy, c.env, c.stages, c.decision)
    /\ OwnershipJudged(c.policy, c.env, c.proof)
    /\ FreshlyJudged(c.policy, c.lineage, c.decision, c.proof, c.answered, v)

SessionInv ==
    /\ policy \in Policies /\ verified \in Contexts /\ Decodable(verified)
    /\ committed \in Seq(Committed)
    /\ \A c \in Committed : Authorized(c, verified)

CredInv == TypeOK /\ PlaceInv /\ SessionInv

LEMMA NoCallIs ==
    /\ DOMAIN NoCall = CallFields /\ NoCall.lineage = Off /\ ~Enabled(Off)
    /\ NoCall.policy = Off
  BY DEF NoCall, CallFields, Enabled

\* A call that is over, refused or committed, leaves nothing behind but its record.
LEMMA OverInv ==
    ASSUME CredInv, Denied, UNCHANGED <<policy, verified, clock, reloads>>,
           Len(committed') <= MaxCalls, committed' \in Seq(Committed'),
           \A c \in Committed' : Authorized(c, verified)
    PROVE  CredInv'
  <1>1. pc' = "idle" /\ call' = NoCall
    BY DEF Denied
  <1>2. TypeOK'
    BY <1>1 DEF CredInv, TypeOK
  <1>3. PlaceInv'
    BY <1>1, NoCallIs DEF PlaceInv, LineageJudged, Rechecks
  <1>4. SessionInv'
    BY DEF CredInv, SessionInv
  <1> QED
    BY <1>2, <1>3, <1>4 DEF CredInv

LEMMA DeniedInv ==
    ASSUME CredInv, Denied, UNCHANGED <<policy, verified, clock, reloads, committed>>
    PROVE  CredInv'
  <1>1. Committed' = Committed
    BY DEF Committed
  <1> QED
    BY <1>1, OverInv DEF CredInv, TypeOK, SessionInv

\* A call that goes on: what is not about its place stays.
LEMMA GoesOnInv ==
    ASSUME CredInv, pc # "idle", pc' # "idle", PlaceInv', UNCHANGED <<policy, verified, clock, reloads, committed>>,
           pc' \in Rechecks \cup {"actor", "lineage", "rules", "ownership", "wait", "commit"}
    PROVE  CredInv'
  <1>1. Committed' = Committed
    BY DEF Committed
  <1>2. call' # NoCall
    <2>1. call'.policy \in Policies /\ Off \notin Policies
      BY CredentialConstants DEF PlaceInv
    <2> QED
      BY <2>1, NoCallIs
  <1>3. TypeOK'
    BY <1>2 DEF CredInv, TypeOK, Rechecks
  <1>4. SessionInv'
    BY <1>1 DEF CredInv, SessionInv
  <1> QED
    BY <1>3, <1>4 DEF CredInv

LEMMA CredInitInv == Init => CredInv
  <1> SUFFICES ASSUME Init PROVE CredInv
    OBVIOUS
  <1>0. {MaxTime, MaxCalls, MaxReloads} \subseteq Nat
    BY CredentialConstants
  <1>1. Committed = {} /\ committed = <<>>
    BY DEF Init, Committed
  <1>2. Len(committed) = 0 /\ committed \in Seq(Committed)
    BY <1>1
  <1>3. TypeOK
    BY <1>0, <1>2 DEF TypeOK, Init
  <1>4. PlaceInv
    BY NoCallIs DEF Init, PlaceInv, LineageJudged, Rechecks
  <1>5. SessionInv
    BY <1>1, <1>2 DEF SessionInv, Init
  <1> QED
    BY <1>3, <1>4, <1>5 DEF CredInv

LEMMA ReloadPolicyInv ==
    ASSUME CredInv, NEW p \in Reloads, Reload(p)
    PROVE  CredInv'
  <1>1. p \in Policies /\ policy \in Policies /\ PolicyValid(policy)
    BY CredentialConstants DEF CredInv, TypeOK, SessionInv
  <1>2. policy' \in Policies /\ PolicyValid(policy')
    BY <1>1 DEF Reload
  <1>3. reloads' \in 0 .. MaxReloads
    BY CredentialConstants DEF Reload, CredInv, TypeOK
  <1>4. UNCHANGED <<verified, clock, pc, call, committed>>
    BY DEF Reload
  <1>5. Committed' = Committed
    BY <1>4 DEF Committed
  <1>6. TypeOK'
    BY <1>2, <1>3, <1>4 DEF CredInv, TypeOK
  <1>7. PlaceInv'
    BY <1>4 DEF CredInv, PlaceInv
  <1>8. SessionInv'
    BY <1>2, <1>4, <1>5 DEF CredInv, SessionInv
  <1> QED
    BY <1>6, <1>7, <1>8 DEF CredInv

LEMMA StartInv ==
    ASSUME CredInv, NEW e \in Envelopes(policy), Start(e)
    PROVE  CredInv'
  <1>1. /\ pc = "idle" /\ pc' = "actor" /\ Len(committed) < MaxCalls
        /\ UNCHANGED <<policy, verified, clock, reloads, committed>>
    BY DEF Start
  <1>2. /\ DOMAIN call' = CallFields /\ call'.env = e /\ call'.policy = policy /\ call'.lineage = Off
    BY DEF Start, NoCall, CallFields
  <1>3. policy \in Policies /\ PolicyValid(policy) /\ e.args \subseteq Arguments
    BY CredentialConstants DEF CredInv, TypeOK, SessionInv
  <1>4. PlaceInv'
    BY <1>1, <1>2, <1>3, NoCallIs DEF PlaceInv, LineageJudged, Rechecks
  <1>5. Committed' = Committed
    BY <1>1 DEF Committed
  <1>6. call' # NoCall
    BY <1>2, <1>3, CredentialConstants, NoCallIs
  <1>7. TypeOK'
    BY <1>1, <1>6 DEF CredInv, TypeOK
  <1>8. SessionInv'
    BY <1>1, <1>5 DEF CredInv, SessionInv
  <1> QED
    BY <1>4, <1>7, <1>8 DEF CredInv

LEMMA EvaluateInv ==
    ASSUME CredInv, Evaluate
    PROVE  CredInv'
  <1>1. pc = "actor" /\ UNCHANGED <<policy, verified, clock, reloads, committed>>
    BY DEF Evaluate
  <1>2. CASE Denied
    BY <1>1, <1>2, DeniedInv
  <1>3. CASE evaluateVerifiedActor(call.policy, clock) /\ pc' = "lineage" /\ call' = call
    <2>1. PlaceInv'
      BY <1>1, <1>3 DEF CredInv, PlaceInv, evaluateVerifiedActor, Rechecks
    <2> QED
      BY <1>1, <1>3, <2>1, GoesOnInv DEF Rechecks
  <1> QED
    BY <1>2, <1>3 DEF Evaluate

LEMMA TickInv ==
    ASSUME CredInv, Tick
    PROVE  CredInv'
  <1>1. UNCHANGED <<policy, verified, reloads, pc, call, committed>> /\ clock' = clock + 1 /\ clock < MaxTime
    BY DEF Tick
  <1>2. clock \in 0 .. MaxTime /\ MaxTime \in Nat
    BY CredentialConstants DEF CredInv, TypeOK
  <1>3. clock' \in 0 .. MaxTime /\ \A x \in 0 .. clock : x \in 0 .. clock'
    BY <1>1, <1>2
  <1>4. TypeOK'
    BY <1>1, <1>3 DEF CredInv, TypeOK
  <1>5. PlaceInv'
    BY <1>1, <1>3 DEF CredInv, PlaceInv
  <1>6. Committed' = Committed
    BY <1>1 DEF Committed
  <1>7. SessionInv'
    BY <1>1, <1>6 DEF CredInv, SessionInv
  <1> QED
    BY <1>4, <1>5, <1>7 DEF CredInv

\* The lineage is judged for the identity of the moment, before and after the wait.
LEMMA EvaluateLineageInv ==
    ASSUME CredInv, EvaluateLineage
    PROVE  CredInv'
  <1>1. pc \in {"lineage", "recheck_lineage"} /\ UNCHANGED <<policy, verified, clock, reloads, committed>>
    BY DEF EvaluateLineage
  <1> DEFINE next == IF pc = "lineage" THEN "rules" ELSE "recheck_actor"
             claim == Claim(clock)
             r == call.policy.lineage
  <1>2. CASE Denied
    BY <1>1, <1>2, DeniedInv
  <1>3. CASE ~Enabled(r) /\ pc' = next /\ call' = call
    <2>1. PlaceInv'
      BY <1>1, <1>3 DEF CredInv, PlaceInv, Rechecks
    <2> QED
      BY <1>1, <1>3, <2>1, GoesOnInv DEF Rechecks
  <1>4. CASE /\ Enabled(r) /\ ValidateAt(r, claim, clock) /\ pc' = next
             /\ call' = [call EXCEPT !.lineage = [claim |-> claim, at |-> clock]]
    <2> DEFINE new == [claim |-> claim, at |-> clock]
    <2>1. DOMAIN call = CallFields /\ clock \in Nat /\ clock \in 0 .. MaxTime
      BY CredentialConstants DEF CredInv, PlaceInv, TypeOK
    <2>2. new.claim = claim /\ new.at = clock
      OBVIOUS
    <2>3. /\ claim.grant = call.env.grant /\ claim.cap = call.env.cap /\ claim.res = call.env.res
          /\ claim.actor = IdentityAt(verified, clock)
      BY DEF Claim, sessionIdentityAt, IdentityAt
    <2>4. RegistryValid(r) /\ Delegated(r, claim, clock)
      BY <1>1, <1>4 DEF CredInv, PlaceInv, PolicyValid, ValidateAt
    <2> HIDE DEF new, claim
    <2>5. /\ DOMAIN call' = CallFields /\ call'.lineage = new
          /\ call'.policy = call.policy /\ call'.env = call.env /\ call'.stages = call.stages
          /\ call'.decision = call.decision /\ call'.proof = call.proof /\ call'.answered = call.answered
      BY <1>4, <2>1 DEF CallFields, new
    <2>6. LineageJudged(call.policy, call.env, new, verified)
      BY <2>2, <2>3, <2>4 DEF LineageJudged
    <2>7. Enabled(new)
      BY DEF Enabled, Off, new
    <2>8. new.at \in 0 .. clock /\ (pc = "recheck_lineage" => new.at >= call.answered)
      <3>1. pc = "recheck_lineage" => call.answered \in 0 .. clock
        BY DEF CredInv, PlaceInv, Rechecks
      <3> QED
        BY <2>1, <2>2, <3>1
    <2>9. PlaceInv'
      BY <1>1, <1>4, <2>5, <2>6, <2>7, <2>8 DEF CredInv, PlaceInv, Rechecks
    <2> QED
      BY <1>1, <1>4, <2>9, GoesOnInv DEF Rechecks
  <1> QED
    BY <1>2, <1>3, <1>4 DEF EvaluateLineage

\* All rules are stages, and no stage of a call that goes on denied.
LEMMA EvaluateRulesInv ==
    ASSUME CredInv, EvaluateRules
    PROVE  CredInv'
  <1>1. pc = "rules" /\ UNCHANGED <<policy, verified, clock, reloads, committed>>
    BY DEF EvaluateRules
  <1> DEFINE stages == Stages(call.policy, call.env, clock)
             decision == Merge(stages)
  <1>2. CASE Denied
    BY <1>1, <1>2, DeniedInv
  <1>3. CASE /\ decision # "deny" /\ pc' = "ownership"
             /\ call' = [call EXCEPT !.stages = stages, !.decision = decision]
    <2>1. DOMAIN call = CallFields /\ call.policy \in Policies /\ call.env.args \subseteq Arguments
      BY <1>1 DEF CredInv, PlaceInv
    <2>2. /\ Len(stages) \in Nat /\ DOMAIN stages = 1 .. Len(stages)
          /\ \A i \in DOMAIN call.policy.rules :
                i \in 1 .. Len(stages) /\ stages[i] = evaluateRule(call.policy.rules[i], call.env.args)
      BY <2>1, RulesAreStages
    <2> HIDE DEF stages
    <2>3. \A i \in 1 .. Len(stages) :
             stages[i] = "allow" \/ (stages[i] = "require_approval" /\ decision = "require_approval")
      BY <1>3, <2>2, MergeHearsAll
    <2>4. \A i \in DOMAIN call.policy.rules : MandateKept(call.policy.rules[i], call.env.args)
      <3> TAKE i \in DOMAIN call.policy.rules
      <3>1. evaluateRule(call.policy.rules[i], call.env.args) # "deny"
        BY <2>2, <2>3
      <3> QED
        BY <2>1, <3>1, RuleKeepsMandate
    <2> HIDE DEF decision
    <2>5. RulesJudged(call.policy, call.env, stages, decision)
      BY <2>2, <2>3, <2>4 DEF RulesJudged
    <2>6. /\ DOMAIN call' = CallFields /\ call'.stages = stages /\ call'.decision = decision
          /\ call'.policy = call.policy /\ call'.env = call.env /\ call'.lineage = call.lineage
          /\ call'.proof = call.proof /\ call'.answered = call.answered
      BY <1>3, <2>1 DEF CallFields
    <2>7. PlaceInv'
      BY <1>1, <1>3, <2>5, <2>6 DEF CredInv, PlaceInv, Rechecks
    <2> QED
      BY <1>1, <1>3, <2>7, GoesOnInv DEF Rechecks
  <1> QED
    BY <1>2, <1>3 DEF EvaluateRules

LEMMA CheckOwnershipInv ==
    ASSUME CredInv, CheckOwnership
    PROVE  CredInv'
  <1>1. pc \in {"ownership", "recheck_ownership"} /\ UNCHANGED <<policy, verified, clock, reloads, committed>>
    BY DEF CheckOwnership
  <1> DEFINE o == call.policy.ownership
             status(signs) == IF Enabled(o) THEN checkCapabilityOwnership(o, OwnershipRequest, clock, signs)
                              ELSE "unprotected"
             new(signs) == [status |-> status(signs), at |-> clock]
             next == IF pc = "recheck_ownership" THEN "recheck_lineage"
                     ELSE IF call.decision = "require_approval" THEN "wait" ELSE "commit"
  <1>2. CASE Denied
    BY <1>1, <1>2, DeniedInv
  <1>3. ASSUME NEW signs \in BOOLEAN, ProofHolds(status(signs)), pc' = next,
               call' = [call EXCEPT !.proof = new(signs)]
        PROVE  CredInv'
    <2>1. /\ DOMAIN call = CallFields /\ clock \in Nat
          /\ call.policy \in Policies /\ PolicyValid(call.policy)
      BY <1>1, CredentialConstants DEF CredInv, PlaceInv, TypeOK
    <2>2. new(signs).at = clock
      OBVIOUS
    <2>3. OwnershipJudged(call.policy, call.env, new(signs))
      <3> SUFFICES ASSUME Enabled(o), Server \in DOMAIN o.owner
                   PROVE  Proven(o, call.env.tool, call.env.res, clock)
        BY <2>2 DEF OwnershipJudged
      <3>1. OwnershipValid(o) /\ IsFiniteSet(o.caps)
        BY <2>1, CredentialConstants DEF PolicyValid
      <3>2. ProofHolds(checkCapabilityOwnership(o, [requester |-> ClientID, server |-> Server, tool |-> call.env.tool,
                                                   value |-> call.env.res], clock, signs))
        BY <1>3 DEF OwnershipRequest
      <3> HIDE DEF o
      <3> QED
        BY <3>1, <3>2, ProofIsSound
    <2> DEFINE proof == new(signs)
    <2>4. call' = [call EXCEPT !.proof = proof] /\ proof.at = clock
      BY <1>3, <2>2
    <2>5. OwnershipJudged(call.policy, call.env, proof)
      BY <2>3
    <2> HIDE DEF proof, new, status
    <2>6. /\ DOMAIN call' = CallFields /\ call'.proof = proof
          /\ call'.policy = call.policy /\ call'.env = call.env /\ call'.lineage = call.lineage
          /\ call'.stages = call.stages /\ call'.decision = call.decision /\ call'.answered = call.answered
      BY <2>1, <2>4 DEF CallFields
    <2>7. pc = "recheck_ownership" => call.answered \in 0 .. clock /\ proof.at >= call.answered
      <3>1. pc = "recheck_ownership" => call.answered \in 0 .. clock
        BY DEF CredInv, PlaceInv, Rechecks
      <3> QED
        BY <2>1, <2>4, <3>1
    <2>8. pc' = "commit" => FreshlyJudged(call.policy, call.lineage, call.decision, proof, call.answered, verified)
      BY <1>1, <1>3 DEF FreshlyJudged
    <2>9. PlaceInv'
      BY <1>1, <1>3, <2>5, <2>6, <2>7, <2>8 DEF CredInv, PlaceInv, Rechecks
    <2> QED
      BY <1>1, <1>3, <2>9, GoesOnInv DEF Rechecks
  <1>4. PICK signs \in BOOLEAN :
           IF ~ProofHolds(status(signs)) THEN Denied
           ELSE call' = [call EXCEPT !.proof = new(signs)] /\ pc' = next
    BY DEF CheckOwnership
  <1> HIDE DEF status, new, next
  <1> QED
    BY <1>2, <1>3, <1>4

LEMMA AnswerInv ==
    ASSUME CredInv, Approve \/ Refuse
    PROVE  CredInv'
  <1>1. pc = "wait" /\ UNCHANGED <<policy, verified, clock, reloads, committed>>
    BY DEF Approve, Refuse
  <1>2. CASE Refuse
    BY <1>1, <1>2, DeniedInv DEF Refuse
  <1>3. CASE Approve
    <2>1. pc' = "recheck_ownership" /\ call' = [call EXCEPT !.answered = clock]
      BY <1>3 DEF Approve
    <2>2. DOMAIN call = CallFields /\ clock \in 0 .. clock
      BY CredentialConstants DEF CredInv, PlaceInv, TypeOK
    <2>3. /\ DOMAIN call' = CallFields /\ call'.answered = clock
          /\ call'.policy = call.policy /\ call'.env = call.env /\ call'.lineage = call.lineage
          /\ call'.stages = call.stages /\ call'.decision = call.decision /\ call'.proof = call.proof
      BY <2>1, <2>2 DEF CallFields
    <2>4. PlaceInv'
      BY <1>1, <2>1, <2>2, <2>3 DEF CredInv, PlaceInv, Rechecks
    <2> QED
      BY <1>1, <2>1, <2>4, GoesOnInv DEF Rechecks
  <1> QED
    BY <1>2, <1>3

\* The context still holds, so it held when the lineage was judged.
LEMMA RecheckActorInv ==
    ASSUME CredInv, RecheckActor
    PROVE  CredInv'
  <1>1. pc = "recheck_actor" /\ UNCHANGED <<policy, verified, clock, reloads, committed>>
    BY DEF RecheckActor
  <1>2. CASE Denied
    BY <1>1, <1>2, DeniedInv
  <1>3. CASE /\ ~(Enabled(verified) /\ verifiedActorRequired(call.policy) /\ ~Check(verified, clock))
             /\ pc' = "commit" /\ call' = call
    <2>1. /\ call.decision = "require_approval" /\ call.answered \in 0 .. clock /\ clock \in Nat
          /\ call.proof.at >= call.answered
          /\ Enabled(call.policy.lineage) => Enabled(call.lineage) /\ call.lineage.at >= call.answered
      BY <1>1, CredentialConstants DEF CredInv, PlaceInv, Rechecks, TypeOK
    <2>2. ASSUME Enabled(call.policy.lineage), verifiedActorRequired(call.policy)
          PROVE  call.lineage.claim.actor = verified.agent
      <3>1. Enabled(verified) /\ Enabled(call.lineage)
        BY <1>1, <2>1, <2>2 DEF CredInv, PlaceInv
      <3>2. verified.sealed /\ clock < verified.until /\ verified.until \in Int
        BY <1>3, <2>2, <3>1, CredentialConstants DEF Check, CredInv, SessionInv
      <3>3. call.lineage.at \in 0 .. clock /\ call.lineage.claim.actor = IdentityAt(verified, call.lineage.at)
        BY <3>1 DEF CredInv, PlaceInv, LineageJudged
      <3>4. call.lineage.at < verified.until
        BY <2>1, <3>2, <3>3
      <3> QED
        BY <3>1, <3>2, <3>3, <3>4 DEF IdentityAt, Check
    <2>3. call.answered >= 0
      BY <2>1
    <2>4. FreshlyJudged(call.policy, call.lineage, call.decision, call.proof, call.answered, verified)
      BY <2>1, <2>2, <2>3 DEF FreshlyJudged
    <2>5. PlaceInv'
      BY <1>1, <1>3, <2>4 DEF CredInv, PlaceInv, Rechecks
    <2> QED
      BY <1>1, <1>3, <2>5, GoesOnInv DEF Rechecks
  <1> QED
    BY <1>2, <1>3 DEF RecheckActor

LEMMA CommitAuthorizationInv ==
    ASSUME CredInv, CommitAuthorization
    PROVE  CredInv'
  <1>1. /\ pc = "commit" /\ committed' = Append(committed, call) /\ Denied
        /\ UNCHANGED <<policy, verified, clock, reloads>>
    BY DEF CommitAuthorization
  <1>2. committed \in Seq(Committed) /\ Len(committed) < MaxCalls /\ MaxCalls \in Nat
    BY <1>1, CredentialConstants DEF CredInv, PlaceInv, SessionInv
  <1> DEFINE X == Committed \cup {call}
  <1>3. committed \in Seq(X) /\ call \in X
    BY <1>2
  <1>4. /\ Len(committed') = Len(committed) + 1 /\ DOMAIN committed' = 1 .. Len(committed) + 1
        /\ \A i \in 1 .. Len(committed) : committed'[i] = committed[i]
        /\ committed'[Len(committed) + 1] = call
        /\ committed' \in Seq(X)
    <2> HIDE DEF X
    <2> QED
      BY <1>1, <1>3
  <1>5. Committed' = X
    <2>1. DOMAIN committed = 1 .. Len(committed) /\ Len(committed) \in Nat
      BY <1>2
    <2> QED
      BY <1>4, <2>1 DEF Committed
  <1>6. Len(committed') <= MaxCalls
    BY <1>2, <1>4
  <1>7. Authorized(call, verified)
    BY <1>1 DEF CredInv, PlaceInv, Authorized
  <1>8. \A c \in Committed : Authorized(c, verified)
    BY DEF CredInv, SessionInv
  <1> QED
    BY <1>1, <1>4, <1>5, <1>6, <1>7, <1>8, OverInv

LEMMA CredStepInv == CredInv /\ [Next]_vars => CredInv'
  <1> SUFFICES ASSUME CredInv, [Next]_vars PROVE CredInv'
    OBVIOUS
  <1>1. CASE UNCHANGED vars
    <2>1. UNCHANGED <<policy, verified, clock, reloads, pc, call, committed>>
      BY <1>1 DEF vars
    <2>2. Committed' = Committed
      BY <2>1 DEF Committed
    <2>3. TypeOK'
      BY <2>1 DEF CredInv, TypeOK
    <2>4. PlaceInv'
      BY <2>1 DEF CredInv, PlaceInv
    <2>5. SessionInv'
      BY <2>1, <2>2 DEF CredInv, SessionInv
    <2> QED
      BY <2>3, <2>4, <2>5 DEF CredInv
  <1> QED
    BY <1>1, ReloadPolicyInv, StartInv, EvaluateInv, EvaluateLineageInv, EvaluateRulesInv, CheckOwnershipInv,
       AnswerInv, RecheckActorInv, CommitAuthorizationInv, TickInv DEF Next

LEMMA CredInvariance == Spec => []CredInv
  BY CredInitInv, CredStepInv, PTL DEF Spec

\* An approved call rests on what was found out after the answer: the proof of
\* ownership, the lineage, and the verified agent where the policy wants one
\* (authorizeToolsCall after the approval gate, for any clock and any reload).
THEOREM ApprovedAreFresh == Spec => []ApprovedOnFreshCredentials
  <1>1. CredInv => ApprovedOnFreshCredentials
    BY DEF CredInv, SessionInv, Authorized, FreshlyJudged, ApprovedOnFreshCredentials
  <1> QED
    BY <1>1, CredInvariance, PTL

\* Every stage of Engine.Evaluate is heard, in whatever order they come and however
\* many there are, and every alias of a mandate is within its list.
THEOREM RulesApplied == Spec => []RulesAreApplied
  <1>1. CredInv => NoStageIsSkipped
    BY DEF CredInv, SessionInv, Authorized, RulesJudged, FreshlyJudged, NoStageIsSkipped
  <1>2. CredInv => MandateCoversEveryAlias
    <2> SUFFICES ASSUME CredInv, NEW c \in Committed, NEW i \in DOMAIN c.policy.rules
                 PROVE  MandateKept(c.policy.rules[i], c.env.args)
      BY Zenon DEF MandateCoversEveryAlias, MandateKept
    <2> QED
      BY DEF CredInv, SessionInv, Authorized, RulesJudged
  <1> QED
    BY <1>1, <1>2, CredInvariance, PTL DEF RulesAreApplied

\* A listed endpoint is used by its owner or under exactly one grant of the owner,
\* and a policy that is loaded leaves the owner every tool it allows.
THEOREM OwnershipProven == Spec => []OwnershipHolds
  <1>1. CredInv => OwnershipIsProven
    BY DEF CredInv, SessionInv, Authorized, OwnershipJudged, Proven, OwnershipIsProven
  <1>2. CredInv => OwnerMayUseAllowed
    <2> SUFFICES ASSUME CredInv, Enabled(policy.ownership), NEW p \in policy.ownership.allowed,
                        p[1] \in DOMAIN policy.ownership.owner
                 PROVE  ProofHolds(checkCapabilityOwnership(policy.ownership,
                           [requester |-> policy.ownership.owner[p[1]], server |-> p[1], tool |-> p[2], value |-> NoScope], clock, TRUE))
      BY DEF OwnerMayUseAllowed
    <2>1. OwnershipValid(policy.ownership)
      BY DEF CredInv, TypeOK, PolicyValid
    <2> QED
      BY <2>1, OwnerMayUse
  <1> QED
    BY <1>1, <1>2, CredInvariance, PTL DEF OwnershipHolds

\* Delegation never amplifies, and every grant above the one a committed call names
\* covers the call, up to the human of the actor, for any registry the loader accepts
\* and any depth it allows (walkToRoot, Validate, NewRegistry).
THEOREM LineageIsSound == Spec => []LineageHolds
  <1>1. CredInv => NoAmplification
    <2> SUFFICES ASSUME CredInv, Enabled(policy.lineage), NEW g \in DOMAIN policy.lineage.grants,
                        policy.lineage.grants[g].parent # NoName,
                        NEW cap \in policy.lineage.grants[g].caps, NEW res \in policy.lineage.grants[g].res,
                        Delegated(policy.lineage, [actor |-> policy.lineage.grants[g].subject, grant |-> g,
                                                   cap |-> cap, res |-> res], clock)
                 PROVE  Delegated(policy.lineage, [actor |-> policy.lineage.grants[g].issuer,
                                                   grant |-> policy.lineage.grants[g].parent,
                                                   cap |-> cap, res |-> res], clock)
      BY Zenon DEF NoAmplification
    <2>1. RegistryValid(policy.lineage)
      BY DEF CredInv, TypeOK, PolicyValid
    <2> QED
      BY <2>1, NoneAmplifies
  <1>2. CredInv => EveryAncestorCovers
    <2> SUFFICES ASSUME CredInv, NEW c \in Committed, Enabled(c.lineage)
                 PROVE  Covered(c.policy.lineage, c.env.grant, c.lineage.claim.actor, c.env.cap, c.env.res, c.lineage.at)
      BY DEF EveryAncestorCovers, Covered
    <2>1. LineageJudged(c.policy, c.env, c.lineage, verified)
      BY DEF CredInv, SessionInv, Authorized
    <2>2. /\ RegistryValid(c.policy.lineage) /\ Delegated(c.policy.lineage, c.lineage.claim, c.lineage.at)
          /\ c.lineage.claim.grant = c.env.grant /\ c.lineage.claim.cap = c.env.cap /\ c.lineage.claim.res = c.env.res
      BY <2>1 DEF LineageJudged
    <2>3. Covered(c.policy.lineage, c.lineage.claim.grant, c.lineage.claim.actor, c.lineage.claim.cap,
                  c.lineage.claim.res, c.lineage.at)
      BY <2>2, DelegatedIsCovered
    <2> QED
      BY <2>2, <2>3
  <1>3. CredInv => LineageActorIsCurrent
    BY DEF CredInv, SessionInv, Authorized, LineageJudged, IdentityAt, Check, LineageActorIsCurrent
  <1>4. CredInv => TypeOK
    BY DEF CredInv
  <1> QED
    BY <1>1, <1>2, <1>3, <1>4, CredInvariance, PTL DEF LineageHolds

-----------------------------------------------------------------------------
(***************************************************************************)
(* The gate of the assertions.                                             *)
(***************************************************************************)

\* The fields a signature is over.
ClaimFields == {"key", "context", "request", "envelope", "nonce", "issued", "expires"}

\* What the key holder issues: all the claims, and a signature over them.
IsAssertion(a) ==
    /\ DOMAIN a = ClaimFields \cup {"signature"}
    /\ a.nonce \in Nat \ {0} /\ a.issued \in Int /\ a.expires \in Int
    /\ a.signature = [by |-> "k1", over |-> Claims(a)]

\* Entry e was let through on assertion a.
AdmittedBy(e, a, rt) ==
    /\ a.nonce = e.nonce /\ a.request = digest(e.request)
    /\ a.envelope = EnvelopeSHA256(e.obj, rt)
    /\ e.at < a.expires /\ a.expires - a.issued <= MaxLifetime

\* A sequence, of whatever it holds.
IsSequence(s) == s \in Seq({s[i] : i \in DOMAIN s})

\* The inductive invariant of the gate: nonces number the assertions, and the nonce of an
\* assertion that let a request through stays spent until the assertion expires.
GateInv ==
    /\ time \in 0 .. MaxClock
    /\ IsFiniteSet(signed) /\ Cardinality(signed) <= MaxSigned
    /\ \A a \in signed : IsAssertion(a) /\ a.nonce <= Cardinality(signed)
    /\ \A a, b \in signed : a.nonce = b.nonce => a = b
    /\ \A n \in nonces : n[1] \in 0 .. MaxSigned
    /\ IsSequence(admitted)
    /\ \A i \in DOMAIN admitted : \E a \in signed :
          AdmittedBy(admitted[i], a, root) /\ (time < a.expires => <<a.nonce, a.expires>> \in nonces)
    /\ \A i, j \in DOMAIN admitted : admitted[i].nonce = admitted[j].nonce => i = j

\* The claims of an assertion.
LEMMA ClaimsAre ==
    ASSUME NEW a, DOMAIN a = ClaimFields \cup {"signature"}
    PROVE  /\ DOMAIN Claims(a) = ClaimFields
           /\ \A f \in ClaimFields : Claims(a)[f] = a[f]
  <1>1. DOMAIN a \ {"signature"} = ClaimFields
    BY DEF ClaimFields
  <1> QED
    BY <1>1 DEF Claims

\* An assertion the client changed does not bear the signature of what it says.
LEMMA ChangedIsUnsigned ==
    ASSUME NEW a, IsAssertion(a), NEW f \in ClaimFields, NEW v, v # a[f]
    PROVE  LET b == [a EXCEPT ![f] = v]
           IN  \A k : b.signature # [by |-> k, over |-> Claims(b)]
  <1> DEFINE b == [a EXCEPT ![f] = v]
  <1>1. DOMAIN a = ClaimFields \cup {"signature"} /\ a.signature = [by |-> "k1", over |-> Claims(a)]
    BY DEF IsAssertion
  <1>2. DOMAIN b = ClaimFields \cup {"signature"} /\ b[f] = v
    BY <1>1
  <1>3. b.signature = a.signature
    BY <1>1 DEF ClaimFields
  <1>4. Claims(a)[f] = a[f] /\ Claims(b)[f] = v
    <2>1. Claims(a)[f] = a[f]
      BY <1>1, ClaimsAre
    <2>2. Claims(b)[f] = b[f]
      <3> HIDE DEF b
      <3> QED BY <1>2, ClaimsAre
    <2> QED BY <2>1, <2>2, <1>2
  <1>5. Claims(a) # Claims(b)
    BY <1>4
  <1> HIDE DEF b
  <1>6. \A k : b.signature # [by |-> k, over |-> Claims(b)]
    BY <1>5, <1>1, <1>3
  <1> QED
    BY <1>6 DEF b

\* Whatever is presented, what verifies is what was signed.
LEMMA VerifiedIsSigned ==
    ASSUME GateInv, NEW r, NEW a \in Presented, verifyAssertion(a, r)
    PROVE  a \in signed
  <1>1. \A b \in signed : IsAssertion(b)
    BY DEF GateInv
  <1>2. a.signature = [by |-> a.key, over |-> Claims(a)]
    BY DEF verifyAssertion
  <1>3. ASSUME NEW b \in signed, a = [b EXCEPT !.nonce = 0] PROVE FALSE
    <2>1. b.nonce # 0 /\ "nonce" \in ClaimFields
      BY <1>1 DEF IsAssertion, ClaimFields
    <2>2. \A k : a.signature # [by |-> k, over |-> Claims(a)]
      BY <2>1, <1>1, <1>3, ChangedIsUnsigned
    <2> QED BY <2>2, <1>2
  <1>4. ASSUME NEW b \in signed, a = [b EXCEPT !.expires = @ + 1] PROVE FALSE
    <2>1. b.expires \in Int /\ "expires" \in ClaimFields
      BY <1>1 DEF IsAssertion, ClaimFields
    <2> DEFINE v == b.expires + 1
    <2>2. a = [b EXCEPT !.expires = v] /\ v # b.expires
      BY <1>4, <2>1
    <2> HIDE DEF v
    <2>3. \A k : a.signature # [by |-> k, over |-> Claims(a)]
      BY <2>1, <2>2, <1>1, ChangedIsUnsigned
    <2> QED BY <2>3, <1>2
  <1> QED
    BY <1>3, <1>4 DEF Presented

LEMMA GateInit == AuthorityInit => GateInv
  <1> SUFFICES ASSUME AuthorityInit PROVE GateInv
    OBVIOUS
  <1>1. signed = {} /\ nonces = {} /\ admitted = <<>> /\ time = 0
    BY DEF AuthorityInit
  <1>2. IsFiniteSet({}) /\ Cardinality({}) = 0
    BY FS_EmptySet
  <1>3. MaxClock \in Nat /\ MaxSigned \in Nat
    BY InstructionConstants
  <1>4. IsSequence(<<>>)
    BY DEF IsSequence
  <1> QED
    BY <1>1, <1>2, <1>3, <1>4 DEF GateInv

\* A step that leaves the gate alone.
LEMMA GateUnchanged ==
    ASSUME GateInv, root' = root, UNCHANGED <<time, signed, nonces, admitted>>
    PROVE  GateInv'
  BY DEF GateInv

LEMMA SignGate ==
    ASSUME GateInv, NEW r, NEW issued \in Int, NEW life \in Int, Sign(r, issued, life)
    PROVE  GateInv'
  <1> DEFINE claims == [key |-> "k1", context |-> "here", request |-> digest(r),
                        envelope |-> EnvelopeSHA256(obj, root), nonce |-> Cardinality(signed) + 1,
                        issued |-> issued, expires |-> issued + life]
             a == [f \in DOMAIN claims \cup {"signature"} |->
                        IF f = "signature" THEN [by |-> "k1", over |-> claims] ELSE claims[f]]
             n == Cardinality(signed)
  <1>1. signed' = signed \cup {a} /\ n < MaxSigned
        /\ UNCHANGED <<root, time, nonces, admitted>>
    BY DEF Sign
  <1>2. IsFiniteSet(signed) /\ n \in Nat /\ MaxSigned \in Nat
    BY FS_CardinalityType, InstructionConstants DEF GateInv
  <1>3. DOMAIN claims = ClaimFields
    BY DEF ClaimFields
  <1>4. DOMAIN a = ClaimFields \cup {"signature"} /\ a.signature = [by |-> "k1", over |-> claims]
        /\ \A f \in ClaimFields : a[f] = claims[f]
    <2> HIDE DEF claims
    <2> QED BY <1>3 DEF ClaimFields
  <1>5. a.nonce = n + 1 /\ a.issued = issued /\ a.expires = issued + life
    BY <1>4 DEF ClaimFields
  <1>6. Claims(a) = claims
    <2>1. claims = [f \in ClaimFields |-> claims[f]]
      BY <1>3
    <2>2. DOMAIN a \ {"signature"} = ClaimFields
      BY <1>4 DEF ClaimFields
    <2> HIDE DEF claims, a
    <2>3. Claims(a) = [f \in ClaimFields |-> a[f]]
      BY <2>2 DEF Claims
    <2> QED BY <2>1, <2>3, <1>4
  <1>7. IsAssertion(a)
    <2>1. a.nonce \in Nat \ {0} /\ a.issued \in Int /\ a.expires \in Int
      <3> HIDE DEF a, claims, n
      <3> QED BY <1>2, <1>5
    <2> HIDE DEF a, claims, n
    <2> QED BY <1>4, <1>6, <2>1 DEF IsAssertion
  <1> HIDE DEF a, claims
  <1>8. \A b \in signed : IsAssertion(b) /\ b.nonce <= n /\ b.nonce \in Nat
    BY DEF GateInv, IsAssertion
  <1>9. a \notin signed
    BY <1>5, <1>8, <1>2
  <1>10. IsFiniteSet(signed') /\ Cardinality(signed') = n + 1
    BY <1>1, <1>2, <1>9, FS_AddElement
  <1>11. \A b \in signed' : IsAssertion(b) /\ b.nonce <= Cardinality(signed')
    BY <1>1, <1>2, <1>5, <1>7, <1>8, <1>10
  <1>12. \A b, c \in signed' : b.nonce = c.nonce => b = c
    <2>1. \A b, c \in signed : b.nonce = c.nonce => b = c
      BY DEF GateInv
    <2> QED BY <2>1, <1>1, <1>2, <1>5, <1>8
  <1>14. n + 1 <= MaxSigned
    BY <1>1, <1>2
  <1>16. Cardinality(signed') <= MaxSigned
    BY <1>10, <1>14
  <1>17. \A i \in DOMAIN admitted' : \E b \in signed' :
            AdmittedBy(admitted'[i], b, root') /\ (time' < b.expires => <<b.nonce, b.expires>> \in nonces')
    BY <1>1 DEF GateInv
  <1> QED
    BY <1>1, <1>10, <1>11, <1>12, <1>16, <1>17 DEF GateInv

LEMMA TimePassesGate ==
    ASSUME GateInv, TimePasses
    PROVE  GateInv'
  <1>1. time < MaxClock /\ time' = time + 1 /\ UNCHANGED <<root, signed, nonces, admitted>>
    BY DEF TimePasses
  <1>3. MaxClock \in Nat
    BY InstructionConstants
  <1>4. time' \in 0 .. MaxClock /\ time \in Nat
    BY <1>1, <1>3 DEF GateInv
  <1>5. \A a \in signed : a.expires \in Int
    BY DEF GateInv, IsAssertion
  <1>6. \A i \in DOMAIN admitted' : \E b \in signed' :
            AdmittedBy(admitted'[i], b, root') /\ (time' < b.expires => <<b.nonce, b.expires>> \in nonces')
    <2> SUFFICES ASSUME NEW i \in DOMAIN admitted
                 PROVE  \E b \in signed : AdmittedBy(admitted[i], b, root)
                                          /\ (time' < b.expires => <<b.nonce, b.expires>> \in nonces)
      BY <1>1
    <2>1. PICK b \in signed : AdmittedBy(admitted[i], b, root) /\ (time < b.expires => <<b.nonce, b.expires>> \in nonces)
      BY DEF GateInv
    <2>2. time' < b.expires => time < b.expires
      BY <1>1, <1>4, <1>5
    <2> QED BY <2>1, <2>2
  <1> QED
    BY <1>1, <1>4, <1>6 DEF GateInv

LEMMA ToolsCallGate ==
    ASSUME GateInv, NEW r, NEW a \in Presented, ToolsCall(r, a)
    PROVE  GateInv'
  <1> DEFINE holds == verifyAssertion(a, r)
             fresh == \A n \in Kept : n[1] # a.nonce
             e == [request |-> r, obj |-> obj, nonce |-> a.nonce, at |-> time]
  <1>1. /\ nonces' = IF ~holds THEN nonces ELSE IF fresh THEN Kept \cup {<<a.nonce, a.expires>>} ELSE Kept
        /\ admitted' = IF holds /\ fresh /\ Authorize(obj, root) THEN Append(admitted, e) ELSE admitted
        /\ UNCHANGED <<root, time, signed>>
    BY DEF ToolsCall
  <1>3. CASE ~holds
    <2>1. nonces' = nonces /\ admitted' = admitted
      BY <1>1, <1>3
    <2> QED BY <2>1, <1>1, GateUnchanged
  <1>4. CASE holds
    <2>1. a \in signed
      BY <1>4, VerifiedIsSigned
    <2>2. /\ IsAssertion(a) /\ a.nonce <= Cardinality(signed) /\ a.nonce \in Nat \ {0}
          /\ a.expires \in Int /\ a.issued \in Int
      BY <2>1 DEF GateInv, IsAssertion
    <2>3. Cardinality(signed) \in Nat /\ MaxSigned \in Nat /\ Cardinality(signed) <= MaxSigned
      BY FS_CardinalityType, InstructionConstants DEF GateInv
    <2>4. a.nonce \in 0 .. MaxSigned
      BY <2>2, <2>3
    <2>5. \A n \in nonces' : n[1] \in 0 .. MaxSigned
      BY <2>4, <1>1 DEF GateInv, Kept
    <2>6. \A n \in nonces : time < n[2] => n \in nonces'
      <3>1. \A n \in nonces : time < n[2] => n \in Kept
        BY DEF Kept
      <3> QED BY <3>1, <1>1
    <2>7. \A i \in DOMAIN admitted : \E b \in signed :
             AdmittedBy(admitted[i], b, root) /\ (time < b.expires => <<b.nonce, b.expires>> \in nonces')
      <3> SUFFICES ASSUME NEW i \in DOMAIN admitted
                   PROVE  \E b \in signed : AdmittedBy(admitted[i], b, root)
                                            /\ (time < b.expires => <<b.nonce, b.expires>> \in nonces')
        OBVIOUS
      <3>1. PICK b \in signed : AdmittedBy(admitted[i], b, root) /\ (time < b.expires => <<b.nonce, b.expires>> \in nonces)
        BY DEF GateInv
      <3>2. <<b.nonce, b.expires>>[2] = b.expires
        OBVIOUS
      <3> QED BY <3>1, <3>2, <2>6
    <2>8. CASE ~(fresh /\ Authorize(obj, root))
      <3>1. admitted' = admitted
        BY <1>1, <2>8
      <3> QED BY <3>1, <1>1, <2>5, <2>7 DEF GateInv
    <2>9. CASE fresh /\ Authorize(obj, root)
      <3>1. admitted' = Append(admitted, e) /\ <<a.nonce, a.expires>> \in nonces'
        BY <1>1, <1>4, <2>9
      <3>2. AdmittedBy(e, a, root)
        BY <1>4 DEF AdmittedBy, verifyAssertion
      <3>3. admitted \in Seq({admitted[i] : i \in DOMAIN admitted})
        BY DEF GateInv, IsSequence
      <3> DEFINE R == {admitted[i] : i \in DOMAIN admitted} \cup {e}
      <3>4. admitted \in Seq(R) /\ e \in R
        BY <3>3, SeqMonotonic
      <3> HIDE DEF R, e
      <3>5. /\ admitted' \in Seq(R) /\ Len(admitted') = Len(admitted) + 1
            /\ admitted'[Len(admitted) + 1] = e
            /\ \A i \in 1 .. Len(admitted) : admitted'[i] = admitted[i]
        BY <3>1, <3>4, AppendProperties
      <3>6. DOMAIN admitted = 1 .. Len(admitted) /\ DOMAIN admitted' = 1 .. Len(admitted) + 1
            /\ Len(admitted) \in Nat
        BY <3>4, <3>5, LenProperties
      <3>7. \A i \in DOMAIN admitted' : i \in DOMAIN admitted \/ i = Len(admitted) + 1
        BY <3>6
      <3>8. \A i \in DOMAIN admitted' : \E b \in signed' :
               AdmittedBy(admitted'[i], b, root') /\ (time' < b.expires => <<b.nonce, b.expires>> \in nonces')
        <4> SUFFICES ASSUME NEW i \in DOMAIN admitted'
                     PROVE  \E b \in signed : AdmittedBy(admitted'[i], b, root)
                                              /\ (time < b.expires => <<b.nonce, b.expires>> \in nonces')
          BY <1>1
        <4>1. CASE i \in DOMAIN admitted
          <5>1. admitted'[i] = admitted[i]
            BY <4>1, <3>5, <3>6
          <5> QED BY <5>1, <4>1, <2>7
        <4>2. CASE i = Len(admitted) + 1
          <5>1. admitted'[i] = e
            BY <4>2, <3>5
          <5> QED BY <5>1, <3>1, <3>2, <2>1
        <4> QED BY <4>1, <4>2, <3>7
      <3>9. \A i \in DOMAIN admitted : admitted[i].nonce # a.nonce
        <4> SUFFICES ASSUME NEW i \in DOMAIN admitted, admitted[i].nonce = a.nonce PROVE FALSE
          OBVIOUS
        <4>1. PICK b \in signed : AdmittedBy(admitted[i], b, root) /\ (time < b.expires => <<b.nonce, b.expires>> \in nonces)
          BY DEF GateInv
        <4>2. b = a
          BY <4>1, <2>1 DEF AdmittedBy, GateInv
        <4>3. time < a.expires
          BY <1>4 DEF verifyAssertion
        <4>4. <<a.nonce, a.expires>> \in nonces
          BY <4>1, <4>2, <4>3
        <4>5. <<a.nonce, a.expires>> \in Kept
          <5>1. time \in Int
            BY DEF GateInv
          <5> QED BY <4>3, <4>4, <5>1, <2>2 DEF Kept
        <4> QED BY <4>5, <2>9
      <3>10. e.nonce = a.nonce
        BY DEF e
      <3>11. \A i, j \in DOMAIN admitted' : admitted'[i].nonce = admitted'[j].nonce => i = j
        <4> SUFFICES ASSUME NEW i \in DOMAIN admitted', NEW j \in DOMAIN admitted',
                            admitted'[i].nonce = admitted'[j].nonce
                     PROVE  i = j
          OBVIOUS
        <4>1. \A k \in DOMAIN admitted : admitted'[k] = admitted[k]
          BY <3>5, <3>6
        <4>2. CASE i \in DOMAIN admitted /\ j \in DOMAIN admitted
          BY <4>1, <4>2 DEF GateInv
        <4>3. CASE i = Len(admitted) + 1 /\ j \in DOMAIN admitted
          BY <4>1, <4>3, <3>5, <3>9, <3>10
        <4>4. CASE j = Len(admitted) + 1 /\ i \in DOMAIN admitted
          BY <4>1, <4>4, <3>5, <3>9, <3>10
        <4> QED BY <4>2, <4>3, <4>4, <3>7
      <3>12. IsSequence(admitted')
        BY <3>5, <3>6, LenProperties, ElementOfSeq DEF IsSequence
      <3> QED BY <1>1, <2>5, <3>8, <3>11, <3>12 DEF GateInv
    <2> QED BY <2>8, <2>9
  <1> QED BY <1>3, <1>4

LEMMA GateStep == GateInv /\ [AuthorityNext]_authorityVars => GateInv'
  <1> SUFFICES ASSUME GateInv, [AuthorityNext]_authorityVars PROVE GateInv'
    OBVIOUS
  <1>0. time \in Int /\ MaxLifetime \in Int /\ FutureSkew \in Int
    BY InstructionConstants DEF GateInv
  <1>1. ASSUME NEW t \in Transforms, Transform(t) PROVE GateInv'
    BY <1>1, GateUnchanged DEF Transform, gateVars
  <1>2. CASE Tamper
    BY <1>2, GateUnchanged DEF Tamper, gateVars
  <1>3. ASSUME NEW p \in Promoters, NEW l, ChangeRegistry(p, l) PROVE GateInv'
    BY <1>3, GateUnchanged DEF ChangeRegistry, gateVars
  <1>4. ASSUME NEW life \in {MaxLifetime, MaxLifetime + 1}, Sign(SignedFor, time, life) PROVE GateInv'
    <2>1. life \in Int
      BY <1>4, <1>0
    <2> QED BY <2>1, <1>4, <1>0, SignGate
  <1>5. CASE Sign(SignedFor, time + FutureSkew + 1, MaxLifetime)
    <2>1. time + FutureSkew + 1 \in Int
      BY <1>0
    <2> QED BY <2>1, <1>5, <1>0, SignGate
  <1>6. ASSUME NEW r \in Requests, NEW a \in Presented, ToolsCall(r, a) PROVE GateInv'
    BY <1>6, ToolsCallGate
  <1>7. CASE TimePasses
    BY <1>7, TimePassesGate
  <1>8. CASE ReloadKeys
    BY <1>8, GateUnchanged DEF ReloadKeys
  <1>9. CASE UNCHANGED authorityVars
    BY <1>9, GateUnchanged DEF authorityVars, gateVars
  <1>10. ASSUME NEW p \in Promoters, NEW l, Forge(p, l) PROVE GateInv'
    BY <1>10, GateUnchanged DEF Forge, gateVars
  <1> QED
    BY <1>1, <1>2, <1>3, <1>4, <1>5, <1>6, <1>7, <1>8, <1>9, <1>10 DEF AuthorityNext

LEMMA GateInvariance == AuthoritySpec => []GateInv
  BY GateInit, GateStep, PTL DEF AuthoritySpec

\* Whatever the client presents and however often, a request is let through only on an
\* assertion signed for it and for the object as it stands, that had not expired, and an
\* assertion lets one request through (consumeInstructionAuthorityNonce,
\* verifyInstructionAuthorityAssertion).
THEOREM AdmittedAsSigned == AuthoritySpec => []AdmittedOnceAsSigned
  <1>1. GateInv => AdmittedOnceAsSigned
    BY DEF GateInv, AdmittedOnceAsSigned, AdmittedBy
  <1> QED
    BY <1>1, GateInvariance, PTL

-----------------------------------------------------------------------------
(***************************************************************************)
(* The fold of a history, hop by hop.                                      *)
(***************************************************************************)

ProvFields == {"origin", "authority", "lineage", "stage", "sha", "parentSha", "attempted", "requested",
               "promoter", "continuity", "digestFailure"}

\* The recursion of foldTrace.
IsTrace(p, origin, hops, n) ==
    p = [i \in 0 .. n |-> IF i = 0 THEN Genesis(origin) ELSE foldHop(p[i - 1], hops, i)]

LEMMA TraceIs ==
    ASSUME NEW p, NEW origin, NEW hops, NEW n \in Nat, IsTrace(p, origin, hops, n)
    PROVE  /\ DOMAIN p = 0 .. n /\ p[0] = Genesis(origin)
           /\ \A i \in 1 .. n : p[i] = foldHop(p[i - 1], hops, i)
  <1> DEFINE F(g) == [i \in 0 .. n |-> IF i = 0 THEN Genesis(origin) ELSE foldHop(g[i - 1], hops, i)]
  <1>1. p = F(p)
    BY DEF IsTrace
  <1>2. \A g : DOMAIN F(g) = 0 .. n /\ F(g)[0] = Genesis(origin)
    OBVIOUS
  <1>3. \A g : \A i \in 1 .. n : F(g)[i] = foldHop(g[i - 1], hops, i)
    OBVIOUS
  <1> HIDE DEF F
  <1> QED
    BY <1>1, <1>2, <1>3

LEMMA TraceExists ==
    ASSUME NEW origin, NEW hops, NEW n \in Nat
    PROVE  \E p : IsTrace(p, origin, hops, n)
  <1> DEFINE S == {k \in Nat : \E p : IsTrace(p, origin, hops, k)}
  <1>1. 0 \in S
    <2> DEFINE p == [i \in 0 .. 0 |-> Genesis(origin)]
    <2>1. p = [i \in 0 .. 0 |-> IF i = 0 THEN Genesis(origin) ELSE foldHop(p[i - 1], hops, i)]
      OBVIOUS
    <2>2. IsTrace(p, origin, hops, 0)
      BY <2>1 DEF IsTrace
    <2> QED
      BY <2>2
  <1>2. ASSUME NEW k \in Nat, k \in S PROVE k + 1 \in S
    <2>1. PICK p : IsTrace(p, origin, hops, k)
      BY <1>2
    <2>2. /\ DOMAIN p = 0 .. k /\ p[0] = Genesis(origin)
          /\ \A i \in 1 .. k : p[i] = foldHop(p[i - 1], hops, i)
      BY <2>1, TraceIs
    <2> DEFINE last == foldHop(p[k], hops, k + 1)
               g == [i \in 0 .. k + 1 |-> IF i = k + 1 THEN last ELSE p[i]]
    <2> HIDE DEF last
    <2>3. \A i \in 0 .. k : g[i] = p[i]
      OBVIOUS
    <2>4. g[k + 1] = last
      OBVIOUS
    <2>5. \A i \in 0 .. k + 1 : g[i] = IF i = 0 THEN Genesis(origin) ELSE foldHop(g[i - 1], hops, i)
      <3> TAKE i \in 0 .. k + 1
      <3>1. CASE i = 0
        BY <2>2, <2>3, <3>1
      <3>2. CASE i \in 1 .. k
        <4>1. i - 1 \in 0 .. k
          BY <3>2
        <4> HIDE DEF g
        <4> QED
          BY <2>2, <2>3, <3>2, <4>1
      <3>3. CASE i = k + 1
        <4>1. g[i - 1] = p[k] /\ i # 0
          BY <2>3, <3>3
        <4> HIDE DEF g
        <4> QED
          BY <2>4, <3>3, <4>1 DEF last
      <3> QED
        BY <3>1, <3>2, <3>3
    <2>6. IsTrace(g, origin, hops, k + 1)
      <3>1. g = [i \in 0 .. k + 1 |-> g[i]]
        OBVIOUS
      <3> HIDE DEF g
      <3> QED
        BY <2>5, <3>1 DEF IsTrace
    <2> QED
      BY <2>6
  <1>3. Nat \subseteq S
    <2> HIDE DEF S
    <2> QED
      BY <1>1, <1>2, NatSetInduction
  <1> QED
    BY <1>3

\* The equations of foldTrace.
LEMMA FoldTraceIs ==
    ASSUME NEW origin, NEW hops, Len(hops) \in Nat
    PROVE  LET p == foldTrace(origin, hops)
           IN  /\ p[0] = Genesis(origin)
               /\ \A i \in 1 .. Len(hops) : p[i] = foldHop(p[i - 1], hops, i)
  <1> DEFINE q == CHOOSE p : IsTrace(p, origin, hops, Len(hops))
  <1>1. IsTrace(q, origin, hops, Len(hops))
    BY TraceExists
  <1>2. foldTrace(origin, hops) = q
    BY DEF foldTrace, IsTrace
  <1> HIDE DEF q
  <1> QED
    BY <1>1, <1>2, TraceIs

\* What one hop does to the provenance p, that it makes r.
HopMakes(p, hops, i, r) ==
    /\ DOMAIN r = ProvFields /\ r.origin = p.origin
    /\ r.digestFailure = (p.digestFailure \/ DigestBroken(hops, i))
    /\ p.continuity = "FAILED" => r.continuity = "FAILED"
    /\ hops[i].req # NoLevel /\ ~hops[i].valid => r.continuity = "FAILED"
    /\ \/ r.authority = p.authority
       \/ ~DigestBroken(hops, i) /\ Grants(hops[i]) /\ r.authority = hops[i].req

LEMMA HopIs ==
    ASSUME NEW p, DOMAIN p = ProvFields, p.digestFailure \in BOOLEAN, NEW hops, NEW i
    PROVE  HopMakes(p, hops, i, foldHop(p, hops, i))
  <1> DEFINE h == hops[i]
             q == beginHop(p, h, IF i = 1 THEN h.parent ELSE hops[i - 1].sha)
             r == foldHop(p, hops, i)
             choice == (CHOOSE e \in h.endorse : TRUE).promoter
             m == [q.lineage EXCEPT ![Len(q.lineage)] = h.req]
             broken == DigestBroken(hops, i)
  <1>1. /\ DOMAIN q = ProvFields /\ q.origin = p.origin /\ q.digestFailure = p.digestFailure
        /\ q.continuity = p.continuity /\ q.authority = p.authority
    BY DEF beginHop, ProvFields
  <1>2. r = IF broken THEN [q EXCEPT !.continuity = "FAILED", !.digestFailure = TRUE]
            ELSE IF q.continuity = "FAILED" \/ h.req = NoLevel THEN q
            ELSE IF ~Grants(h) THEN [q EXCEPT !.continuity = "FAILED"]
            ELSE [q EXCEPT !.authority = h.req, !.promoter = choice, !.continuity = "PASS", !.lineage = m]
    BY Zenon DEF foldHop
  <1>3. Grants(h) => h.valid
    BY DEF Grants
  <1> HIDE DEF q, r, choice, m, broken
  <1>4. CASE broken
    <2>1. r = [q EXCEPT !.continuity = "FAILED", !.digestFailure = TRUE]
      BY <1>2, <1>4
    <2>2. DOMAIN r = ProvFields /\ r.origin = q.origin /\ r.authority = q.authority
          /\ r.continuity = "FAILED" /\ r.digestFailure = TRUE
      BY <2>1, <1>1 DEF ProvFields
    <2> QED BY <2>2, <1>1, <1>4 DEF r, broken, HopMakes
  <1>5. CASE ~broken /\ (q.continuity = "FAILED" \/ h.req = NoLevel)
    <2>1. r = q
      BY <1>2, <1>5
    <2> QED BY <2>1, <1>1, <1>5 DEF r, broken, HopMakes
  <1>6. CASE ~broken /\ q.continuity # "FAILED" /\ h.req # NoLevel /\ ~Grants(h)
    <2>1. r = [q EXCEPT !.continuity = "FAILED"]
      BY <1>2, <1>6
    <2>2. DOMAIN r = ProvFields /\ r.origin = q.origin /\ r.authority = q.authority
          /\ r.continuity = "FAILED" /\ r.digestFailure = q.digestFailure
      BY <2>1, <1>1 DEF ProvFields
    <2> QED BY <2>2, <1>1, <1>6 DEF r, broken, HopMakes
  <1>7. CASE ~broken /\ q.continuity # "FAILED" /\ h.req # NoLevel /\ Grants(h)
    <2>1. r = [q EXCEPT !.authority = h.req, !.promoter = choice, !.continuity = "PASS", !.lineage = m]
      BY <1>2, <1>7
    <2>2. DOMAIN r = ProvFields /\ r.origin = q.origin /\ r.authority = h.req
          /\ r.digestFailure = q.digestFailure
      BY <2>1, <1>1 DEF ProvFields
    <2> QED BY <2>2, <1>1, <1>3, <1>7 DEF r, broken, HopMakes
  <1> QED
    BY <1>4, <1>5, <1>6, <1>7

\* What the fold has learnt after n hops, when it is at p: it stays what a hop made it.
Learnt(origin, hops, n, p) ==
    /\ DOMAIN p = ProvFields /\ p.origin = origin
    /\ p.digestFailure = (\E i \in 1 .. n : DigestBroken(hops, i))
    /\ (\E i \in 1 .. n : hops[i].req # NoLevel /\ ~hops[i].valid) => p.continuity = "FAILED"
    /\ \/ p.authority = ceilingForTrust(origin)
       \/ \E i \in 1 .. n : ~DigestBroken(hops, i) /\ Grants(hops[i]) /\ p.authority = hops[i].req

LEMMA FoldLearns ==
    ASSUME NEW origin, NEW hops, Len(hops) \in Nat
    PROVE  \A n \in 0 .. Len(hops) : Learnt(origin, hops, n, foldTrace(origin, hops)[n])
  <1> DEFINE T == foldTrace(origin, hops)
             S == {n \in Nat : n <= Len(hops) => Learnt(origin, hops, n, T[n])}
  <1>1. T[0] = Genesis(origin) /\ \A i \in 1 .. Len(hops) : T[i] = foldHop(T[i - 1], hops, i)
    BY FoldTraceIs
  <1> HIDE DEF T
  <1>2. 0 \in S
    <2>1. /\ DOMAIN T[0] = ProvFields /\ T[0].origin = origin /\ T[0].digestFailure = FALSE
          /\ T[0].authority = ceilingForTrust(origin)
      BY <1>1 DEF Genesis, ProvFields
    <2>2. \A i \in 1 .. 0 : FALSE
      OBVIOUS
    <2>3. Learnt(origin, hops, 0, T[0])
      BY <2>1, <2>2, Zenon DEF Learnt
    <2> QED BY <2>3
  <1>3. ASSUME NEW n \in Nat, n \in S PROVE n + 1 \in S
    <2> SUFFICES ASSUME n + 1 <= Len(hops) PROVE Learnt(origin, hops, n + 1, T[n + 1])
      OBVIOUS
    <2>0. Learnt(origin, hops, n, T[n])
      BY <1>3
    <2>1. /\ DOMAIN T[n] = ProvFields /\ T[n].origin = origin
          /\ T[n].digestFailure = (\E i \in 1 .. n : DigestBroken(hops, i))
          /\ (\E i \in 1 .. n : hops[i].req # NoLevel /\ ~hops[i].valid) => T[n].continuity = "FAILED"
          /\ \/ T[n].authority = ceilingForTrust(origin)
             \/ \E i \in 1 .. n : ~DigestBroken(hops, i) /\ Grants(hops[i]) /\ T[n].authority = hops[i].req
      BY <2>0, Zenon DEF Learnt
    <2>2. n + 1 \in 1 .. Len(hops) /\ (n + 1) - 1 = n
      OBVIOUS
    <2>3. T[n + 1] = foldHop(T[n], hops, n + 1)
      BY <1>1, <2>2
    <2> DEFINE k == n + 1
    <2>4. DOMAIN T[n] = ProvFields /\ T[n].digestFailure \in BOOLEAN
      BY <2>1, Zenon
    <2>5. \A j : j \in 1 .. k <=> j \in 1 .. n \/ j = k
      OBVIOUS
    <2>6. T[k] = foldHop(T[n], hops, k)
      BY <2>3
    <2> HIDE DEF k
    <2>7. /\ DOMAIN T[k] = ProvFields /\ T[k].origin = T[n].origin
          /\ T[k].digestFailure = (T[n].digestFailure \/ DigestBroken(hops, k))
          /\ T[n].continuity = "FAILED" => T[k].continuity = "FAILED"
          /\ hops[k].req # NoLevel /\ ~hops[k].valid => T[k].continuity = "FAILED"
          /\ \/ T[k].authority = T[n].authority
             \/ ~DigestBroken(hops, k) /\ Grants(hops[k]) /\ T[k].authority = hops[k].req
      <3> DEFINE P == T[n]
      <3>1. DOMAIN P = ProvFields /\ P.digestFailure \in BOOLEAN
        BY <2>4
      <3>2. T[k] = foldHop(P, hops, k)
        BY <2>6
      <3> HIDE DEF P
      <3>3. HopMakes(P, hops, k, T[k])
        BY <3>1, <3>2, HopIs
      <3>4. /\ DOMAIN T[k] = ProvFields /\ T[k].origin = P.origin
            /\ T[k].digestFailure = (P.digestFailure \/ DigestBroken(hops, k))
            /\ P.continuity = "FAILED" => T[k].continuity = "FAILED"
            /\ hops[k].req # NoLevel /\ ~hops[k].valid => T[k].continuity = "FAILED"
            /\ \/ T[k].authority = P.authority
               \/ ~DigestBroken(hops, k) /\ Grants(hops[k]) /\ T[k].authority = hops[k].req
        BY <3>3, Zenon DEF HopMakes
      <3> QED BY <3>4, Zenon DEF P
    <2>8. T[k].digestFailure = (\E i \in 1 .. k : DigestBroken(hops, i))
      BY <2>1, <2>5, <2>7, Zenon
    <2>9. (\E i \in 1 .. k : hops[i].req # NoLevel /\ ~hops[i].valid) => T[k].continuity = "FAILED"
      BY <2>1, <2>5, <2>7, Zenon
    <2>10. \/ T[k].authority = ceilingForTrust(origin)
           \/ \E i \in 1 .. k : ~DigestBroken(hops, i) /\ Grants(hops[i]) /\ T[k].authority = hops[i].req
      BY <2>1, <2>5, <2>7, Zenon
    <2>11. Learnt(origin, hops, k, T[k])
      BY <2>1, <2>7, <2>8, <2>9, <2>10, Zenon DEF Learnt
    <2> QED BY <2>11 DEF k
  <1>4. Nat \subseteq S
    <2> HIDE DEF S
    <2> QED BY <1>2, <1>3, NatSetInduction
  <1>5. \A n \in 0 .. Len(hops) : Learnt(origin, hops, n, T[n])
    BY <1>4
  <1> QED
    BY <1>5 DEF T

\* The fold of the first n hops reads no other hop.
LEMMA HopIsLocal ==
    ASSUME NEW p, NEW a, NEW b, NEW i \in Nat \ {0}, a[i] = b[i], i > 1 => a[i - 1] = b[i - 1]
    PROVE  foldHop(p, a, i) = foldHop(p, b, i) /\ (DigestBroken(a, i) <=> DigestBroken(b, i))
  <1>1. DigestBroken(a, i) <=> DigestBroken(b, i)
    BY DEF DigestBroken
  <1>2. (IF i = 1 THEN a[i].parent ELSE a[i - 1].sha) = (IF i = 1 THEN b[i].parent ELSE b[i - 1].sha)
    OBVIOUS
  <1> DEFINE Begun(h, run) == beginHop(p, h, run)
             Bad(q) == [q EXCEPT !.continuity = "FAILED", !.digestFailure = TRUE]
             Good(h, q) == IF q.continuity = "FAILED" \/ h.req = NoLevel THEN q
                           ELSE IF ~Grants(h) THEN [q EXCEPT !.continuity = "FAILED"]
                           ELSE [q EXCEPT !.authority = h.req, !.promoter = (CHOOSE e \in h.endorse : TRUE).promoter,
                                          !.continuity = "PASS", !.lineage = [@ EXCEPT ![Len(@)] = h.req]]
             run(s) == IF i = 1 THEN s[i].parent ELSE s[i - 1].sha
  <1>3. \A s : foldHop(p, s, i) = IF DigestBroken(s, i) THEN Bad(Begun(s[i], run(s)))
                                 ELSE Good(s[i], Begun(s[i], run(s)))
    BY Zenon DEF foldHop
  <1>4. run(a) = run(b)
    BY <1>2
  <1> HIDE DEF Begun, Bad, Good, run
  <1>5. foldHop(p, a, i) = foldHop(p, b, i)
    BY <1>1, <1>3, <1>4
  <1> QED
    BY <1>1, <1>5

LEMMA TraceIsLocal ==
    ASSUME NEW origin, NEW a, NEW b, Len(a) \in Nat, Len(b) \in Nat,
           NEW n \in Nat, n <= Len(a), n <= Len(b), \A i \in 1 .. n : a[i] = b[i]
    PROVE  \A i \in 0 .. n : foldTrace(origin, a)[i] = foldTrace(origin, b)[i]
  <1> DEFINE A == foldTrace(origin, a)
             B == foldTrace(origin, b)
             S == {k \in Nat : k <= n => A[k] = B[k]}
  <1>1. A[0] = Genesis(origin) /\ \A i \in 1 .. Len(a) : A[i] = foldHop(A[i - 1], a, i)
    BY FoldTraceIs
  <1>2. B[0] = Genesis(origin) /\ \A i \in 1 .. Len(b) : B[i] = foldHop(B[i - 1], b, i)
    BY FoldTraceIs
  <1> HIDE DEF A, B
  <1>3. 0 \in S
    BY <1>1, <1>2
  <1>4. ASSUME NEW k \in Nat, k \in S PROVE k + 1 \in S
    <2> SUFFICES ASSUME k + 1 <= n PROVE A[k + 1] = B[k + 1]
      OBVIOUS
    <2> DEFINE m == k + 1
    <2>1. A[k] = B[k] /\ m \in 1 .. Len(a) /\ m \in 1 .. Len(b) /\ m \in 1 .. n /\ m - 1 = k /\ m \in Nat \ {0}
      BY <1>4
    <2>2. m > 1 => m - 1 \in 1 .. n
      BY <2>1
    <2> HIDE DEF m
    <2>3. A[m] = foldHop(A[k], a, m) /\ B[m] = foldHop(B[k], b, m)
      BY <1>1, <1>2, <2>1
    <2>4. foldHop(A[k], a, m) = foldHop(A[k], b, m)
      BY <2>1, <2>2, HopIsLocal
    <2> QED BY <2>1, <2>3, <2>4 DEF m
  <1>5. Nat \subseteq S
    <2> HIDE DEF S
    <2> QED BY <1>3, <1>4, NatSetInduction
  <1> QED
    BY <1>5 DEF A, B

-----------------------------------------------------------------------------
(***************************************************************************)
(* The stored object and the hops the transformations recorded.            *)
(***************************************************************************)

HopFields == {"content", "sha", "parent", "from", "stage", "req", "endorse", "valid", "ceiling", "parentHop", "digest"}

IsHop(h) == DOMAIN h = HopFields /\ h = [f \in HopFields |-> h[f]]

Named(h) == \A e \in h.endorse : e.promoter \in Promoters

\* A hop as a transformation records it: a promotion in it was granted by an
\* endorsement, and is among the authorities er.
RecordedHop(h, er) ==
    /\ IsHop(h) /\ h.digest = hopDigest(h)
    /\ h.valid => Grants(h) /\ h.req \in er

\* A hop as it is stored keeps the digest it was recorded with, in M.
StoredHop(h, M) == \E m \in M : h.digest = m.digest

\* Hop i of H, under root rt, is linked to what it was made from.
LinkedHop(H, i, rt) ==
    /\ H[i].sha = digest(H[i].content) /\ H[i].digest = hopDigest(H[i])
    /\ H[i].parent = IF i = 1 THEN rt.sha ELSE H[i - 1].sha
    /\ H[i].parentHop = IF i = 1 THEN rt.sha ELSE H[i - 1].digest
    /\ H[i].valid => H[i].endorse # {}

\* The verdict of hop i is the one the first registry gives.
Judged(H, i, rt) ==
    H[i].valid = (\E e \in H[i].endorse :
                     validEndorsement(e, H[i], foldTrace(rt.origin, H)[i - 1].authority, Registry))

IsObject(ob) ==
    /\ ob = [content |-> ob.content, bearing |-> ob.bearing, history |-> ob.history, prov |-> ob.prov]
    /\ ob.content \in Contents
    /\ IsSequence(ob.history) /\ Len(ob.history) <= MaxHistoryHops + 1
    /\ \A i \in 1 .. Len(ob.history) : IsHop(ob.history[i]) /\ Named(ob.history[i])

\* The object as the transformations left it: linked from the root to the content, the
\* verdicts those of the first registry unless it changed, a refusal rf among the hops.
Untouched(ob, rt, ch, rf) ==
    /\ \A i \in 1 .. Len(ob.history) : LinkedHop(ob.history, i, rt)
    /\ digest(ob.content) = IF Len(ob.history) = 0 THEN rt.sha ELSE ob.history[Len(ob.history)].sha
    /\ Len(ob.history) <= MaxHistoryHops =>
          ob.prov = IF Len(ob.history) = 0 THEN OriginProvenance(rt.origin, "origin", rt.sha)
                    ELSE foldTrace(rt.origin, ob.history)[Len(ob.history)]
    /\ ~ch => \A i \in 1 .. Len(ob.history) : Judged(ob.history, i, rt)
    /\ rf => \E i \in 1 .. Len(ob.history) : ob.history[i].req # NoLevel /\ ~ob.history[i].valid

RootInv(rt, er) ==
    /\ rt.bearing \in BOOLEAN /\ rt.sha = digest(rt.sha.sha)
    /\ ceilingForTrust(rt.origin) \in er /\ er \subseteq Levels

\* The inductive invariant.
AuthorityInv ==
    /\ GateInv
    /\ RootInv(root, earned)
    /\ IsObject(obj)
    /\ registry \in [Promoters -> Levels \cup {NoLevel}] /\ (~changed => registry = Registry)
    /\ tampers \in 0 .. MaxTampers
    /\ \A m \in made : RecordedHop(m, earned)
    /\ ~forged => \A i \in 1 .. Len(obj.history) : StoredHop(obj.history[i], made)
    /\ tampers = 0 => Untouched(obj, root, changed, refused)

\* A sequence of any elements.
LEMMA SequenceIs ==
    ASSUME NEW s, IsSequence(s)
    PROVE  /\ s \in Seq({s[i] : i \in DOMAIN s})
           /\ Len(s) \in Nat /\ DOMAIN s = 1 .. Len(s)
           /\ (s = <<>> <=> Len(s) = 0)
  <1>1. s \in Seq({s[i] : i \in DOMAIN s})
    BY DEF IsSequence
  <1> QED
    BY <1>1, LenProperties, EmptySeq

LEMMA SequenceOf ==
    ASSUME NEW S, NEW s \in Seq(S)
    PROVE  IsSequence(s)
  <1>1. Len(s) \in Nat /\ DOMAIN s = 1 .. Len(s)
    BY LenProperties
  <1>2. \A i \in 1 .. Len(s) : s[i] \in {s[j] : j \in DOMAIN s}
    BY <1>1
  <1> QED
    BY <1>1, <1>2 DEF IsSequence

\* One more element.
LEMMA AppendIs ==
    ASSUME NEW s, IsSequence(s), NEW e
    PROVE  /\ IsSequence(Append(s, e)) /\ Len(Append(s, e)) = Len(s) + 1
           /\ Append(s, e)[Len(s) + 1] = e
           /\ \A i \in 1 .. Len(s) : Append(s, e)[i] = s[i]
  <1> DEFINE S == {s[i] : i \in DOMAIN s} \cup {e}
             t == Append(s, e)
  <1>1. s \in Seq(S) /\ e \in S /\ Len(s) \in Nat
    <2> DEFINE R == {s[i] : i \in DOMAIN s}
    <2>1. s \in Seq(R) /\ Len(s) \in Nat
      BY SequenceIs
    <2>2. R \subseteq S /\ e \in S
      OBVIOUS
    <2> HIDE DEF R, S
    <2> QED BY <2>1, <2>2, SeqMonotonic
  <1> HIDE DEF S
  <1>2. /\ t \in Seq(S) /\ Len(t) = Len(s) + 1 /\ t[Len(s) + 1] = e
        /\ \A i \in 1 .. Len(s) : t[i] = s[i]
    BY <1>1, AppendProperties
  <1> HIDE DEF t
  <1>3. IsSequence(t)
    BY <1>2, SequenceOf
  <1> QED
    BY <1>2, <1>3 DEF t

\* Another element at the place i.
LEMMA ReplaceIs ==
    ASSUME NEW s, IsSequence(s), NEW i \in 1 .. Len(s), NEW e
    PROVE  LET r == [s EXCEPT ![i] = e]
           IN  IsSequence(r) /\ Len(r) = Len(s) /\ \A k \in 1 .. Len(s) : r[k] = IF k = i THEN e ELSE s[k]
  <1> DEFINE R == {s[k] : k \in DOMAIN s}
             S == R \cup {e}
             r == [s EXCEPT ![i] = e]
  <1>1. s \in Seq(R) /\ R \subseteq S /\ e \in S /\ Len(s) \in Nat
    BY SequenceIs
  <1> HIDE DEF R, S
  <1>2. s \in Seq(S)
    BY <1>1, SeqMonotonic
  <1>3. r \in Seq(S) /\ Len(r) = Len(s) /\ \A k \in 1 .. Len(s) : r[k] = IF k = i THEN e ELSE s[k]
    BY <1>1, <1>2, ExceptSeq
  <1> HIDE DEF r
  <1>4. IsSequence(r)
    BY <1>3, SequenceOf
  <1> QED
    BY <1>3, <1>4 DEF r

\* A hop digest says every other field of the hop.
LEMMA DigestSays ==
    ASSUME NEW g, NEW h, IsHop(g), IsHop(h), hopDigest(g) = hopDigest(h)
    PROVE  /\ \A f \in HopFields \ {"digest"} : g[f] = h[f]
           /\ g.digest = h.digest => g = h
  <1> DEFINE F == HopFields \ {"digest"}
  <1>1. [f \in F |-> g[f]] = [f \in F |-> h[f]]
    <2>1. hopDigest(g).hop = [f \in F |-> g[f]] /\ hopDigest(h).hop = [f \in F |-> h[f]]
      BY DEF hopDigest, IsHop
    <2> QED BY <2>1
  <1>2. \A f \in F : g[f] = h[f]
    <2> TAKE f \in F
    <2>1. [x \in F |-> g[x]][f] = g[f] /\ [x \in F |-> h[x]][f] = h[f]
      OBVIOUS
    <2> QED BY <2>1, <1>1
  <1>3. ASSUME g.digest = h.digest PROVE g = h
    <2>1. \A f \in HopFields : g[f] = h[f]
      BY <1>2, <1>3
    <2> QED BY <2>1 DEF IsHop
  <1> QED
    BY <1>2, <1>3

\* No content has the digest of a hop, and contents differ by their digests.
LEMMA DigestsApart ==
    /\ \A c, h : digest(c) # hopDigest(h)
    /\ \A c, d : digest(c) = digest(d) => c = d
  <1>1. ASSUME NEW c, NEW h PROVE digest(c) # hopDigest(h)
    <2> DEFINE m == [f \in DOMAIN h \ {"digest"} |-> h[f]]
    <2> HIDE DEF m
    <2>1. DOMAIN [sha |-> c] = {"sha"} /\ DOMAIN [hop |-> m] = {"hop"}
      OBVIOUS
    <2>2. [sha |-> c] # [hop |-> m]
      BY <2>1
    <2> QED BY <2>2 DEF digest, hopDigest, m
  <1>2. ASSUME NEW c, NEW d, digest(c) = digest(d) PROVE c = d
    <2>1. digest(c).sha = c /\ digest(d).sha = d
      BY DEF digest
    <2> QED BY <2>1, <1>2
  <1> QED
    BY <1>1, <1>2

\* What NewHop records.
LEMMA NewHopIs ==
    ASSUME NEW o, o.content \in Contents, NEW t \in Transforms,
           NEW reg \in [Promoters -> Levels \cup {NoLevel}]
    PROVE  LET h == NewHop(o, t, reg)
           IN  /\ IsHop(h) /\ Named(h) /\ h.content = t.content /\ h.sha = digest(t.content) /\ h.req = t.req
               /\ h.parent = digest(o.content)
               /\ h.parentHop = IF o.history = <<>> THEN digest(o.content) ELSE o.history[Len(o.history)].digest
               /\ h.digest = hopDigest(h)
               /\ h.valid = (\E e \in h.endorse : validEndorsement(e, h, o.prov.authority, reg))
               /\ h.valid => /\ Grants(h) /\ t.req \in Levels
                             /\ \E x \in t.endorse : t.req = x.grant /\ x.bound /\ x.grant <= reg[x.promoter]
  <1> DEFINE bound == {[promoter |-> e.promoter, grant |-> e.grant, stage |-> t.stage,
                        parent |-> IF e.bound THEN digest(o.content) ELSE digest(Elsewhere),
                        child |-> digest(t.content)] : e \in t.endorse}
             seen == IF bound = {} THEN NoLevel ELSE reg[(CHOOSE e \in bound : TRUE).promoter]
             last == IF o.history = <<>> THEN digest(o.content) ELSE o.history[Len(o.history)].digest
             hop == [content |-> t.content, sha |-> digest(t.content), parent |-> digest(o.content),
                     from |-> o.prov.stage, stage |-> t.stage, req |-> t.req, endorse |-> bound, valid |-> FALSE,
                     ceiling |-> seen, parentHop |-> last, digest |-> Unset]
             verdict == \E e \in bound : validEndorsement(e, hop, o.prov.authority, reg)
             judged == [hop EXCEPT !.valid = verdict]
             h == [judged EXCEPT !.digest = hopDigest(judged)]
  <1>1. NewHop(o, t, reg) = h
    BY Zenon DEF NewHop
  <1>2. /\ t.content \in Contents /\ t.req \in Levels \cup {NoLevel}
        /\ \A e \in t.endorse : e.promoter \in Promoters /\ e.bound \in BOOLEAN
        /\ \A e, f \in t.endorse : e = f
        /\ Elsewhere \notin Contents
    BY InstructionConstants
  <1>3. \A e \in bound : \E x \in t.endorse :
           /\ e.promoter = x.promoter /\ e.grant = x.grant
           /\ e.parent = IF x.bound THEN digest(o.content) ELSE digest(Elsewhere)
    OBVIOUS
  <1>4. \A e, f \in bound : e = f
    BY <1>2
  <1> HIDE DEF bound
  <1>5. \A e \in bound : seen = reg[e.promoter]
    <2> SUFFICES ASSUME NEW e \in bound PROVE seen = reg[e.promoter]
      OBVIOUS
    <2>1. (CHOOSE x \in bound : TRUE) \in bound
      OBVIOUS
    <2> QED BY <2>1, <1>4
  <1> HIDE DEF seen, last
  <1>6. /\ DOMAIN hop = HopFields /\ hop.content = t.content /\ hop.sha = digest(t.content) /\ hop.req = t.req
        /\ hop.parent = digest(o.content) /\ hop.parentHop = last /\ hop.endorse = bound /\ hop.ceiling = seen
        /\ hop.stage = t.stage
    BY DEF HopFields
  <1> HIDE DEF hop
  <1>7. verdict \in BOOLEAN
    BY Zenon
  <1> HIDE DEF verdict
  <1>8. /\ DOMAIN judged = HopFields /\ judged.valid = verdict
        /\ \A f \in HopFields \ {"valid"} : judged[f] = hop[f]
    BY <1>6 DEF HopFields
  <1> HIDE DEF judged
  <1>9. /\ DOMAIN h = HopFields /\ h.digest = hopDigest(judged)
        /\ \A f \in HopFields \ {"digest"} : h[f] = judged[f]
        /\ h = [f \in HopFields |-> h[f]]
    BY <1>8 DEF HopFields
  <1> HIDE DEF h
  <1>10. h.digest = hopDigest(h)
    <2> DEFINE F == HopFields \ {"digest"}
    <2>1. [f \in F |-> h[f]] = [f \in F |-> judged[f]]
      BY <1>9
    <2>2. hopDigest(h) = [hop |-> [f \in F |-> h[f]]] /\ hopDigest(judged) = [hop |-> [f \in F |-> judged[f]]]
      BY <1>8, <1>9, Zenon DEF hopDigest
    <2> QED BY <2>1, <2>2, <1>9
  <1>11. /\ h.content = t.content /\ h.sha = digest(t.content) /\ h.req = t.req
         /\ h.parent = digest(o.content) /\ h.parentHop = last /\ h.endorse = bound /\ h.ceiling = seen
         /\ h.stage = t.stage /\ h.valid = verdict
    BY <1>6, <1>8, <1>9 DEF HopFields
  <1>12. \A e : validEndorsement(e, h, o.prov.authority, reg) <=> validEndorsement(e, hop, o.prov.authority, reg)
    BY <1>6, <1>11 DEF validEndorsement
  <1>13. h.valid = (\E e \in h.endorse : validEndorsement(e, h, o.prov.authority, reg))
    BY <1>11, <1>12, Zenon DEF verdict
  <1>14. ASSUME verdict
         PROVE  /\ Grants(h) /\ t.req \in Levels
                /\ \E x \in t.endorse : t.req = x.grant /\ x.bound /\ x.grant <= reg[x.promoter]
    <2>1. PICK e \in bound : validEndorsement(e, hop, o.prov.authority, reg)
      BY <1>14 DEF verdict
    <2>2. PICK x \in t.endorse : /\ e.promoter = x.promoter /\ e.grant = x.grant
                                 /\ e.parent = IF x.bound THEN digest(o.content) ELSE digest(Elsewhere)
      BY <1>3
    <2>3. t.req # NoLevel /\ e.grant = t.req /\ e.parent = digest(o.content)
          /\ reg[e.promoter] # NoLevel /\ e.grant <= reg[e.promoter]
      BY <2>1, <1>6 DEF validEndorsement
    <2>4. t.req \in Levels /\ reg[e.promoter] \in Levels
      BY <2>2, <2>3, <1>2
    <2>5. digest(o.content) # digest(Elsewhere)
      BY <1>2, DigestsApart
    <2>6. x.bound
      BY <2>2, <2>3, <2>5, <1>2
    <2>7. seen = reg[e.promoter]
      BY <1>5
    <2>8. Grants(h)
      BY <2>3, <2>4, <2>7, <1>11, <1>14 DEF Grants
    <2> QED BY <2>2, <2>3, <2>4, <2>6, <2>8
  <1>15. IsHop(h) /\ Named(h)
    BY <1>2, <1>3, <1>9, <1>11 DEF IsHop, Named
  <1> QED
    BY <1>1, <1>10, <1>11, <1>13, <1>14, <1>15, Zenon DEF last

\* What a transformation does: the history is a hop longer, the hop is recorded.
LEMMA TransformInv ==
    ASSUME AuthorityInv, NEW t \in Transforms, Transform(t)
    PROVE  AuthorityInv'
  <1> DEFINE hop == NewHop(obj, t, registry)
             H == obj.history
             n == Len(H)
             G == Append(H, hop)
  <1>1. /\ obj' = ApplyTransform(obj, t, registry) /\ obj' # obj
        /\ made' = made \cup {hop}
        /\ earned' = earned \cup {e.grant : e \in {x \in t.endorse :
                        t.req # NoLevel /\ t.req = x.grant /\ x.bound /\ x.grant <= registry[x.promoter]}}
        /\ refused' = (refused \/ (t.req # NoLevel /\ ~hop.valid))
        /\ UNCHANGED <<root, registry, changed, tampers, forged, time, signed, nonces, admitted>>
    BY DEF Transform, gateVars
  <1>2. /\ RootInv(root, earned) /\ IsObject(obj)
        /\ registry \in [Promoters -> Levels \cup {NoLevel}] /\ (~changed => registry = Registry)
        /\ GateInv /\ tampers \in 0 .. MaxTampers
        /\ \A m \in made : RecordedHop(m, earned)
        /\ ~forged => \A i \in 1 .. n : StoredHop(H[i], made)
        /\ tampers = 0 => Untouched(obj, root, changed, refused)
    BY DEF AuthorityInv
  <1>3. /\ IsSequence(H) /\ n <= MaxHistoryHops + 1 /\ obj.content \in Contents
        /\ \A i \in 1 .. n : IsHop(H[i]) /\ Named(H[i])
    BY <1>2 DEF IsObject
  <1>4. n \in Nat /\ MaxHistoryHops \in Nat /\ (H = <<>> <=> n = 0)
    BY <1>3, SequenceIs, InstructionConstants
  <1>5. n <= MaxHistoryHops
    BY <1>1, <1>4 DEF ApplyTransform
  <1>6. obj' = [content |-> t.content, bearing |-> obj.bearing, history |-> G,
                prov |-> fold(obj.prov.origin, obj.prov.stage, G)]
    BY <1>1, <1>4, <1>5 DEF ApplyTransform
  <1>7. /\ IsHop(hop) /\ Named(hop)
        /\ hop.content = t.content /\ hop.sha = digest(t.content) /\ hop.req = t.req
        /\ hop.parent = digest(obj.content)
        /\ hop.parentHop = IF obj.history = <<>> THEN digest(obj.content) ELSE obj.history[Len(obj.history)].digest
        /\ hop.digest = hopDigest(hop)
        /\ hop.valid = (\E e \in hop.endorse : validEndorsement(e, hop, obj.prov.authority, registry))
        /\ hop.valid => /\ Grants(hop) /\ t.req \in Levels
                        /\ \E x \in t.endorse : t.req = x.grant /\ x.bound /\ x.grant <= registry[x.promoter]
    <2>1. obj.content \in Contents /\ registry \in [Promoters -> Levels \cup {NoLevel}]
      BY <1>2, <1>3
    <2>2. ASSUME NEW o, o.content \in Contents
          PROVE  LET h == NewHop(o, t, registry)
                 IN  /\ IsHop(h) /\ Named(h) /\ h.content = t.content /\ h.sha = digest(t.content) /\ h.req = t.req
                     /\ h.parent = digest(o.content)
                     /\ h.parentHop = IF o.history = <<>> THEN digest(o.content) ELSE o.history[Len(o.history)].digest
                     /\ h.digest = hopDigest(h)
                     /\ h.valid = (\E e \in h.endorse : validEndorsement(e, h, o.prov.authority, registry))
                     /\ h.valid => /\ Grants(h) /\ t.req \in Levels
                                   /\ \E x \in t.endorse : t.req = x.grant /\ x.bound /\ x.grant <= registry[x.promoter]
      BY <2>1, <2>2, NewHopIs
    <2> QED BY <2>1, <2>2, Zenon
  <1> HIDE DEF hop
  <1>8. /\ IsSequence(G) /\ Len(G) = n + 1 /\ G[n + 1] = hop
        /\ \A i \in 1 .. n : G[i] = H[i]
    BY <1>3, AppendIs
  <1>9. /\ obj'.content = t.content /\ obj'.bearing = obj.bearing /\ obj'.history = G
        /\ obj'.prov = fold(obj.prov.origin, obj.prov.stage, G)
    BY <1>6
  <1> HIDE DEF G, H
  <1>10. earned \subseteq earned' /\ earned' \subseteq Levels /\ (hop.valid => hop.req \in earned')
    <2>1. t.req \in Levels \cup {NoLevel} /\ earned \subseteq Levels
      BY <1>2, InstructionConstants DEF RootInv
    <2>2. earned' \subseteq Levels /\ earned \subseteq earned'
      BY <2>1, <1>1
    <2>3. ASSUME hop.valid PROVE hop.req \in earned'
      <3>1. PICK x \in t.endorse : t.req = x.grant /\ x.bound /\ x.grant <= registry[x.promoter]
        BY <1>7, <2>3
      <3>2. t.req \in Levels
        BY <1>7, <2>3, Zenon
      <3>3. t.req # NoLevel
        BY <3>2 DEF Levels, NoLevel
      <3> QED BY <3>1, <3>3, <1>1, <1>7
    <2> QED BY <2>2, <2>3
  <1>11. \A i \in 1 .. n + 1 : i \in 1 .. n \/ i = n + 1
    BY <1>4
  <1>12. \A m \in made' : RecordedHop(m, earned')
    <2>1. RecordedHop(hop, earned')
      BY <1>7, <1>10 DEF RecordedHop
    <2>2. \A m \in made : RecordedHop(m, earned')
      BY <1>2, <1>10 DEF RecordedHop
    <2> QED BY <2>1, <2>2, <1>1
  <1>13. IsObject(obj')
    <2>1. t.content \in Contents
      BY InstructionConstants
    <2>2. \A i \in 1 .. n + 1 : IsHop(G[i]) /\ Named(G[i])
      BY <1>3, <1>7, <1>8, <1>11
    <2>3. Len(G) <= MaxHistoryHops + 1
      BY <1>4, <1>5, <1>8
    <2>4. obj' = [content |-> obj'.content, bearing |-> obj'.bearing, history |-> obj'.history, prov |-> obj'.prov]
      BY <1>6
    <2> QED BY <2>1, <2>2, <2>3, <2>4, <1>8, <1>9 DEF IsObject
  <1>14. ~forged' => \A i \in 1 .. Len(obj'.history) : StoredHop(obj'.history[i], made')
    <2> SUFFICES ASSUME ~forged, NEW i \in 1 .. n + 1 PROVE StoredHop(G[i], made')
      BY <1>1, <1>8, <1>9
    <2>1. CASE i \in 1 .. n
      <3>1. StoredHop(H[i], made)
        BY <2>1, <1>2 DEF H
      <3> QED BY <3>1, <2>1, <1>1, <1>8 DEF StoredHop
    <2>2. CASE i = n + 1
      BY <2>2, <1>1, <1>8 DEF StoredHop
    <2> QED BY <2>1, <2>2, <1>11
  <1>15. ASSUME tampers = 0 PROVE Untouched(obj', root, changed, refused')
    <2>1. /\ \A i \in 1 .. n : LinkedHop(H, i, root)
          /\ digest(obj.content) = IF n = 0 THEN root.sha ELSE H[n].sha
          /\ obj.prov = IF n = 0 THEN OriginProvenance(root.origin, "origin", root.sha)
                        ELSE foldTrace(root.origin, H)[n]
          /\ ~changed => \A i \in 1 .. n : Judged(H, i, root)
          /\ refused => \E i \in 1 .. n : H[i].req # NoLevel /\ ~H[i].valid
      BY <1>2, <1>5, <1>15, Zenon DEF Untouched, H
    <2>2. obj.prov.origin = root.origin /\ obj.prov.authority = foldTrace(root.origin, H)[n].authority
      <3>1. CASE n = 0
        <4>1. obj.prov.origin = root.origin /\ obj.prov.authority = ceilingForTrust(root.origin)
          BY <2>1, <3>1 DEF OriginProvenance, Genesis
        <4>2. foldTrace(root.origin, H)[0] = Genesis(root.origin)
          BY <1>4, FoldTraceIs
        <4>3. foldTrace(root.origin, H)[0].authority = ceilingForTrust(root.origin)
          BY <4>2 DEF Genesis
        <4> QED BY <3>1, <4>1, <4>3
      <3>2. CASE n # 0
        <4>1. n \in 0 .. Len(H)
          BY <1>4
        <4>2. Learnt(root.origin, H, n, foldTrace(root.origin, H)[n])
          BY <4>1, <1>4, FoldLearns
        <4>3. foldTrace(root.origin, H)[n].origin = root.origin
          BY <4>2, Zenon DEF Learnt
        <4> QED BY <2>1, <3>2, <4>3
      <3> QED BY <3>1, <3>2
    <2>3. \A i \in 1 .. n + 1 : LinkedHop(G, i, root)
      <3> SUFFICES ASSUME NEW i \in 1 .. n + 1 PROVE LinkedHop(G, i, root)
        OBVIOUS
      <3>1. CASE i \in 1 .. n
        <4>1. G[i] = H[i] /\ LinkedHop(H, i, root)
          BY <3>1, <2>1, <1>8
        <4>2. i # 1 => G[i - 1] = H[i - 1]
          BY <3>1, <1>4, <1>8
        <4> QED BY <4>1, <4>2 DEF LinkedHop
      <3>2. CASE i = n + 1
        <4>1. G[i] = hop
          BY <3>2, <1>8
        <4>2. n # 0 => G[i - 1] = H[n]
          BY <3>2, <1>4, <1>8
        <4>3. i = 1 <=> n = 0
          BY <3>2, <1>4
        <4>4. hop.parent = IF i = 1 THEN root.sha ELSE G[i - 1].sha
          BY <4>2, <4>3, <2>1, <1>7
        <4>5. hop.parentHop = IF i = 1 THEN root.sha ELSE G[i - 1].digest
          <5>1. hop.parentHop = IF H = <<>> THEN digest(obj.content) ELSE H[n].digest
            BY <1>7 DEF H
          <5> QED BY <5>1, <4>2, <4>3, <2>1, <1>4
        <4>6. hop.valid => hop.endorse # {}
          BY <1>7, Zenon
        <4>7. hop.sha = digest(hop.content) /\ hop.digest = hopDigest(hop)
          BY <1>7
        <4> QED BY <4>1, <4>4, <4>5, <4>6, <4>7, Zenon DEF LinkedHop
      <3> QED BY <3>1, <3>2, <1>11
    <2>4. ~changed => \A i \in 1 .. n + 1 : Judged(G, i, root)
      <3> SUFFICES ASSUME ~changed, NEW i \in 1 .. n + 1 PROVE Judged(G, i, root)
        OBVIOUS
      <3>1. \A k \in 0 .. n : foldTrace(root.origin, G)[k] = foldTrace(root.origin, H)[k]
        <4>1. n <= Len(G) /\ n <= Len(H) /\ Len(G) \in Nat /\ \A j \in 1 .. n : G[j] = H[j]
          BY <1>4, <1>8
        <4> QED BY <4>1, <1>4, TraceIsLocal
      <3>2. CASE i \in 1 .. n
        <4>1. G[i] = H[i] /\ Judged(H, i, root)
          BY <3>2, <2>1, <1>8
        <4>2. i - 1 \in 0 .. n
          BY <3>2, <1>4
        <4>3. foldTrace(root.origin, G)[i - 1] = foldTrace(root.origin, H)[i - 1]
          BY <4>2, <3>1
        <4> QED BY <4>1, <4>3, Zenon DEF Judged
      <3>3. CASE i = n + 1
        <4>1. G[i] = hop /\ i - 1 = n /\ n \in 0 .. n
          BY <3>3, <1>4, <1>8
        <4>2. foldTrace(root.origin, G)[i - 1].authority = obj.prov.authority
          BY <4>1, <3>1, <2>2
        <4>3. registry = Registry
          BY <1>2
        <4> QED BY <4>1, <4>2, <4>3, <1>7, Zenon DEF Judged
      <3> QED BY <3>2, <3>3, <1>11
    <2>5. refused' => \E i \in 1 .. n + 1 : G[i].req # NoLevel /\ ~G[i].valid
      <3>1. CASE refused
        <4>1. PICK i \in 1 .. n : H[i].req # NoLevel /\ ~H[i].valid
          BY <3>1, <2>1
        <4>2. i \in 1 .. n + 1 /\ G[i] = H[i]
          BY <4>1, <1>4, <1>8
        <4> QED BY <4>1, <4>2
      <3>2. CASE t.req # NoLevel /\ ~hop.valid
        <4>1. n + 1 \in 1 .. n + 1
          BY <1>4
        <4> QED BY <4>1, <3>2, <1>7, <1>8
      <3> QED BY <3>1, <3>2, <1>1
    <2>6. digest(obj'.content) = IF n + 1 = 0 THEN root.sha ELSE G[n + 1].sha
      BY <1>4, <1>7, <1>8, <1>9
    <2>7. n + 1 <= MaxHistoryHops =>
             obj'.prov = IF n + 1 = 0 THEN OriginProvenance(root.origin, "origin", root.sha)
                         ELSE foldTrace(root.origin, G)[n + 1]
      <3> SUFFICES ASSUME n + 1 <= MaxHistoryHops PROVE obj'.prov = foldTrace(root.origin, G)[n + 1]
        BY <1>4
      <3>1. ~(Len(G) > MaxHistoryHops)
        BY <1>4, <1>8
      <3>2. fold(obj.prov.origin, obj.prov.stage, G) = foldTrace(obj.prov.origin, G)[Len(G)]
        BY <3>1, Zenon DEF fold
      <3> QED BY <3>2, <2>2, <1>8, <1>9
    <2>8. obj'.history = G /\ Len(obj'.history) = n + 1
      BY <1>8, <1>9
    <2> QED BY <2>3, <2>4, <2>5, <2>6, <2>7, <2>8, Zenon DEF Untouched
  <1>16. RootInv(root, earned')
    BY <1>2, <1>10 DEF RootInv
  <1>17. GateInv'
    BY <1>1, <1>2, GateUnchanged
  <1> QED
    BY <1>1, <1>2, <1>12, <1>13, <1>14, <1>15, <1>16, <1>17 DEF AuthorityInv

\* An edit of the stored object: an object again and, if no digest is made anew, one whose
\* hops keep the digests they had.
LEMMA EditInv ==
    ASSUME AuthorityInv, tampers < MaxTampers, tampers' = tampers + 1, IsObject(obj'),
           UNCHANGED <<root, registry, changed, made, earned, refused, time, signed, nonces, admitted>>,
           ~forged' => ~forged /\ \A i \in 1 .. Len(obj'.history) :
                                     \E k \in 1 .. Len(obj.history) : obj'.history[i].digest = obj.history[k].digest
    PROVE  AuthorityInv'
  <1>1. tampers \in 0 .. MaxTampers /\ MaxTampers \in Nat
    BY InstructionConstants DEF AuthorityInv
  <1>2. tampers' # 0 /\ tampers' \in 0 .. MaxTampers
    BY <1>1
  <1>3. ~forged' => \A i \in 1 .. Len(obj'.history) : StoredHop(obj'.history[i], made')
    <2>1. ~forged => \A i \in 1 .. Len(obj.history) : StoredHop(obj.history[i], made)
      BY DEF AuthorityInv
    <2> QED BY <2>1 DEF StoredHop
  <1>4. GateInv'
    BY GateUnchanged DEF AuthorityInv
  <1> QED
    BY <1>2, <1>3, <1>4 DEF AuthorityInv

\* An edit that keeps the digests.
LEMMA TamperEdit ==
    ASSUME AuthorityInv, Tamper, IsObject(obj'),
           \A i \in 1 .. Len(obj'.history) :
              \E k \in 1 .. Len(obj.history) : obj'.history[i].digest = obj.history[k].digest
    PROVE  AuthorityInv'
  <1>1. /\ tampers < MaxTampers /\ tampers' = tampers + 1 /\ forged' = forged
        /\ UNCHANGED <<root, registry, changed, made, earned, refused, time, signed, nonces, admitted>>
    BY DEF Tamper, gateVars
  <1> QED
    BY <1>1, EditInv

\* Another hop at the place i of the history.
LEMMA HopReplaced ==
    ASSUME NEW o, IsObject(o), NEW i \in 1 .. Len(o.history), NEW h, IsHop(h), Named(h), NEW q, NEW v,
           v = [o EXCEPT !.history = [o.history EXCEPT ![i] = h], !.prov = q]
    PROVE  /\ IsObject(v) /\ Len(v.history) = Len(o.history)
           /\ \A k \in 1 .. Len(o.history) : v.history[k] = IF k = i THEN h ELSE o.history[k]
  <1> DEFINE s == o.history
             r == [s EXCEPT ![i] = h]
  <1>1. /\ IsSequence(s) /\ Len(s) <= MaxHistoryHops + 1
        /\ o = [content |-> o.content, bearing |-> o.bearing, history |-> o.history, prov |-> o.prov]
        /\ \A k \in 1 .. Len(s) : IsHop(s[k]) /\ Named(s[k])
    BY DEF IsObject
  <1>2. IsSequence(r) /\ Len(r) = Len(s) /\ \A k \in 1 .. Len(s) : r[k] = IF k = i THEN h ELSE s[k]
    BY <1>1, ReplaceIs
  <1> HIDE DEF r
  <1>3. v = [o EXCEPT !.history = r, !.prov = q]
    BY DEF r
  <1>4. /\ v.history = r /\ v.content = o.content
        /\ v = [content |-> v.content, bearing |-> v.bearing, history |-> v.history, prov |-> v.prov]
    BY <1>1, <1>3
  <1>5. \A k \in 1 .. Len(r) : IsHop(r[k]) /\ Named(r[k])
    BY <1>1, <1>2
  <1>6. IsObject(v)
    BY <1>1, <1>2, <1>4, <1>5 DEF IsObject
  <1> QED
    BY <1>2, <1>4, <1>6

\* An edit of a hop, other than of its digest.
LEMMA HopEdit ==
    ASSUME AuthorityInv, Tamper, NEW i \in DOMAIN obj.history, NEW e, IsHop(e), Named(e), e.digest = obj.history[i].digest,
           NEW r, r = [obj.history EXCEPT ![i] = e], obj'.history = r, obj'.content = obj.content,
           obj' = [content |-> obj'.content, bearing |-> obj'.bearing, history |-> obj'.history, prov |-> obj'.prov]
    PROVE  AuthorityInv'
  <1>1. /\ IsSequence(obj.history) /\ Len(obj.history) <= MaxHistoryHops + 1 /\ obj.content \in Contents
        /\ \A k \in 1 .. Len(obj.history) : IsHop(obj.history[k]) /\ Named(obj.history[k])
    BY DEF AuthorityInv, IsObject
  <1>2. Len(obj.history) \in Nat /\ i \in 1 .. Len(obj.history)
    BY <1>1, SequenceIs
  <1>3. /\ IsSequence(r) /\ Len(r) = Len(obj.history)
        /\ \A k \in 1 .. Len(obj.history) : r[k] = IF k = i THEN e ELSE obj.history[k]
    <2>1. ASSUME NEW s, IsSequence(s), i \in 1 .. Len(s)
          PROVE  LET w == [s EXCEPT ![i] = e]
                 IN  IsSequence(w) /\ Len(w) = Len(s) /\ \A k \in 1 .. Len(s) : w[k] = IF k = i THEN e ELSE s[k]
      BY <2>1, ReplaceIs
    <2> QED BY <1>1, <1>2, <2>1, Zenon
  <1>4. \A k \in 1 .. Len(r) : IsHop(r[k]) /\ Named(r[k])
    BY <1>1, <1>3
  <1>5. \A k \in 1 .. Len(obj'.history) : \E j \in 1 .. Len(obj.history) : obj'.history[k].digest = obj.history[j].digest
    BY <1>2, <1>3
  <1>6. IsObject(obj')
    BY <1>1, <1>3, <1>4 DEF IsObject
  <1> QED
    BY <1>5, <1>6, TamperEdit

\* An edit of one field of a hop.
LEMMA FieldEdit ==
    ASSUME NEW h, IsHop(h), Named(h), NEW f \in HopFields \ {"digest"}, NEW v, f = "endorse" => v = {}
    PROVE  LET e == [h EXCEPT ![f] = v] IN IsHop(e) /\ Named(e) /\ e.digest = h.digest
  <1> DEFINE e == [h EXCEPT ![f] = v]
  <1>1. DOMAIN h = HopFields /\ {"digest", "endorse"} \subseteq HopFields
    BY DEF IsHop, HopFields
  <1>2. DOMAIN e = HopFields /\ e = [x \in HopFields |-> e[x]] /\ e.digest = h.digest
    BY <1>1
  <1>3. e.endorse = h.endorse \/ e.endorse = {}
    BY <1>1
  <1> HIDE DEF e
  <1>4. Named(e)
    BY <1>3 DEF Named
  <1> QED
    BY <1>2, <1>4 DEF IsHop, e

LEMMA TamperInv ==
    ASSUME AuthorityInv, Tamper
    PROVE  AuthorityInv'
  <1>0. IsObject(obj) /\ IsSequence(obj.history)
    BY DEF AuthorityInv, IsObject
  <1>1. Len(obj.history) \in Nat /\ DOMAIN obj.history = 1 .. Len(obj.history)
    BY <1>0, SequenceIs
  <1>2. \A k \in 1 .. Len(obj.history) : IsHop(obj.history[k]) /\ Named(obj.history[k])
    BY <1>0 DEF IsObject
  <1>3. ASSUME NEW i \in DOMAIN obj.history, NEW f \in HopFields \ {"digest"}, NEW v, f = "endorse" => v = {},
               obj' = [obj EXCEPT !.history[i][f] = v]
        PROVE  AuthorityInv'
    <2> DEFINE e == [obj.history[i] EXCEPT ![f] = v]
    <2>1. obj = [content |-> obj.content, bearing |-> obj.bearing, history |-> obj.history, prov |-> obj.prov]
      BY <1>0 DEF IsObject
    <2>2. /\ obj'.history = [obj.history EXCEPT ![i] = e] /\ obj'.content = obj.content
          /\ obj' = [content |-> obj'.content, bearing |-> obj'.bearing, history |-> obj'.history, prov |-> obj'.prov]
      BY <1>3, <2>1
    <2>3. IsHop(e) /\ Named(e) /\ e.digest = obj.history[i].digest
      BY <1>1, <1>2, <1>3, FieldEdit
    <2> HIDE DEF e
    <2> QED BY <2>2, <2>3, <1>3, HopEdit, Zenon
  <1>4. {"valid", "req", "ceiling", "endorse"} \subseteq HopFields \ {"digest"}
    BY DEF HopFields
  <1>5. ASSUME NEW i \in DOMAIN obj.history,
               obj' = [obj EXCEPT !.history = SubSeq(@, 1, i - 1) \o SubSeq(@, i + 1, Len(@))]
        PROVE  AuthorityInv'
    <2> DEFINE s == obj.history
               S == {s[k] : k \in DOMAIN s}
               a == SubSeq(s, 1, i - 1)
               b == SubSeq(s, i + 1, Len(s))
               r == a \o b
    <2>1. s \in Seq(S) /\ i \in 1 .. Len(s) /\ Len(s) \in Nat
      BY <1>0, <1>1, SequenceIs
    <2>2. \A k \in 1 .. Len(s) : s[k] \in S
      BY <1>1
    <2>3. obj' = [obj EXCEPT !.history = r]
      BY <1>5
    <2>4. \A x \in S : \E k \in 1 .. Len(s) : x = s[k]
      BY <1>1
    <2> HIDE DEF S
    <2>5. a \in Seq(S) /\ Len(a) = i - 1
      <3>1. \A k \in 1 .. i - 1 : s[k] \in S
        BY <2>1, <2>2
      <3>2. a \in Seq(S) /\ Len(a) = IF 1 <= i - 1 THEN i - 1 - 1 + 1 ELSE 0
        BY <2>1, <3>1, SubSeqProperties
      <3> HIDE DEF a
      <3> QED BY <3>2, <2>1
    <2>6. b \in Seq(S) /\ Len(b) = Len(s) - i
      <3>1. \A k \in i + 1 .. Len(s) : s[k] \in S
        BY <2>1, <2>2
      <3>2. b \in Seq(S) /\ Len(b) = IF i + 1 <= Len(s) THEN Len(s) - (i + 1) + 1 ELSE 0
        BY <2>1, <3>1, SubSeqProperties
      <3> HIDE DEF b
      <3> QED BY <3>2, <2>1
    <2> HIDE DEF a, b
    <2>7. r \in Seq(S) /\ Len(r) = Len(s) - 1
      <3>1. r \in Seq(S) /\ Len(r) = Len(a) + Len(b)
        BY <2>5, <2>6, ConcatProperties
      <3> QED BY <3>1, <2>1, <2>5, <2>6
    <2> HIDE DEF r
    <2>8. \A k \in 1 .. Len(r) : r[k] \in S
      BY <2>7, ElementOfSeq
    <2>9. /\ obj'.history = r /\ obj'.content = obj.content
          /\ obj' = [content |-> obj'.content, bearing |-> obj'.bearing, history |-> obj'.history, prov |-> obj'.prov]
      BY <1>0, <2>3 DEF IsObject
    <2>10. IsObject(obj')
      <3>1. IsSequence(r)
        BY <2>7, SequenceOf
      <3>2. Len(r) <= MaxHistoryHops + 1
        BY <1>0, <2>1, <2>7, InstructionConstants DEF IsObject
      <3>3. \A k \in 1 .. Len(r) : IsHop(r[k]) /\ Named(r[k])
        BY <2>4, <2>8, <1>2
      <3> QED BY <1>0, <2>9, <3>1, <3>2, <3>3 DEF IsObject
    <2>11. \A k \in 1 .. Len(obj'.history) : \E j \in 1 .. Len(obj.history) : obj'.history[k].digest = obj.history[j].digest
      BY <2>4, <2>8, <2>9
    <2> QED BY <2>10, <2>11, TamperEdit
  <1>6. ASSUME obj'.history = obj.history, obj'.content \in Contents,
               obj' = [content |-> obj'.content, bearing |-> obj'.bearing, history |-> obj'.history, prov |-> obj'.prov]
        PROVE  AuthorityInv'
    <2>1. IsObject(obj')
      BY <1>0, <1>6 DEF IsObject
    <2> QED BY <2>1, <1>6, TamperEdit
  <1>7. /\ obj = [content |-> obj.content, bearing |-> obj.bearing, history |-> obj.history, prov |-> obj.prov]
        /\ obj.content \in Contents
    BY <1>0 DEF IsObject
  <1>8. ASSUME NEW c \in Contents, obj' = [obj EXCEPT !.content = c] PROVE AuthorityInv'
    <2>1. obj'.history = obj.history /\ obj'.content = c
          /\ obj' = [content |-> obj'.content, bearing |-> obj'.bearing, history |-> obj'.history, prov |-> obj'.prov]
      BY <1>7, <1>8
    <2> QED BY <2>1, <1>6
  <1>9. ASSUME NEW q, obj' = [obj EXCEPT !.prov = q] PROVE AuthorityInv'
    <2>1. obj'.history = obj.history /\ obj'.content = obj.content
          /\ obj' = [content |-> obj'.content, bearing |-> obj'.bearing, history |-> obj'.history, prov |-> obj'.prov]
      BY <1>7, <1>9
    <2> QED BY <2>1, <1>6, <1>7
  <1>10. ASSUME NEW l, obj' = [obj EXCEPT !.prov.authority = l] PROVE AuthorityInv'
    <2>1. obj' = [obj EXCEPT !.prov = [obj.prov EXCEPT !.authority = l]]
      BY <1>10
    <2> QED BY <2>1, <1>9
  <1>11. ASSUME obj' = [obj EXCEPT !.prov.origin = "system"] PROVE AuthorityInv'
    <2>1. obj' = [obj EXCEPT !.prov = [obj.prov EXCEPT !.origin = "system"]]
      BY <1>11
    <2> QED BY <2>1, <1>9
  <1>12. CASE \E i \in DOMAIN obj.history, v \in BOOLEAN : obj' = [obj EXCEPT !.history[i].valid = v]
    <2>1. PICK i \in DOMAIN obj.history, v \in BOOLEAN : obj' = [obj EXCEPT !.history[i].valid = v]
      BY <1>12, Zenon
    <2> QED BY <2>1, <1>3, <1>4
  <1>13. CASE \E i \in DOMAIN obj.history, l \in {NoLevel, 3} : obj' = [obj EXCEPT !.history[i].req = l]
    <2>1. PICK i \in DOMAIN obj.history, l \in {NoLevel, 3} : obj' = [obj EXCEPT !.history[i].req = l]
      BY <1>13, Zenon
    <2> QED BY <2>1, <1>3, <1>4
  <1>14. CASE \E i \in DOMAIN obj.history : obj' = [obj EXCEPT !.history[i].ceiling = 3]
    BY <1>3, <1>4, <1>14
  <1>15. CASE \E i \in DOMAIN obj.history : obj' = [obj EXCEPT !.history[i].endorse = {}]
    BY <1>3, <1>4, <1>15
  <1>16. ASSUME obj' = [obj EXCEPT !.prov.stage = Elsewhere] PROVE AuthorityInv'
    <2>1. obj' = [obj EXCEPT !.prov = [obj.prov EXCEPT !.stage = Elsewhere]]
      BY <1>16
    <2> QED BY <2>1, <1>9
  <1>17. ASSUME NEW w, obj' = [obj EXCEPT !.bearing = w] PROVE AuthorityInv'
    <2>1. obj'.history = obj.history /\ obj'.content = obj.content
          /\ obj' = [content |-> obj'.content, bearing |-> obj'.bearing, history |-> obj'.history, prov |-> obj'.prov]
      BY <1>7, <1>17
    <2> QED BY <2>1, <1>6, <1>7
  <1>18. CASE obj' = [obj EXCEPT !.bearing = ~@]
    <2>1. \E w : obj' = [obj EXCEPT !.bearing = w]
      BY <1>18
    <2> QED BY <2>1, <1>17
  <1> QED
    BY <1>5, <1>8, <1>10, <1>11, <1>12, <1>13, <1>14, <1>15, <1>16, <1>18 DEF Tamper

LEMMA ForgeInv ==
    ASSUME AuthorityInv, NEW p \in Promoters, NEW l, Forge(p, l)
    PROVE  AuthorityInv'
  <1> DEFINE s == obj.history
             n == Len(s)
             h == Forgery(s[n], p, l)
             hops == [s EXCEPT ![n] = h]
             q == fold(root.origin, hops[1].from, hops)
  <1>1. /\ tampers < MaxTampers /\ tampers' = tampers + 1 /\ forged' = TRUE /\ s # <<>>
        /\ obj' = [obj EXCEPT !.history = hops, !.prov = q]
        /\ UNCHANGED <<root, registry, changed, made, earned, refused, time, signed, nonces, admitted>>
    BY DEF Forge, gateVars
  <1>2. IsObject(obj) /\ IsSequence(s)
    BY DEF AuthorityInv, IsObject
  <1>3. n \in 1 .. Len(s)
    BY <1>1, <1>2, SequenceIs
  <1>4. IsHop(s[n])
    BY <1>2, <1>3 DEF IsObject
  <1>5. IsHop(h) /\ Named(h)
    <2> DEFINE g == s[n]
               endorse == {[promoter |-> p, grant |-> l, stage |-> g.stage, parent |-> g.parent, child |-> g.sha]}
               claim == [g EXCEPT !.req = l, !.valid = TRUE, !.ceiling = l, !.endorse = endorse]
    <2>1. h = [claim EXCEPT !.digest = hopDigest(claim)]
      BY DEF Forgery
    <2>2. DOMAIN g = HopFields
      BY <1>4 DEF IsHop
    <2>3. \A e \in endorse : e.promoter = p
      OBVIOUS
    <2> HIDE DEF g, endorse, h
    <2>4. DOMAIN claim = HopFields /\ claim.endorse = endorse
      BY <2>2 DEF HopFields
    <2> HIDE DEF claim
    <2>5. DOMAIN h = HopFields /\ h = [f \in HopFields |-> h[f]] /\ h.endorse = endorse
      BY <2>1, <2>4 DEF HopFields
    <2> QED BY <2>3, <2>5 DEF IsHop, Named
  <1> HIDE DEF h, q
  <1>6. IsObject(obj')
    <2>1. obj' = [obj EXCEPT !.history = [obj.history EXCEPT ![n] = h], !.prov = q]
      BY <1>1, Zenon
    <2>2. n \in 1 .. Len(obj.history)
      BY <1>3
    <2> HIDE DEF n
    <2> QED BY <2>1, <2>2, <1>2, <1>5, HopReplaced
  <1> QED
    BY <1>1, <1>6, EditInv

LEMMA AuthorityInitInv == AuthorityInit => AuthorityInv
  <1> SUFFICES ASSUME AuthorityInit PROVE AuthorityInv
    OBVIOUS
  <1> DEFINE c == CHOOSE x \in Contents : TRUE
  <1>1. PICK origin \in {"mcp", "user"}, bearing \in BOOLEAN :
           /\ root = [origin |-> origin, bearing |-> bearing, sha |-> digest(c)]
           /\ obj = [content |-> c, bearing |-> bearing, history |-> <<>>,
                     prov |-> OriginProvenance(origin, "origin", digest(c))]
           /\ earned = {ceilingForTrust(origin)}
    BY DEF AuthorityInit
  <1>2. registry = Registry /\ changed = FALSE /\ made = {} /\ refused = FALSE /\ tampers = 0
    BY DEF AuthorityInit
  <1>3. c \in Contents
    BY InstructionConstants
  <1> HIDE DEF c
  <1>4. /\ root.origin = origin /\ root.bearing = bearing /\ root.sha = digest(c) /\ root.sha.sha = c
        /\ obj.content = c /\ obj.history = <<>> /\ obj.prov = OriginProvenance(origin, "origin", digest(c))
    BY <1>1 DEF digest
  <1>5. IsSequence(<<>>) /\ Len(<<>>) = 0
    BY DEF IsSequence
  <1>6. RootInv(root, earned)
    <2>1. ceilingForTrust(origin) \in Levels
      BY <1>1 DEF ceilingForTrust, Levels
    <2> QED BY <2>1, <1>1, <1>4 DEF RootInv
  <1>7. MaxHistoryHops \in Nat /\ MaxTampers \in Nat /\ Registry \in [Promoters -> Levels \cup {NoLevel}]
    BY InstructionConstants
  <1>8. \A i \in 1 .. Len(obj.history) : FALSE
    BY <1>4, <1>5
  <1>9. IsObject(obj)
    <2>1. obj = [content |-> obj.content, bearing |-> obj.bearing, history |-> obj.history, prov |-> obj.prov]
      BY <1>1
    <2>2. IsSequence(obj.history) /\ Len(obj.history) <= MaxHistoryHops + 1
      BY <1>4, <1>5, <1>7
    <2> QED BY <2>1, <2>2, <1>3, <1>4, <1>8 DEF IsObject
  <1>10. Untouched(obj, root, FALSE, FALSE)
    <2>1. Len(obj.history) = 0
      BY <1>4, <1>5
    <2> QED BY <2>1, <1>4, <1>8 DEF Untouched
  <1>11. GateInv /\ tampers \in 0 .. MaxTampers /\ registry \in [Promoters -> Levels \cup {NoLevel}]
    BY <1>2, <1>7, GateInit
  <1> QED
    BY <1>2, <1>6, <1>8, <1>9, <1>10, <1>11, Zenon DEF AuthorityInv

\* A step that leaves the object alone.
LEMMA ObjectUnchanged ==
    ASSUME AuthorityInv, UNCHANGED <<root, registry, changed, objVars>>, GateInv'
    PROVE  AuthorityInv'
  BY DEF AuthorityInv, objVars

LEMMA ChangeRegistryInv ==
    ASSUME AuthorityInv, NEW p \in Promoters, NEW l \in {NoLevel, 3}, ChangeRegistry(p, l)
    PROVE  AuthorityInv'
  <1>1. /\ changed' = TRUE /\ registry' = [registry EXCEPT ![p] = l]
        /\ UNCHANGED <<root, obj, made, earned, refused, tampers, forged, time, signed, nonces, admitted>>
    BY DEF ChangeRegistry, objVars, gateVars
  <1>2. registry' \in [Promoters -> Levels \cup {NoLevel}]
    BY <1>1 DEF AuthorityInv, Levels
  <1>3. tampers = 0 => Untouched(obj, root, TRUE, refused)
    BY Zenon DEF AuthorityInv, Untouched
  <1>4. GateInv'
    BY <1>1, GateUnchanged DEF AuthorityInv
  <1> QED
    BY <1>1, <1>2, <1>3, <1>4 DEF AuthorityInv

LEMMA AuthorityStepInv == AuthorityInv /\ [AuthorityNext]_authorityVars => AuthorityInv'
  <1> SUFFICES ASSUME AuthorityInv, [AuthorityNext]_authorityVars PROVE AuthorityInv'
    OBVIOUS
  <1>1. GateInv'
    BY GateStep DEF AuthorityInv
  <1>2. ASSUME NEW t \in Transforms, Transform(t) PROVE AuthorityInv'
    BY <1>2, TransformInv
  <1>3. CASE Tamper
    BY <1>3, TamperInv
  <1>4. ASSUME NEW p \in Promoters, NEW l \in {NoLevel, 3}, ChangeRegistry(p, l) PROVE AuthorityInv'
    BY <1>4, ChangeRegistryInv
  <1>5. ASSUME NEW r, NEW issued, NEW life, Sign(r, issued, life) PROVE AuthorityInv'
    BY <1>1, <1>5, ObjectUnchanged DEF Sign
  <1>6. ASSUME NEW r \in Requests, NEW a \in Presented, ToolsCall(r, a) PROVE AuthorityInv'
    BY <1>1, <1>6, ObjectUnchanged DEF ToolsCall
  <1>7. CASE TimePasses
    BY <1>1, <1>7, ObjectUnchanged DEF TimePasses
  <1>8. CASE ReloadKeys
    BY <1>1, <1>8, ObjectUnchanged DEF ReloadKeys
  <1>9. CASE UNCHANGED authorityVars
    BY <1>1, <1>9, ObjectUnchanged DEF authorityVars
  <1>10. ASSUME NEW p \in Promoters, NEW l, Forge(p, l) PROVE AuthorityInv'
    BY <1>10, ForgeInv
  <1> QED
    BY <1>2, <1>3, <1>4, <1>5, <1>6, <1>7, <1>8, <1>9, <1>10 DEF AuthorityNext

LEMMA AuthorityInvariance == AuthoritySpec => []AuthorityInv
  BY AuthorityInitInv, AuthorityStepInv, PTL DEF AuthoritySpec

\* A stored hop that is not broken is one that was recorded.
LEMMA UnbrokenIsMade ==
    ASSUME NEW M, NEW er, \A m \in M : RecordedHop(m, er),
           NEW h, IsHop(h), StoredHop(h, M), h.digest = hopDigest(h)
    PROVE  h \in M
  <1>1. PICK m \in M : h.digest = m.digest
    BY DEF StoredHop
  <1>2. IsHop(m) /\ m.digest = hopDigest(m)
    BY DEF RecordedHop
  <1>3. h = m
    <2>1. hopDigest(h) = hopDigest(m)
      BY <1>1, <1>2
    <2> QED BY <1>1, <1>2, <2>1, DigestSays, Zenon
  <1> QED
    BY <1>3

\* What the evaluation of an object with a history reads of its fold.
LEMMA DerivedIs ==
    ASSUME NEW o, NEW r, IsSequence(o.history), Len(o.history) <= MaxHistoryHops, Len(o.history) # 0
    PROVE  LET p == foldTrace(r.origin, o.history)[Len(o.history)]
               d == derivedProvenance(o, r)
           IN  /\ d.authority = p.authority
               /\ d.continuity # "FAILED" => p.continuity # "FAILED"
               /\ ~d.digestFailure => ~p.digestFailure
               /\ Learnt(r.origin, o.history, Len(o.history), p)
  <1> DEFINE n == Len(o.history)
             p == foldTrace(r.origin, o.history)[n]
             d == derivedProvenance(o, r)
  <1>1. n \in Nat /\ MaxHistoryHops \in Nat /\ o.history # <<>>
    BY SequenceIs, InstructionConstants
  <1>2. Learnt(r.origin, o.history, n, p)
    <2>1. n \in 0 .. Len(o.history)
      BY <1>1
    <2> QED BY <2>1, <1>1, FoldLearns
  <1>3. DOMAIN p = ProvFields
    BY <1>2, Zenon DEF Learnt
  <1>4. fold(r.origin, o.history[1].from, o.history) = p
    BY <1>1 DEF fold
  <1>5. d = IF contentChainBroken(o, r) THEN [p EXCEPT !.continuity = "FAILED", !.digestFailure = TRUE] ELSE p
    BY <1>1, <1>4 DEF derivedProvenance
  <1> HIDE DEF p, d
  <1>6. /\ d.authority = p.authority
        /\ d.continuity # "FAILED" => p.continuity # "FAILED"
        /\ ~d.digestFailure => ~p.digestFailure
    <2>1. CASE contentChainBroken(o, r)
      <3>1. d = [p EXCEPT !.continuity = "FAILED", !.digestFailure = TRUE]
        BY <1>5, <2>1
      <3>2. d.authority = p.authority /\ d.continuity = "FAILED" /\ d.digestFailure = TRUE
        BY <3>1, <1>3 DEF ProvFields
      <3> QED BY <3>2
    <2>2. CASE ~contentChainBroken(o, r)
      BY <1>5, <2>2
    <2> QED BY <2>1, <2>2
  <1> QED
    BY <1>2, <1>6 DEF p, d

\* As long as no digest is made anew, whatever else is edited in the stored object and
\* transformed after it and however the registry changes: an instruction is executed
\* with an authority its origin has or an entitled promoter granted; and an object left
\* alone is never executed after a refused promotion (Authorize, foldHop, ApplyTransform).
THEOREM AuthorityIsContinuous == AuthoritySpec => []AuthorityHolds
  <1>1. ASSUME AuthorityInv PROVE AuthorityTypeOK
    BY <1>1 DEF AuthorityInv, GateInv, RootInv, IsObject, AuthorityTypeOK
  <1>2. ASSUME AuthorityInv, ~forged, Authorize(obj, root) PROVE derivedProvenance(obj, root).authority \in earned
    <2> DEFINE s == obj.history
               n == Len(s)
               p == foldTrace(root.origin, s)[n]
               d == derivedProvenance(obj, root)
    <2>1. n <= MaxHistoryHops /\ ~d.digestFailure /\ d.continuity = "PASS"
      BY <1>2 DEF Authorize
    <2>2. IsSequence(s) /\ n \in Nat /\ (s = <<>> <=> n = 0)
      BY <1>2, SequenceIs DEF AuthorityInv, IsObject
    <2>3. ceilingForTrust(root.origin) \in earned
      BY <1>2 DEF AuthorityInv, RootInv
    <2>4. CASE n = 0
      <3>1. \/ d = OriginProvenance(root.origin, "", root.sha)
            \/ d = [OriginProvenance(root.origin, "", root.sha) EXCEPT !.continuity = "FAILED", !.digestFailure = TRUE]
        BY <2>2, <2>4 DEF derivedProvenance
      <3>2. d.authority = ceilingForTrust(root.origin)
        BY <3>1 DEF OriginProvenance, Genesis
      <3> QED BY <3>2, <2>3
    <2>5. CASE n # 0
      <3>1. d.authority = p.authority /\ ~p.digestFailure /\ Learnt(root.origin, s, n, p)
        BY <2>1, <2>2, <2>5, DerivedIs, Zenon
      <3> HIDE DEF p
      <3>2. \A i \in 1 .. n : ~DigestBroken(s, i)
        BY <3>1, Zenon DEF Learnt
      <3>3. \/ p.authority = ceilingForTrust(root.origin)
            \/ \E i \in 1 .. n : ~DigestBroken(s, i) /\ Grants(s[i]) /\ p.authority = s[i].req
        BY <3>1, Zenon DEF Learnt
      <3>4. ASSUME NEW i \in 1 .. n, Grants(s[i]), p.authority = s[i].req PROVE p.authority \in earned
        <4>1. /\ \A m \in made : RecordedHop(m, earned)
              /\ StoredHop(s[i], made) /\ IsHop(s[i])
          BY <1>2 DEF AuthorityInv, IsObject
        <4>2. s[i].digest = hopDigest(s[i])
          BY <3>2 DEF DigestBroken
        <4> DEFINE h == s[i]
        <4>3. StoredHop(h, made) /\ IsHop(h) /\ h.digest = hopDigest(h) /\ Grants(h) /\ p.authority = h.req
          BY <4>1, <4>2, <3>4
        <4> HIDE DEF h
        <4>4. h \in made
          BY <4>1, <4>3, UnbrokenIsMade
        <4>5. h.valid
          BY <4>3 DEF Grants
        <4> QED BY <4>1, <4>3, <4>4, <4>5 DEF RecordedHop
      <3> QED BY <3>1, <3>3, <3>4, <2>3
    <2> QED BY <2>4, <2>5
  <1>3. ASSUME AuthorityInv, refused, tampers = 0, Authorize(obj, root) PROVE FALSE
    <2> DEFINE s == obj.history
               n == Len(s)
               p == foldTrace(root.origin, s)[n]
               d == derivedProvenance(obj, root)
    <2>1. n <= MaxHistoryHops /\ ~d.digestFailure /\ d.continuity = "PASS"
      BY <1>3 DEF Authorize
    <2>2. PICK i \in 1 .. n : s[i].req # NoLevel /\ ~s[i].valid
      BY <1>3, Zenon DEF AuthorityInv, Untouched
    <2>3. n \in Nat /\ n # 0 /\ IsSequence(s)
      BY <1>3, <2>2, SequenceIs DEF AuthorityInv, IsObject
    <2>4. p.continuity # "FAILED" /\ Learnt(root.origin, s, n, p)
      <3>1. d.continuity # "FAILED"
        BY <2>1
      <3> QED BY <3>1, <2>1, <2>3, DerivedIs, Zenon
    <2> QED BY <2>2, <2>4, Zenon DEF Learnt
  <1>4. AuthorityInv => AuthorityHolds
    BY <1>1, <1>2, <1>3 DEF AuthorityHolds, AuthorityIsEarned, RefusalIsFinal
  <1> QED
    BY <1>4, AuthorityInvariance, PTL

\* What an object with a history shows when it verifies.
LEMMA VerifiedIs ==
    ASSUME NEW o, NEW rt, NEW reg, IsObject(o), VerifyProvenance(o, rt, reg), Len(o.history) # 0
    PROVE  LET p == foldTrace(rt.origin, o.history)[Len(o.history)]
           IN  /\ o.prov = p /\ Learnt(rt.origin, o.history, Len(o.history), p)
               /\ \A i \in 1 .. Len(o.history) : ~DigestBroken(o.history, i)
               /\ o.history[1].parentHop = rt.sha /\ digest(o.content) = o.history[Len(o.history)].sha
               /\ Revalidated(o, rt, reg)
  <1> DEFINE s == o.history
             n == Len(s)
             p == foldTrace(rt.origin, s)[n]
  <1>1. n \in Nat /\ s # <<>> /\ MaxHistoryHops \in Nat
    BY SequenceIs, InstructionConstants DEF IsObject
  <1>2. n <= MaxHistoryHops /\ ~contentChainBroken(o, rt)
    BY DEF VerifyProvenance
  <1>3. fold(rt.origin, s[1].from, s) = p
    BY <1>1, <1>2 DEF fold
  <1>4. ~p.digestFailure /\ o.prov = p /\ Revalidated(o, rt, reg)
    BY <1>1, <1>3, Zenon DEF VerifyProvenance
  <1>5. Learnt(rt.origin, s, n, p)
    <2>1. n \in 0 .. Len(s)
      BY <1>1
    <2> QED BY <2>1, <1>1, FoldLearns
  <1> HIDE DEF p
  <1>6. \A i \in 1 .. n : ~DigestBroken(s, i)
    BY <1>4, <1>5, Zenon DEF Learnt
  <1>7. s[1].parentHop = rt.sha /\ digest(o.content) = s[n].sha
    BY <1>1, <1>2 DEF contentChainBroken
  <1> QED
    BY <1>4, <1>5, <1>6, <1>7 DEF p

\* An untouched object verifies, by the registry its promotions were judged by.
LEMMA UntouchedVerifies ==
    ASSUME NEW o, NEW rt, NEW rf, IsObject(o), Untouched(o, rt, FALSE, rf), Len(o.history) <= MaxHistoryHops
    PROVE  VerifyProvenance(o, rt, Registry)
  <1> DEFINE s == o.history
             n == Len(s)
  <1>1. IsSequence(s) /\ n \in Nat /\ (s = <<>> <=> n = 0) /\ MaxHistoryHops \in Nat /\ DOMAIN s = 1 .. n
    BY SequenceIs, InstructionConstants DEF IsObject
  <1>2. /\ \A i \in 1 .. n : LinkedHop(s, i, rt)
        /\ digest(o.content) = IF n = 0 THEN rt.sha ELSE s[n].sha
        /\ o.prov = IF n = 0 THEN OriginProvenance(rt.origin, "origin", rt.sha) ELSE foldTrace(rt.origin, s)[n]
        /\ \A i \in 1 .. n : Judged(s, i, rt)
    BY Zenon DEF Untouched
  <1>3. CASE n = 0
    <2>1. o.prov = OriginProvenance(rt.origin, "origin", rt.sha)
      BY <1>2, <1>3
    <2>2. o.prov.stage = "origin"
      BY <2>1 DEF OriginProvenance, Genesis
    <2>3. o.prov = OriginProvenance(rt.origin, o.prov.stage, rt.sha)
      BY <2>1, <2>2
    <2> QED BY <2>3, <1>1, <1>2, <1>3 DEF VerifyProvenance, contentChainBroken
  <1>4. CASE n # 0
    <2>1. 1 \in 1 .. n /\ n \in 1 .. n
      BY <1>1, <1>4
    <2>2. s[1].parent = rt.sha /\ s[1].parentHop = rt.sha
      BY <1>2, <2>1 DEF LinkedHop
    <2>3. ~contentChainBroken(o, rt)
      BY <1>1, <1>2, <1>4, <2>2 DEF contentChainBroken
    <2> DEFINE p == foldTrace(rt.origin, s)[n]
    <2>4. fold(rt.origin, s[1].from, s) = p
      BY <1>1 DEF fold
    <2>5. Learnt(rt.origin, s, n, p)
      <3>1. n \in 0 .. Len(s)
        BY <1>1
      <3> QED BY <3>1, <1>1, FoldLearns
    <2>6. o.prov = p
      BY <1>2, <1>4
    <2> HIDE DEF p
    <2>7. \A i \in 1 .. n : ~DigestBroken(s, i)
      <3> SUFFICES ASSUME NEW i \in 1 .. n PROVE ~DigestBroken(s, i)
        OBVIOUS
      <3>1. LinkedHop(s, i, rt)
        BY <1>2
      <3> QED BY <3>1 DEF LinkedHop, DigestBroken
    <2>8. ~p.digestFailure
      BY <2>5, <2>7, Zenon DEF Learnt
    <2>9. Revalidated(o, rt, Registry)
      BY <1>1, <1>2, Zenon DEF Revalidated, Judged
    <2> QED BY <1>1, <1>4, <2>3, <2>4, <2>6, <2>8, <2>9, Zenon DEF VerifyProvenance
  <1> QED
    BY <1>3, <1>4

\* Without digests made anew, what VerifyProvenance accepts was recorded hop by hop from
\* the root to the content; with them too, it has no authority that neither its origin
\* nor a promoter of the registry of now stands for; and what nobody edited is accepted
\* as long as the registry is the one its promotions were judged by.
THEOREM VerificationIsSound == AuthoritySpec => []VerificationSound
  <1> DEFINE s == obj.history
             n == Len(s)
             p == foldTrace(root.origin, s)[n]
  <1>1. ASSUME AuthorityInv PROVE IsObject(obj) /\ n \in Nat /\ (s = <<>> <=> n = 0) /\ DOMAIN s = 1 .. n
    BY <1>1, SequenceIs DEF AuthorityInv, IsObject
  <1>2. ASSUME AuthorityInv, ~forged, VerifyProvenance(obj, root, registry)
        PROVE  /\ \A i \in DOMAIN s : s[i] \in made /\ s[i].parentHop = IF i = 1 THEN root.sha ELSE s[i - 1].digest
               /\ s = <<>> => digest(obj.content) = root.sha
               /\ s # <<>> => obj.content = s[Len(s)].content
    <2>1. CASE n = 0
      <3>1. ~contentChainBroken(obj, root)
        BY <1>2 DEF VerifyProvenance
      <3> QED BY <1>1, <1>2, <2>1, <3>1 DEF contentChainBroken
    <2>2. CASE n # 0
      <3>1. /\ \A i \in 1 .. n : ~DigestBroken(s, i)
            /\ s[1].parentHop = root.sha /\ digest(obj.content) = s[n].sha
        BY <1>1, <1>2, <2>2, VerifiedIs, Zenon
      <3>2. ASSUME NEW i \in 1 .. n PROVE s[i] \in made
        <4>1. (\A m \in made : RecordedHop(m, earned)) /\ StoredHop(s[i], made) /\ IsHop(s[i])
          BY <1>2, <3>2 DEF AuthorityInv, IsObject
        <4>2. s[i].digest = hopDigest(s[i])
          BY <3>1, <3>2 DEF DigestBroken
        <4> DEFINE h == s[i]
        <4>3. StoredHop(h, made) /\ IsHop(h) /\ h.digest = hopDigest(h)
          BY <4>1, <4>2
        <4> HIDE DEF h
        <4>4. h \in made
          BY <4>1, <4>3, UnbrokenIsMade
        <4> QED BY <4>4 DEF h
      <3>3. ASSUME NEW i \in 1 .. n PROVE s[i].parentHop = IF i = 1 THEN root.sha ELSE s[i - 1].digest
        BY <3>1, <3>3 DEF DigestBroken
      <3>4. obj.content = s[n].content
        <4>1. n \in 1 .. n
          BY <1>1, <1>2, <2>2
        <4>2. digest(s[n].content) = s[n].sha
          BY <3>1, <4>1 DEF DigestBroken
        <4> QED BY <3>1, <4>2, DigestsApart
      <3> QED BY <1>1, <1>2, <2>2, <3>2, <3>3, <3>4
    <2> QED BY <2>1, <2>2
  <1>3. ASSUME AuthorityInv, VerifyProvenance(obj, root, registry)
        PROVE  \/ obj.prov.authority = ceilingForTrust(root.origin)
               \/ \E x \in Promoters : registry[x] # NoLevel /\ obj.prov.authority <= registry[x]
    <2>1. CASE n = 0
      <3>1. obj.prov = OriginProvenance(root.origin, obj.prov.stage, root.sha)
        BY <1>1, <1>3, <2>1 DEF VerifyProvenance
      <3>2. OriginProvenance(root.origin, obj.prov.stage, root.sha).authority = ceilingForTrust(root.origin)
        BY DEF OriginProvenance, Genesis
      <3> QED BY <3>1, <3>2
    <2>2. CASE n # 0
      <3>1. obj.prov = p /\ Learnt(root.origin, s, n, p) /\ Revalidated(obj, root, registry)
        BY <1>1, <1>3, <2>2, VerifiedIs, Zenon
      <3> HIDE DEF p
      <3>2. \/ p.authority = ceilingForTrust(root.origin)
            \/ \E i \in 1 .. n : ~DigestBroken(s, i) /\ Grants(s[i]) /\ p.authority = s[i].req
        BY <3>1, Zenon DEF Learnt
      <3>3. ASSUME NEW i \in 1 .. n, Grants(s[i]), p.authority = s[i].req
            PROVE  \E x \in Promoters : registry[x] # NoLevel /\ p.authority <= registry[x]
        <4>1. s[i].valid
          BY <3>3 DEF Grants
        <4>2. PICK e \in s[i].endorse :
                 validEndorsement(e, s[i], foldTrace(root.origin, s)[i - 1].authority, registry)
          BY <1>1, <1>3, <3>1, <3>3, <4>1, Zenon DEF Revalidated
        <4>3. e.promoter \in Promoters
          BY <1>1, <1>3 DEF IsObject, Named
        <4>4. e.grant = s[i].req /\ registry[e.promoter] # NoLevel /\ e.grant <= registry[e.promoter]
          BY <4>2 DEF validEndorsement
        <4> QED BY <3>3, <4>3, <4>4
      <3> QED BY <3>1, <3>2, <3>3
    <2> QED BY <2>1, <2>2
  <1>4. ASSUME AuthorityInv, tampers = 0, ~changed, n <= MaxHistoryHops
        PROVE  VerifyProvenance(obj, root, registry)
    <2>1. IsObject(obj) /\ registry = Registry /\ Untouched(obj, root, changed, refused)
      BY <1>4 DEF AuthorityInv
    <2>2. Untouched(obj, root, FALSE, refused)
      BY <2>1, <1>4, Zenon DEF Untouched
    <2>3. VerifyProvenance(obj, root, Registry)
      BY <2>1, <2>2, <1>4, UntouchedVerifies
    <2> QED BY <2>1, <2>3
  <1>5. AuthorityInv => VerificationSound
    <2> SUFFICES ASSUME AuthorityInv PROVE VerificationSound
      OBVIOUS
    <2>1. VerifiedIsRecorded
      BY <1>2, Zenon DEF VerifiedIsRecorded
    <2>2. VerifiedIsBacked
      BY <1>3, Zenon DEF VerifiedIsBacked
    <2>3. RecordedVerifies
      BY <1>4, Zenon DEF RecordedVerifies
    <2> QED BY <2>1, <2>2, <2>3 DEF VerificationSound
  <1> QED
    BY <1>5, AuthorityInvariance, PTL
=============================================================================
