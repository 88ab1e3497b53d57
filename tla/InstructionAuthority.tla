------------------------ MODULE InstructionAuthority ------------------------
(***************************************************************************)
(* Instruction authority continuity (internal/instructionauthority) and the *)
(* gate of the proxy that consults it (proxy/instruction_authority_auth.go).*)
(* An instruction travels through transformations that are appended to its  *)
(* history; its authority is folded from the origin and the history each    *)
(* time it is needed.  The object may be edited where it is stored, with or *)
(* without its digests made anew (they are not keyed), the registry of      *)
(* promoters may change, and a signed assertion admits one request with one *)
(* object once.                                                             *)
(***************************************************************************)
EXTENDS Integers, Sequences, FiniteSets

CONSTANTS
    Contents,         \* texts of an instruction
    Promoters,        \* principals an endorsement may name
    Registry,         \* the ceilings the promoters start with
    Transforms,       \* [content, stage, req, endorse] a context builder may apply
    Requests,         \* tools/call requests, without their metadata
    MaxHistoryHops,   \* bound on an evaluated history
    MaxLifetime,      \* longest lifetime of an assertion
    FutureSkew,       \* how far ahead an assertion may be issued
    SignedHops,       \* longest history the assertions are tried with
    SignedEdits,      \* most edits the objects they are issued for have had
    MaxTampers, MaxMade, MaxSigned, MaxClock, MaxAdmitted

Levels == 0 .. 3       \* DATA_ONLY, USER, DEVELOPER, SYSTEM
User == 1
NoLevel == -1          \* an empty or unknown authority, which has no rank
Elsewhere == "elsewhere"   \* a content that an endorsement for another place is bound to

ASSUME InstructionConstants ==
    /\ Registry \in [Promoters -> Levels \cup {NoLevel}]
    /\ Contents # {} /\ Elsewhere \notin Contents
    /\ \A t \in Transforms :
          /\ t.content \in Contents /\ t.req \in Levels \cup {NoLevel}
          /\ \A e \in t.endorse : e.promoter \in Promoters /\ e.bound \in BOOLEAN
          /\ \A e, f \in t.endorse : e = f
    /\ {MaxHistoryHops, MaxLifetime, FutureSkew, SignedHops, SignedEdits, MaxTampers, MaxMade, MaxSigned, MaxClock, MaxAdmitted} \subseteq Nat

VARIABLES
    root,        \* EvaluationRoot, held by the host
    obj,         \* InstructionObject, as stored
    registry,    \* ceiling of each promoter, NoLevel if it is not registered
    keys,        \* instructionAuthorityKeys
    time,
    signed,      \* assertions the key holder issued
    nonces,      \* Session.instructionAuthorityNonces as <<nonce, expiry>>
    admitted,    \* requests the gate let through
    made,        \* history: hops the transformations recorded
    earned,      \* history: authorities the origin or a promoter stands for
    refused,     \* history: a promotion was refused
    changed,     \* history: the registry changed
    tampers,     \* history: edits of the stored object
    forged       \* history: an edit made a digest anew

objVars == <<obj, made, earned, refused, tampers, forged>>
gateVars == <<keys, time, signed, nonces, admitted>>
authorityVars == <<root, registry, changed, objVars, gateVars>>

-----------------------------------------------------------------------------
(* Commitments: a digest is a record that only its content gives.           *)

digest(content) == [sha |-> content]
Unset == [sha |-> "unset"]
NoPrincipal == ""

\* Every field of the hop but the digest itself.
hopDigest(h) == [hop |-> [f \in DOMAIN h \ {"digest"} |-> h[f]]]

EnvelopeSHA256(o, r) == [envelope |-> <<o, r>>]

-----------------------------------------------------------------------------
(* The fold of a history.                                                   *)

ceilingForTrust(origin) ==
    CASE origin = "user" -> 1 [] origin = "developer" -> 2 [] origin = "system" -> 3 [] OTHER -> 0

Genesis(origin) ==
    [origin |-> origin, authority |-> ceilingForTrust(origin), lineage |-> <<>>, stage |-> "origin",
     sha |-> Unset, parentSha |-> Unset, attempted |-> FALSE, requested |-> NoLevel, promoter |-> NoPrincipal,
     continuity |-> "PASS", digestFailure |-> FALSE]

\* What NewOriginObject records: the genesis state over the digest of the content.
OriginProvenance(origin, repr, sha) == [Genesis(origin) EXCEPT !.stage = repr, !.sha = sha]

boundExceededProvenance(origin, repr) ==
    [Genesis(origin) EXCEPT !.stage = repr, !.continuity = "FAILED", !.digestFailure = TRUE]

\* The fields every hop writes, a clean attempt included.
beginHop(p, h, running) ==
    [p EXCEPT !.lineage = Append(@, p.authority), !.stage = h.stage,
              !.parentSha = running, !.sha = h.sha,
              !.attempted = @ \/ h.req # NoLevel,
              !.requested = IF h.req # NoLevel THEN h.req ELSE @,
              !.promoter = IF h.req # NoLevel THEN NoPrincipal ELSE @]

FaultyDigestBroken(hops, i) ==       \* the contents are linked, the verdicts are not
    LET h == hops[i]
    IN  \/ i > 1 /\ h.parent # hops[i - 1].sha
        \/ digest(h.content) # h.sha
        \/ h.valid /\ h.endorse = {}

DigestBroken(hops, i) ==
    LET h == hops[i]
    IN  \/ i > 1 /\ (h.parent # hops[i - 1].sha \/ h.parentHop # hops[i - 1].digest)
        \/ i = 1 /\ h.parentHop # h.parent
        \/ digest(h.content) # h.sha
        \/ h.digest # hopDigest(h)
        \/ h.valid /\ h.endorse = {}

\* The stored verdict is never enough: an endorsement (a set of at most one) must
\* grant what was requested, within the ceiling seen when the hop was appended.
Grants(h) ==
    /\ h.valid
    /\ \E e \in h.endorse : e.grant = h.req /\ e.grant \in Levels /\ h.ceiling \in Levels /\ e.grant <= h.ceiling

foldHop(p, hops, i) ==
    LET h == hops[i]
        q == beginHop(p, h, IF i = 1 THEN h.parent ELSE hops[i - 1].sha)
    IN  IF DigestBroken(hops, i) THEN [q EXCEPT !.continuity = "FAILED", !.digestFailure = TRUE]
        ELSE IF q.continuity = "FAILED" \/ h.req = NoLevel THEN q
        ELSE IF ~Grants(h) THEN [q EXCEPT !.continuity = "FAILED"]
        ELSE [q EXCEPT !.authority = h.req, !.promoter = (CHOOSE e \in h.endorse : TRUE).promoter,
                       !.continuity = "PASS", !.lineage = [@ EXCEPT ![Len(@)] = h.req]]

\* The provenance before each hop and, last, after all of them.  The origin's
\* representation is not in it: the first hop replaces it.
foldTrace(origin, hops) ==
    LET p[i \in 0 .. Len(hops)] == IF i = 0 THEN Genesis(origin) ELSE foldHop(p[i - 1], hops, i)
    IN  p

fold(origin, repr, hops) ==
    IF Len(hops) > MaxHistoryHops THEN boundExceededProvenance(origin, repr)
    ELSE foldTrace(origin, hops)[Len(hops)]

-----------------------------------------------------------------------------
(* Endorsements and evaluation.                                             *)

\* Every binding matches, the promoter may grant the level and stands above the
\* input: peers cannot promote each other.
validEndorsement(e, h, authority, reg) ==
    /\ h.req # NoLevel /\ e.grant = h.req
    /\ e.parent = h.parent /\ e.child = h.sha /\ e.stage = h.stage
    /\ reg[e.promoter] # NoLevel
    /\ e.grant <= reg[e.promoter]
    /\ authority < reg[e.promoter] /\ authority < e.grant

\* The hop a transform appends, judged by the registry of the moment.
NewHop(o, t, reg) ==
    LET bound == {[promoter |-> e.promoter, grant |-> e.grant, stage |-> t.stage,
                   parent |-> IF e.bound THEN digest(o.content) ELSE digest(Elsewhere),
                   child |-> digest(t.content)] : e \in t.endorse}
        hop == [content |-> t.content, sha |-> digest(t.content), parent |-> digest(o.content),
                from |-> o.prov.stage, stage |-> t.stage, req |-> t.req, endorse |-> bound, valid |-> FALSE,
                ceiling |-> IF bound = {} THEN NoLevel ELSE reg[(CHOOSE e \in bound : TRUE).promoter],
                parentHop |-> IF o.history = <<>> THEN digest(o.content) ELSE o.history[Len(o.history)].digest,
                digest |-> Unset]
        judged == [hop EXCEPT !.valid = \E e \in bound : validEndorsement(e, hop, o.prov.authority, reg)]
    IN  [judged EXCEPT !.digest = hopDigest(judged)]

ApplyTransform(o, t, reg) ==
    LET history == Append(o.history, NewHop(o, t, reg))
    IN  IF Len(o.history) > MaxHistoryHops THEN o
        ELSE [content |-> t.content, bearing |-> o.bearing, history |-> history,
              prov |-> fold(o.prov.origin, o.prov.stage, history)]

\* The root's digest, the first hop, ..., the last hop, the content.
contentChainBroken(o, r) ==
    IF o.history = <<>> THEN digest(o.content) # r.sha
    ELSE \/ o.history[1].parent # r.sha \/ o.history[1].parentHop # r.sha
         \/ digest(o.content) # o.history[Len(o.history)].sha

derivedProvenance(o, r) ==
    LET p == IF o.history = <<>> THEN OriginProvenance(r.origin, "", r.sha)
             ELSE fold(r.origin, o.history[1].from, o.history)
    IN  IF Len(o.history) <= MaxHistoryHops /\ contentChainBroken(o, r)
        THEN [p EXCEPT !.continuity = "FAILED", !.digestFailure = TRUE] ELSE p

Authorize(o, r) ==
    LET p == derivedProvenance(o, r)
    IN  /\ Len(o.history) <= MaxHistoryHops
        /\ r.bearing /\ ~p.digestFailure /\ p.continuity = "PASS" /\ p.authority >= User

FaultyRevalidated(o, r, reg) ==      \* the recorded verdicts are taken as they are
    \A i \in DOMAIN o.history : o.history[i].valid => o.history[i].endorse # {}

\* Each recorded verdict is the one the registry of now would give.
Revalidated(o, r, reg) ==
    \A i \in DOMAIN o.history :
       o.history[i].valid <=> \E e \in o.history[i].endorse :
          validEndorsement(e, o.history[i], foldTrace(r.origin, o.history)[i - 1].authority, reg)

\* The representation of an object without a history is taken from the object itself,
\* and its copy of the root's fields (o.bearing) is compared with nothing.
VerifyProvenance(o, r, reg) ==
    /\ Len(o.history) <= MaxHistoryHops
    /\ ~contentChainBroken(o, r)
    /\ IF o.history = <<>> THEN o.prov = OriginProvenance(r.origin, o.prov.stage, r.sha)
       ELSE LET fresh == fold(r.origin, o.history[1].from, o.history)
            IN  ~fresh.digestFailure /\ o.prov = fresh /\ Revalidated(o, r, reg)

-----------------------------------------------------------------------------
(* The gate.                                                                *)

Claims(a) == [f \in DOMAIN a \ {"signature"} |-> a[f]]

\* The assertion is well formed, signed by a key of the policy, fresh, and about
\* this session and tool, this request and this envelope.
verifyAssertion(a, request) ==
    /\ a.expires > a.issued /\ a.expires - a.issued <= MaxLifetime
    /\ a.issued <= time + FutureSkew
    /\ a.key \in keys /\ a.signature = [by |-> a.key, over |-> Claims(a)]
    /\ time < a.expires
    /\ a.context = "here"
    /\ a.request = digest(request)
    /\ a.envelope = EnvelopeSHA256(obj, root)

FaultyKept == {n \in nonces : n[2] > time + 1}     \* forgets a nonce a second early

\* ConsumeInstructionAuthorityNonce forgets the nonces that have expired.
Kept == {n \in nonces : n[2] > time}

-----------------------------------------------------------------------------
(* Actions.                                                                 *)

AuthorityInit ==
    /\ \E origin \in {"mcp", "user"}, bearing \in BOOLEAN :
       /\ bearing \/ origin = "user"
       /\ LET c == CHOOSE x \in Contents : TRUE IN
          /\ root = [origin |-> origin, bearing |-> bearing, sha |-> digest(c)]
          /\ obj = [content |-> c, bearing |-> bearing, history |-> <<>>,
                    prov |-> OriginProvenance(origin, "origin", digest(c))]
          /\ earned = {ceilingForTrust(origin)}
    /\ registry = Registry /\ changed = FALSE
    /\ made = {} /\ refused = FALSE /\ tampers = 0 /\ forged = FALSE
    /\ keys = {"k1"} /\ time = 0 /\ signed = {} /\ nonces = {} /\ admitted = <<>>

\* Transformations and the registry end before the signing: the gate reads neither,
\* and an object that differs from the signed one is among the edits below.  An
\* object that was edited is transformed like any other.
Transform(t) ==
    /\ signed = {} /\ Cardinality(made) < MaxMade
    /\ obj' = ApplyTransform(obj, t, registry) /\ obj' # obj
    /\ made' = made \cup {NewHop(obj, t, registry)}
    /\ earned' = earned \cup {e.grant : e \in {x \in t.endorse :
                    t.req # NoLevel /\ t.req = x.grant /\ x.bound /\ x.grant <= registry[x.promoter]}}
    /\ refused' = (refused \/ (t.req # NoLevel /\ ~NewHop(obj, t, registry).valid))
    /\ UNCHANGED <<root, registry, changed, tampers, forged, gateVars>>

\* One field of the stored object is edited and the digests stay.
Tamper ==
    /\ tampers < MaxTampers /\ tampers' = tampers + 1
    /\ \/ \E i \in DOMAIN obj.history, v \in BOOLEAN : obj' = [obj EXCEPT !.history[i].valid = v]
       \/ \E i \in DOMAIN obj.history, l \in {NoLevel, 3} :
             obj' = [obj EXCEPT !.history[i].req = l]
       \/ \E i \in DOMAIN obj.history : obj' = [obj EXCEPT !.history[i].ceiling = 3]
       \/ \E i \in DOMAIN obj.history :
             \/ obj' = [obj EXCEPT !.history[i].endorse = {}]
             \/ obj' = [obj EXCEPT !.history = SubSeq(@, 1, i - 1) \o SubSeq(@, i + 1, Len(@))]
       \/ \E c \in Contents : obj' = [obj EXCEPT !.content = c]
       \/ obj' = [obj EXCEPT !.bearing = ~@]
       \/ \E l \in {0, 3} : obj' = [obj EXCEPT !.prov.authority = l]
       \/ obj' = [obj EXCEPT !.prov.origin = "system"]
       \/ obj' = [obj EXCEPT !.prov.stage = Elsewhere]
    /\ obj' # obj
    /\ UNCHANGED <<root, registry, changed, made, earned, refused, forged, gateVars>>

\* What whoever can compute a SHA-256 makes of a hop: an endorsement nobody gave, the
\* verdict and the ceiling that go with it, and the digest of all that.
Forgery(h, p, l) ==
    LET claim == [h EXCEPT !.req = l, !.valid = TRUE, !.ceiling = l,
                     !.endorse = {[promoter |-> p, grant |-> l, stage |-> h.stage, parent |-> h.parent, child |-> h.sha]}]
    IN  [claim EXCEPT !.digest = hopDigest(claim)]

\* The last hop is edited with its digest, and the provenance folded again.  What
\* follows an earlier hop can be taken away first and applied again after it.
Forge(p, l) ==
    /\ tampers < MaxTampers /\ tampers' = tampers + 1 /\ forged' = TRUE
    /\ obj.history # <<>>
    /\ LET n == Len(obj.history)
           hops == [obj.history EXCEPT ![n] = Forgery(obj.history[n], p, l)]
       IN  obj' = [obj EXCEPT !.history = hops, !.prov = fold(root.origin, hops[1].from, hops)]
    /\ obj' # obj
    /\ UNCHANGED <<root, registry, changed, made, earned, refused, gateVars>>

ChangeRegistry(p, l) ==
    /\ signed = {} /\ ~changed /\ changed' = TRUE
    /\ registry[p] # l /\ registry' = [registry EXCEPT ![p] = l]
    /\ UNCHANGED <<root, objVars, gateVars>>

\* The key holder signs the object as it stands for one request.
Sign(request, issued, life) ==
    /\ Cardinality(signed) < MaxSigned /\ Len(obj.history) <= SignedHops /\ tampers <= SignedEdits
    /\ LET claims == [key |-> "k1", context |-> "here", request |-> digest(request),
                      envelope |-> EnvelopeSHA256(obj, root), nonce |-> Cardinality(signed) + 1,
                      issued |-> issued, expires |-> issued + life]
       IN  signed' = signed \cup {[f \in DOMAIN claims \cup {"signature"} |->
                        IF f = "signature" THEN [by |-> "k1", over |-> claims] ELSE claims[f]]}
    /\ UNCHANGED <<root, registry, changed, objVars, keys, time, nonces, admitted>>

\* Assertions are issued for one of the requests; the client may send another.
SignedFor == CHOOSE r \in Requests : TRUE

\* The assertion the client presents may be one it changed.
Presented == signed \cup {[a EXCEPT !.nonce = 0] : a \in signed} \cup {[a EXCEPT !.expires = @ + 1] : a \in signed}

ToolsCall(request, a) ==
    /\ Len(admitted) < MaxAdmitted
    /\ LET verified == verifyAssertion(a, request)
           fresh == \A n \in Kept : n[1] # a.nonce
       IN  /\ nonces' = IF ~verified THEN nonces
                        ELSE IF fresh THEN Kept \cup {<<a.nonce, a.expires>>} ELSE Kept
           /\ admitted' = IF verified /\ fresh /\ Authorize(obj, root)
                          THEN Append(admitted, [request |-> request, obj |-> obj, nonce |-> a.nonce, at |-> time])
                          ELSE admitted
    /\ UNCHANGED <<root, registry, changed, objVars, keys, time, signed>>

\* The time matters to assertions only.
TimePasses ==
    /\ signed # {} /\ time < MaxClock /\ time' = time + 1
    /\ UNCHANGED <<root, registry, changed, objVars, keys, signed, nonces, admitted>>

\* A reload installs the keys of the new policy.
ReloadKeys ==
    /\ signed # {} /\ keys # {} /\ keys' = {}
    /\ UNCHANGED <<root, registry, changed, objVars, time, signed, nonces, admitted>>

AuthorityNext ==
    \/ \E t \in Transforms : Transform(t)
    \/ Tamper
    \/ \E p \in Promoters, l \in {2, 3} : Forge(p, l)
    \/ \E p \in Promoters, l \in {NoLevel, 3} : ChangeRegistry(p, l)
    \/ \E life \in {MaxLifetime, MaxLifetime + 1} : Sign(SignedFor, time, life)
    \/ Sign(SignedFor, time + FutureSkew + 1, MaxLifetime)
    \/ \E r \in Requests, a \in Presented : ToolsCall(r, a)
    \/ TimePasses \/ ReloadKeys

AuthoritySpec == AuthorityInit /\ [][AuthorityNext]_authorityVars

-----------------------------------------------------------------------------
(* Properties.                                                              *)

AuthorityTypeOK ==
    /\ root.bearing \in BOOLEAN /\ obj.content \in Contents
    /\ Len(obj.history) <= MaxHistoryHops + 1
    /\ registry \in [Promoters -> Levels \cup {NoLevel}]
    /\ earned \subseteq Levels /\ time \in 0 .. MaxClock
    /\ \A n \in nonces : n[1] \in 0 .. MaxSigned
    /\ tampers \in 0 .. MaxTampers

\* Whatever was edited in the stored object and transformed after it, as long as no
\* digest is made anew Authorize lets it execute only with an authority that its origin
\* has or that a promoter entitled to it granted in one of its transformations.
AuthorityIsEarned == ~forged /\ Authorize(obj, root) => derivedProvenance(obj, root).authority \in earned

\* A refused promotion is final: no later endorsement and no change of the registry
\* makes the instruction executable, unless the object is edited.
RefusalIsFinal == refused /\ tampers = 0 => ~Authorize(obj, root)

\* As long as no digest is made anew, an object that VerifyProvenance accepts consists of
\* hops just as transformations recorded them, each right after the one before it and
\* the first at the root, and holds the content of the last.
VerifiedIsRecorded ==
    ~forged /\ VerifyProvenance(obj, root, registry) =>
       LET hops == obj.history
       IN  /\ \A i \in DOMAIN hops : /\ hops[i] \in made
                                      /\ hops[i].parentHop = IF i = 1 THEN root.sha ELSE hops[i - 1].digest
           /\ hops = <<>> => digest(obj.content) = root.sha
           /\ hops # <<>> => obj.content = hops[Len(hops)].content

\* Even with digests made anew and endorsements nobody gave, and after any change of the
\* registry, an object that VerifyProvenance accepts has no authority beyond its
\* origin's and the ceiling some promoter has now.
VerifiedIsBacked ==
    VerifyProvenance(obj, root, registry) =>
       \/ obj.prov.authority = ceilingForTrust(root.origin)
       \/ \E p \in Promoters : registry[p] # NoLevel /\ obj.prov.authority <= registry[p]

\* VerifyProvenance accepts what the transformations made, as long as nobody edits it
\* and the registry stays what it was.
RecordedVerifies ==
    tampers = 0 /\ ~changed /\ Len(obj.history) <= MaxHistoryHops => VerifyProvenance(obj, root, registry)

\* An admitted request was signed for that request with that object, had not expired,
\* and no assertion admits twice.
AdmittedOnceAsSigned ==
    /\ \A i \in DOMAIN admitted :
          \E a \in signed : /\ a.nonce = admitted[i].nonce /\ a.request = digest(admitted[i].request)
                            /\ a.envelope = EnvelopeSHA256(admitted[i].obj, root)
                            /\ admitted[i].at < a.expires /\ a.expires - a.issued <= MaxLifetime
    /\ \A i, j \in DOMAIN admitted : admitted[i].nonce = admitted[j].nonce => i = j

\* An object is executed with an authority that was given to it, over edits, refusals
\* and changes of the registry.
AuthorityHolds == AuthorityTypeOK /\ AuthorityIsEarned /\ RefusalIsFinal

\* VerifyProvenance accepts what was recorded and what somebody still stands for, and
\* refuses nothing that was left alone.
VerificationSound == VerifiedIsRecorded /\ VerifiedIsBacked /\ RecordedVerifies
=============================================================================
