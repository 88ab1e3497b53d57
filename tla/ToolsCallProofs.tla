-------------------------- MODULE ToolsCallProofs --------------------------
(***************************************************************************)
(* Proofs about ToolsCall for any tools, policies, requests and numbers of *)
(* calls and reloads.                                                      *)
(***************************************************************************)
EXTENDS ToolsCall, FiniteSetTheorems, WellFoundedInduction, TLAPS

\* The parts of TypeOK that most steps leave alone.
PcType == pc \in {"ready", "gates", "decide", "deny", "approval", "waiting",
                  "recheck", "verify", "commit", "record", "encode", "closed"}
PolicyType ==
    /\ loaded \in Seq(Policies)
    /\ engineGen \in Generations /\ surfaceGen \in Generations
    /\ launched \in Digests
SessionType ==
    /\ toolCalls \in Seq([server : {CfgServer}, tool : Tools])
    /\ taints \subseteq STRING
    /\ spawnDepth \in Nat
    /\ usedNonces \subseteq Nonces
LogType ==
    /\ ledger \in Seq(LedgerRecords)
    /\ auths \in Seq(AuthRecords)
    /\ relayed \in Seq(Nat)
FlagType ==
    /\ rlock \in BOOLEAN
    /\ revoked \in BOOLEAN /\ contained \in BOOLEAN /\ poisoned \in BOOLEAN
LockType ==
    /\ slot \in {"handshake", "loop"}
    /\ wlock \in {"free", "waiting", "locked", "published"}
    /\ calls \in 0 .. MaxCalls
    /\ expired \subseteq Credentials

LEMMA TypeParts ==
    TypeOK <=> /\ PcType /\ PolicyType /\ SessionType /\ LogType /\ FlagType
               /\ LockType /\ cur \in Pinnings
  BY DEF TypeOK, PcType, PolicyType, SessionType, LogType, FlagType, LockType

LEMMA TypePartsNext ==
    ASSUME PcType', PolicyType', SessionType', LogType', FlagType', LockType',
           cur' \in Pinnings'
    PROVE  TypeOK'
  BY DEF TypeOK, PcType, PolicyType, SessionType, LogType, FlagType, LockType

\* What the assumption on Policies says of a loaded policy.
LEMMA PolicyTyped ==
    ASSUME PolicyType, NEW g \in Generations
    PROVE  /\ loaded[g] \in Policies
           /\ loaded[g].taints \in [Tools -> SUBSET STRING]
           /\ loaded[g].needs \in [Tools -> SUBSET Credentials]
  BY PolicyAssumption DEF PolicyType, Generations, PolicyFields

LEMMA IdleTyped == PolicyType => Idle \in Pinnings
  BY DEF PolicyType, Generations, Idle, Pinnings

\* A reload only adds generations.
LEMMA PinningsGrow ==
    ASSUME PolicyType, NEW p \in Policies, loaded' = Append(loaded, p)
    PROVE  Generations \subseteq Generations' /\ Pinnings \subseteq Pinnings'
           /\ Len(loaded') = Len(loaded) + 1
  <1>1. Len(loaded') = Len(loaded) + 1 /\ Len(loaded) \in Nat
    BY DEF PolicyType
  <1>2. Generations \subseteq Generations'
    BY <1>1 DEF Generations
  <1> QED
    BY <1>1, <1>2 DEF Pinnings

LEMMA RecordTyped ==
    ASSUME NEW type \in {"denied", "approval_required", "allowed", "reloaded"},
           NEW n \in Nat, NEW gen \in Nat
    PROVE  Record(type, n, gen) \in LedgerRecords
  <1> DEFINE o == pc \notin {"waiting", "recheck", "verify"} /\ cur.via = "policy"
  <1>1. o \in BOOLEAN
    BY Zenon
  <1> HIDE DEF o
  <1>2. [type |-> type, n |-> n, gen |-> gen, ordered |-> o] \in LedgerRecords
    BY <1>1 DEF LedgerRecords
  <1> QED
    BY <1>2 DEF Record, o

LEMMA LogTyped ==
    ASSUME LogType, NEW r \in LedgerRecords, Log(r)
    PROVE  ledger' \in Seq(LedgerRecords)
  BY DEF LogType, Log

LEMMA DenyTyped ==
    ASSUME TypeOK, DenyCall
    PROVE  /\ PcType' /\ cur' \in Pinnings /\ rlock' \in BOOLEAN
           /\ ledger' \in Seq(LedgerRecords)
  <1>1. cur.n \in Nat /\ cur.gen \in Nat
    BY DEF TypeOK, Pinnings, Generations
  <1>2. ledger' \in Seq(LedgerRecords)
    BY <1>1, RecordTyped, LogTyped, TypeParts DEF DenyCall
  <1>3. cur' \in Pinnings
    BY IdleTyped, TypeParts DEF DenyCall
  <1>4. PcType' /\ rlock' \in BOOLEAN
    BY DEF DenyCall, AfterDeny, PcType
  <1> QED
    BY <1>2, <1>3, <1>4

LEMMA PolicyUnchanged ==
    ASSUME PolicyType, UNCHANGED policyVars
    PROVE  PolicyType' /\ Pinnings' = Pinnings
  BY DEF PolicyType, policyVars, Pinnings, Generations

\* The parts of the state that a step of the client loop never touches.
LEMMA ClientFrame ==
    ASSUME TypeOK, UNCHANGED <<wlock, policyVars, expired, stopVars>>
    PROVE  /\ PolicyType' /\ Pinnings' = Pinnings
           /\ wlock' \in {"free", "waiting", "locked", "published"}
           /\ expired' \subseteq Credentials
           /\ revoked' \in BOOLEAN /\ contained' \in BOOLEAN
  BY PolicyUnchanged, TypeParts DEF LockType, FlagType, stopVars

LEMMA TypeInit == Init => TypeOK
  <1> SUFFICES ASSUME Init PROVE TypeOK
    OBVIOUS
  <1>0. /\ pc = "ready" /\ slot = "handshake" /\ calls = 0 /\ cur = Idle
        /\ wlock = "free" /\ engineGen = 1 /\ surfaceGen = 1
        /\ toolCalls = <<>> /\ taints = {} /\ spawnDepth = 0 /\ usedNonces = {}
        /\ expired = {} /\ ledger = <<>> /\ auths = <<>> /\ relayed = <<>>
    BY DEF Init
  <1>1. PICK p \in Policies : /\ loaded = <<p>>
                              /\ launched = IF p.pin = "" THEN "" ELSE LaunchDigest
    BY DEF Init
  <1>2. PolicyType
    <2>1. p \in Policies /\ loaded = <<p>>
      BY <1>1, Zenon
    <2>2. loaded \in Seq(Policies) /\ Len(loaded) = 1
      BY <2>1
    <2>3. launched \in Digests
      BY <1>1, Zenon DEF Digests
    <2> QED
      BY <1>0, <2>2, <2>3 DEF PolicyType, Generations
  <1>3. cur \in Pinnings
    BY <1>0, <1>2, IdleTyped
  <1>4. FlagType
    BY DEF Init, FlagType
  <1>5. SessionType /\ LogType
    BY <1>0 DEF SessionType, LogType
  <1>6. PcType /\ LockType
    BY <1>0, ToolsCallConstants DEF PcType, LockType
  <1> QED
    BY <1>2, <1>3, <1>4, <1>5, <1>6, TypeParts

\* A step that denies the call in hand and touches nothing else.
LEMMA DenyStepTyped ==
    ASSUME TypeOK, DenyCall,
           UNCHANGED <<slot, calls, wlock, policyVars, sessionVars, expired,
                       stopVars, poisoned, auths, relayed>>
    PROVE  TypeOK'
  <1>1. /\ PolicyType' /\ cur' \in Pinnings' /\ PcType' /\ rlock' \in BOOLEAN
        /\ ledger' \in Seq(LedgerRecords)
    BY ClientFrame, DenyTyped
  <1>2. SessionType' /\ LockType' /\ FlagType' /\ LogType'
    BY <1>1, TypeParts DEF SessionType, LockType, FlagType, LogType, sessionVars, stopVars
  <1> QED
    BY <1>1, <1>2, TypePartsNext

LEMMA TypeBegin ==
    ASSUME TypeOK, NEW req \in Requests, Begin(req)
    PROVE  TypeOK'
  <1>0. /\ calls' = calls + 1 /\ calls \in Nat /\ calls < MaxCalls /\ MaxCalls \in Nat
        /\ UNCHANGED <<slot, wlock, policyVars, sessionVars, expired, stopVars,
                       poisoned, auths, relayed>>
    BY ToolsCallConstants DEF Begin, TypeOK
  <1>1. PolicyType' /\ Pinnings' = Pinnings /\ SessionType' /\ LockType'
    BY <1>0, ClientFrame, TypeParts DEF SessionType, LockType, sessionVars
  <1>2. engineGen \in Nat /\ engineGen \in Generations /\ surfaceGen \in Generations
    BY DEF TypeOK, Generations
  <1>3. CASE revoked
    <2>1. ledger' \in Seq(LedgerRecords)
      <3>1. Record("denied", calls + 1, engineGen) \in LedgerRecords
        BY <1>0, <1>2, RecordTyped
      <3>2. Log(Record("denied", calls + 1, engineGen))
        BY <1>3 DEF Begin
      <3> QED
        BY <3>1, <3>2, LogTyped, TypeParts
    <2>2. PcType' /\ UNCHANGED <<cur, rlock>>
      BY <1>3 DEF Begin, PcType, AfterDeny
    <2>3. LogType' /\ FlagType' /\ cur' \in Pinnings'
      BY <1>0, <1>1, <2>1, <2>2, TypeParts DEF LogType, FlagType, stopVars
    <2> QED
      BY <1>1, <2>2, <2>3, TypePartsNext
  <1>4. CASE ~revoked
    <2>1. /\ cur' = [Idle EXCEPT !.req = req, !.n = calls + 1,
                                 !.gen = engineGen, !.red = surfaceGen]
          /\ rlock' = TRUE /\ pc' = "gates" /\ UNCHANGED ledger
      BY <1>4 DEF Begin, TakeBarrier
    <2>2. cur' \in Pinnings
      <3>1. Idle \in Pinnings /\ calls + 1 \in Nat
        BY <1>0, IdleTyped, TypeParts
      <3> QED
        BY <1>2, <2>1, <3>1 DEF Pinnings
    <2>3. PcType' /\ LogType'
      BY <1>0, <2>1, TypeParts DEF PcType, LogType
    <2>4. FlagType'
      BY <1>0, <2>1, TypeParts DEF FlagType, stopVars
    <2> QED
      BY <1>1, <2>2, <2>3, <2>4, TypePartsNext
  <1> QED
    BY <1>3, <1>4

LEMMA TypeGates == TypeOK /\ Gates => TypeOK'
  <1> SUFFICES ASSUME TypeOK, Gates PROVE TypeOK'
    OBVIOUS
  <1> DEFINE early == IdentityGate \/ LimitsExceeded(Live, Len(toolCalls),
                                                     cur.req.oversize)
             spent == ~early /\ loaded[cur.red].assertions /\ ~AssertionFails
  <1>0. UNCHANGED <<slot, calls, wlock, policyVars, toolCalls, taints,
                    spawnDepth, expired, stopVars, poisoned, auths, relayed>>
    BY DEF Gates
  <1>1. spent => cur.req.nonce \in Nonces
    BY DEF AssertionFails
  <1>2. usedNonces' = IF spent THEN usedNonces \cup {cur.req.nonce} ELSE usedNonces
    BY DEF Gates
  <1>3. SessionType'
    BY <1>0, <1>1, <1>2, TypeParts DEF SessionType
  <1>4. PolicyType' /\ Pinnings' = Pinnings /\ LockType'
    BY <1>0, ClientFrame, TypeParts DEF LockType
  <1>5. CASE DenyCall
    <2>1. /\ PcType' /\ cur' \in Pinnings /\ rlock' \in BOOLEAN
          /\ ledger' \in Seq(LedgerRecords)
      BY <1>5, DenyTyped
    <2>2. FlagType' /\ LogType'
      BY <1>0, <2>1, TypeParts DEF FlagType, LogType, stopVars
    <2> QED
      BY <1>3, <1>4, <2>1, <2>2, TypePartsNext
  <1>6. CASE pc' = "decide" /\ UNCHANGED <<cur, ledger, rlock>>
    <2>1. FlagType' /\ LogType' /\ PcType' /\ cur' \in Pinnings
      BY <1>0, <1>6, TypeParts DEF FlagType, LogType, stopVars, PcType
    <2> QED
      BY <1>3, <1>4, <2>1, TypePartsNext
  <1> QED
    BY <1>5, <1>6 DEF Gates

LEMMA TypeDecide == TypeOK /\ Decide => TypeOK'
  <1> SUFFICES ASSUME TypeOK, Decide PROVE TypeOK'
    OBVIOUS
  <1>0. UNCHANGED <<slot, calls, rlock, wlock, policyVars, toolCalls, taints,
                    usedNonces, expired, stopVars, auditVars, auths, relayed>>
    BY DEF Decide
  <1>1. PICK unit \in BOOLEAN :
            /\ cur' = [cur EXCEPT !.eval = engineGen, !.reserved = unit]
            /\ spawnDepth' = IF unit THEN spawnDepth + 1 ELSE spawnDepth
    BY Zenon DEF Decide
  <1>2. pc' \in {"deny", "approval", "commit"}
    BY DEF Decide
  <1>3. cur' \in Pinnings /\ spawnDepth' \in Nat
    <2>1. cur \in Pinnings /\ engineGen \in Generations /\ spawnDepth \in Nat
      BY DEF TypeOK
    <2>2. cur' \in Pinnings
      BY <1>1, <2>1 DEF Pinnings
    <2> QED
      BY <1>1, <2>1, <2>2
  <1>4. SessionType' /\ PcType'
    BY <1>0, <1>2, <1>3, TypeParts DEF SessionType, PcType
  <1>5. PolicyType' /\ Pinnings' = Pinnings /\ LockType'
    BY <1>0, ClientFrame, TypeParts DEF LockType
  <1>6. FlagType' /\ LogType'
    BY <1>0, TypeParts DEF FlagType, LogType, stopVars, auditVars
  <1> QED
    BY <1>3, <1>4, <1>5, <1>6, TypePartsNext

LEMMA TypeEnvelope == TypeOK /\ DenyEnvelope => TypeOK'
  <1> SUFFICES ASSUME TypeOK, DenyEnvelope PROVE TypeOK'
    OBVIOUS
  <1> DEFINE r == [Record("denied", calls + 1, engineGen) EXCEPT !.ordered = FALSE]
  <1>0. /\ calls' = calls + 1 /\ calls \in Nat /\ calls < MaxCalls /\ MaxCalls \in Nat
        /\ engineGen \in Nat
        /\ UNCHANGED <<slot, cur, rlock, wlock, policyVars, sessionVars, expired,
                       stopVars, poisoned, auths, relayed>>
    BY ToolsCallConstants DEF DenyEnvelope, TypeOK, Generations
  <1>1. PolicyType' /\ Pinnings' = Pinnings /\ SessionType' /\ LockType'
    BY <1>0, ClientFrame, TypeParts DEF SessionType, LockType, sessionVars
  <1>2. r \in LedgerRecords
    <2>1. Record("denied", calls + 1, engineGen) \in LedgerRecords
      BY <1>0, RecordTyped
    <2> QED
      BY <2>1 DEF LedgerRecords
  <1>3. ledger' \in Seq(LedgerRecords) /\ PcType'
    <2>1. Log(r) /\ PcType'
      BY DEF DenyEnvelope, PcType, AfterDeny
    <2> QED
      BY <1>2, <2>1, LogTyped, TypeParts
  <1>4. LogType' /\ FlagType' /\ cur' \in Pinnings'
    BY <1>0, <1>1, <1>3, TypeParts DEF LogType, FlagType, stopVars
  <1> QED
    BY <1>1, <1>3, <1>4, TypePartsNext

LEMMA TypeAskApproval == TypeOK /\ AskApproval => TypeOK'
  <1> SUFFICES ASSUME TypeOK, AskApproval PROVE TypeOK'
    OBVIOUS
  <1>0. UNCHANGED <<slot, calls, wlock, policyVars, sessionVars, expired,
                    stopVars, poisoned, auths, relayed>>
    BY DEF AskApproval
  <1>1. CASE DenyCall
    BY <1>0, <1>1, DenyStepTyped
  <1>2. CASE /\ Log(Record("approval_required", cur.n, cur.gen))
             /\ pc' = "waiting" /\ rlock' = FALSE /\ UNCHANGED cur
    <2>1. cur.n \in Nat /\ cur.gen \in Nat
      BY DEF TypeOK, Pinnings, Generations
    <2>2. ledger' \in Seq(LedgerRecords)
      BY <1>2, <2>1, RecordTyped, LogTyped, TypeParts
    <2>3. PolicyType' /\ cur' \in Pinnings' /\ PcType'
      BY <1>0, <1>2, ClientFrame, TypeParts DEF PcType
    <2>4. SessionType' /\ LockType' /\ FlagType' /\ LogType'
      BY <1>0, <1>2, <2>2, TypeParts
      DEF SessionType, LockType, FlagType, LogType, sessionVars, stopVars
    <2> QED
      BY <2>3, <2>4, TypePartsNext
  <1> QED
    BY <1>1, <1>2 DEF AskApproval, ReleaseForWait

LEMMA TypeApprove == TypeOK /\ Approve => TypeOK'
  <1> SUFFICES ASSUME TypeOK, Approve PROVE TypeOK'
    OBVIOUS
  <1>0. /\ pc' = "recheck"
        /\ UNCHANGED <<slot, calls, rlock, wlock, policyVars, sessionVars, expired,
                       stopVars, auditVars, auths, relayed>>
    BY DEF Approve
  <1>1. PICK stale \in SUBSET (Credentials \cup {"session"}) :
            cur' = [cur EXCEPT !.via = "human", !.stale = stale]
    <2>1. expired \cup (IF revoked THEN {"session"} ELSE {})
             \in SUBSET (Credentials \cup {"session"})
      BY DEF TypeOK
    <2> QED
      BY <2>1, Zenon DEF Approve
  <1>2. cur' \in Pinnings
    <2>1. cur \in Pinnings
      BY DEF TypeOK
    <2> QED
      BY <1>1, <2>1 DEF Pinnings
  <1>3. PolicyType' /\ cur' \in Pinnings' /\ PcType'
    BY <1>0, <1>2, ClientFrame DEF PcType
  <1>4. SessionType' /\ LockType' /\ FlagType' /\ LogType'
    BY <1>0, TypeParts
    DEF SessionType, LockType, FlagType, LogType, sessionVars, stopVars, auditVars
  <1> QED
    BY <1>3, <1>4, TypePartsNext

LEMMA TypeReserve == TypeOK /\ Reserve => TypeOK'
  <1> SUFFICES ASSUME TypeOK, Reserve PROVE TypeOK'
    OBVIOUS
  <1>0. UNCHANGED <<slot, calls, wlock, policyVars, toolCalls, taints,
                    usedNonces, expired, stopVars, poisoned, auths, relayed>>
    BY DEF Reserve
  <1>1. CASE DenyCall /\ UNCHANGED spawnDepth
    BY <1>0, <1>1, DenyStepTyped DEF sessionVars
  <1>2. ASSUME NEW unit \in BOOLEAN,
               cur' = [cur EXCEPT !.reserved = unit],
               spawnDepth' = IF unit THEN spawnDepth + 1 ELSE spawnDepth,
               pc' = "verify", UNCHANGED <<ledger, rlock>>
        PROVE  TypeOK'
    <2>1. cur \in Pinnings /\ spawnDepth \in Nat
      BY DEF TypeOK
    <2>2. cur' \in Pinnings
      BY <1>2, <2>1 DEF Pinnings
    <2>3. spawnDepth' \in Nat
      BY <1>2, <2>1
    <2>4. PolicyType' /\ cur' \in Pinnings' /\ PcType'
      BY <1>0, <1>2, <2>2, ClientFrame DEF PcType
    <2>5. SessionType' /\ LockType' /\ FlagType' /\ LogType'
      BY <1>0, <1>2, <2>3, TypeParts
      DEF SessionType, LockType, FlagType, LogType, stopVars
    <2> QED
      BY <2>4, <2>5, TypePartsNext
  <1>3. (Tool \in Snapshot.delegates) \in BOOLEAN
    OBVIOUS
  <1> QED
    BY <1>1, <1>2, <1>3, Zenon DEF Reserve

LEMMA TypeVerify == TypeOK /\ Verify => TypeOK'
  <1> SUFFICES ASSUME TypeOK, Verify PROVE TypeOK'
    OBVIOUS
  <1>0. UNCHANGED <<slot, calls, wlock, policyVars, toolCalls, taints,
                    usedNonces, expired, stopVars, poisoned, auths, relayed>>
    BY DEF Verify
  <1>1. spawnDepth' \in Nat
    <2>1. spawnDepth \in Nat
      BY DEF TypeOK
    <2> QED BY <2>1 DEF Verify, ReleaseUnit
  <1>2. SessionType' /\ (rlock' \in BOOLEAN => FlagType')
    BY <1>0, <1>1, TypeParts DEF SessionType, FlagType, stopVars
  <1>3. CASE DenyCall
    <2>1. PcType' /\ cur' \in Pinnings /\ rlock' \in BOOLEAN /\ ledger' \in Seq(LedgerRecords)
      BY <1>3, DenyTyped
    <2>2. PolicyType' /\ cur' \in Pinnings'
      BY <1>0, <2>1, ClientFrame
    <2>3. LockType' /\ LogType'
      BY <1>0, <2>1, TypeParts DEF LockType, LogType
    <2> QED
      BY <1>2, <2>1, <2>2, <2>3, TypePartsNext
  <1>4. CASE pc' = "commit" /\ UNCHANGED <<cur, ledger, rlock>>
    <2>1. cur' \in Pinnings
      BY <1>4 DEF TypeOK
    <2>2. PolicyType' /\ cur' \in Pinnings' /\ PcType'
      BY <1>0, <1>4, <2>1, ClientFrame DEF PcType
    <2>3. LockType' /\ LogType'
      BY <1>0, <1>4, TypeParts DEF LockType, LogType
    <2>4. rlock' \in BOOLEAN
      BY <1>4, TypeParts DEF FlagType
    <2> QED
      BY <1>2, <2>2, <2>3, <2>4, TypePartsNext
  <1> QED
    BY <1>3, <1>4 DEF Verify

LEMMA TypeCommitAllow == TypeOK /\ NumberInv /\ CommitAllow => TypeOK'
  <1> SUFFICES ASSUME TypeOK, NumberInv, CommitAllow PROVE TypeOK'
    OBVIOUS
  <1>0. /\ pc = "commit" /\ pc' = "record" /\ rlock' = FALSE
        /\ ledger' = Append(ledger, Record("allowed", cur.n, cur.gen))
        /\ cur' = [cur EXCEPT !.reserved = FALSE]
        /\ UNCHANGED <<slot, calls, wlock, policyVars, toolCalls, spawnDepth,
                       usedNonces, expired, stopVars, poisoned, relayed>>
    BY DEF CommitAllow
  <1>1. cur \in Pinnings /\ cur.req \in Requests /\ spawnDepth \in Nat
        /\ slot \in {"handshake", "loop"}
    BY <1>0 DEF TypeOK, NumberInv, InHand
  <1>2. /\ cur.n \in Nat /\ cur.gen \in Nat /\ cur.red \in Nat /\ cur.eval \in Nat
        /\ cur.gen \in Generations
        /\ cur.via \in {"policy", "human"} /\ cur.reserved \in BOOLEAN
        /\ cur.stale \in SUBSET (Credentials \cup {"session"})
    BY <1>1 DEF Pinnings, Generations
  <1>3. Tool \in Tools /\ cur.req.nonce \in STRING
    BY <1>1, ToolsCallConstants DEF Tool
  <1>4. auths' \in Seq(AuthRecords)
    <2>1. [n |-> cur.n, tool |-> Tool, gen |-> cur.gen, red |-> cur.red,
           eval |-> cur.eval, via |-> cur.via, stale |-> cur.stale,
           unit |-> cur.reserved, depth |-> spawnDepth,
           nonce |-> cur.req.nonce, slot |-> slot] \in AuthRecords
      BY <1>1, <1>2, <1>3 DEF AuthRecords
    <2> QED
      BY <2>1, TypeParts DEF CommitAllow, LogType
  <1>5. ledger' \in Seq(LedgerRecords)
    BY <1>0, <1>2, RecordTyped, TypeParts DEF LogType
  <1>6. taints' \subseteq STRING
    <2>1. Snapshot.taints \in [Tools -> SUBSET STRING]
      BY <1>2, PolicyTyped, TypeParts DEF Snapshot
    <2>2. taints \subseteq STRING /\ taints' = taints \cup Snapshot.taints[Tool]
      BY DEF TypeOK, CommitAllow, MarkTaints
    <2> QED
      BY <1>3, <2>1, <2>2
  <1>7. cur' \in Pinnings
    BY <1>0, <1>1 DEF Pinnings
  <1>8. PolicyType' /\ cur' \in Pinnings' /\ PcType'
    BY <1>0, <1>7, ClientFrame DEF PcType
  <1>9. SessionType' /\ LockType' /\ FlagType' /\ LogType'
    BY <1>0, <1>4, <1>5, <1>6, TypeParts
    DEF SessionType, LockType, FlagType, LogType, stopVars
  <1> QED
    BY <1>8, <1>9, TypePartsNext

LEMMA TypeCommitFails == TypeOK /\ CommitFails => TypeOK'
  <1> SUFFICES ASSUME TypeOK, CommitFails PROVE TypeOK'
    OBVIOUS
  <1>0. /\ pc' = AfterDeny /\ rlock' = FALSE /\ poisoned' = TRUE /\ cur' = Idle
        /\ UNCHANGED <<slot, calls, wlock, policyVars, toolCalls, taints,
                       usedNonces, expired, stopVars, auths, relayed>>
    BY DEF CommitFails, AfterDeny
  <1>1. ledger' \in Seq(LedgerRecords)
    <2>1. cur.n \in Nat /\ cur.gen \in Nat
      BY DEF TypeOK, Pinnings, Generations
    <2>2. Record("allowed", cur.n, cur.gen) \in LedgerRecords
      BY <2>1, RecordTyped
    <2> QED
      BY <2>2, LogTyped, TypeParts DEF CommitFails, LogType
  <1>2. spawnDepth' \in Nat
    BY DEF TypeOK, CommitFails, ReleaseUnit
  <1>3. PolicyType' /\ cur' \in Pinnings' /\ PcType'
    BY <1>0, ClientFrame, IdleTyped, TypeParts DEF PcType, AfterDeny
  <1>4. SessionType' /\ LockType' /\ FlagType' /\ LogType'
    BY <1>0, <1>1, <1>2, TypeParts
    DEF SessionType, LockType, FlagType, LogType, stopVars
  <1> QED
    BY <1>3, <1>4, TypePartsNext

LEMMA TypeRelay ==
    TypeOK /\ NumberInv /\ (RecordCall \/ Encode \/ EncodeFails) => TypeOK'
  <1>1. ASSUME TypeOK, NumberInv, RecordCall PROVE TypeOK'
    <2>0. /\ pc = "record" /\ pc' = "encode"
          /\ UNCHANGED <<slot, calls, cur, rlock, wlock, policyVars, taints,
                         spawnDepth, usedNonces, expired, stopVars, auditVars,
                         auths, relayed>>
      BY <1>1 DEF RecordCall
    <2>1. cur.req \in Requests
      BY <1>1, <2>0 DEF NumberInv, InHand
    <2>2. Tool \in Tools
      BY <2>1, ToolsCallConstants DEF Tool
    <2>3. [server |-> CfgServer, tool |-> Tool] \in [server : {CfgServer}, tool : Tools]
      BY <2>2
    <2>4. toolCalls' \in Seq([server : {CfgServer}, tool : Tools])
      <3>1. toolCalls \in Seq([server : {CfgServer}, tool : Tools])
        BY <1>1 DEF TypeOK
      <3>2. \/ toolCalls' = toolCalls
            \/ toolCalls' = Append(toolCalls, [server |-> CfgServer, tool |-> Tool])
        BY <1>1 DEF RecordCall, RecordToolCall
      <3> DEFINE T == [server : {CfgServer}, tool : Tools]
                 r == [server |-> CfgServer, tool |-> Tool]
      <3>3. r \in T /\ toolCalls \in Seq(T) /\ toolCalls' \in {toolCalls, Append(toolCalls, r)}
        BY <2>3, <3>1, <3>2
      <3> HIDE DEF T, r
      <3>4. toolCalls' \in Seq(T)
        BY <3>3
      <3> QED
        BY <3>4 DEF T
    <2>5. PolicyType' /\ cur' \in Pinnings' /\ PcType'
      BY <1>1, <2>0, ClientFrame, TypeParts DEF PcType
    <2>6. SessionType' /\ LockType' /\ FlagType' /\ LogType'
      BY <1>1, <2>0, <2>4, TypeParts
      DEF SessionType, LockType, FlagType, LogType, stopVars, auditVars
    <2> QED
      BY <2>5, <2>6, TypePartsNext
  <1>2. ASSUME TypeOK, Encode PROVE TypeOK'
    <2>0. /\ pc' = "ready" /\ slot' = "loop" /\ cur' = Idle
          /\ relayed' = Append(relayed, cur.n)
          /\ UNCHANGED <<calls, rlock, wlock, policyVars, sessionVars, expired,
                         stopVars, auditVars, auths>>
      BY <1>2 DEF Encode
    <2>1. cur.n \in Nat /\ relayed \in Seq(Nat)
      BY <1>2 DEF TypeOK, Pinnings
    <2>2. relayed' \in Seq(Nat)
      BY <2>0, <2>1
    <2>3. PolicyType' /\ cur' \in Pinnings' /\ PcType'
      BY <1>2, <2>0, ClientFrame, IdleTyped, TypeParts DEF PcType
    <2>4. SessionType' /\ LockType' /\ FlagType' /\ LogType'
      BY <1>2, <2>0, <2>2, TypeParts
      DEF SessionType, LockType, FlagType, LogType, sessionVars, stopVars, auditVars
    <2> QED
      BY <2>3, <2>4, TypePartsNext
  <1>3. ASSUME TypeOK, EncodeFails PROVE TypeOK'
    <2>0. /\ pc' = "closed" /\ cur' = Idle
          /\ UNCHANGED <<slot, calls, rlock, wlock, policyVars, sessionVars, expired,
                         stopVars, auditVars, auths, relayed>>
      BY <1>3 DEF EncodeFails
    <2>1. PolicyType' /\ cur' \in Pinnings' /\ PcType'
      BY <1>3, <2>0, ClientFrame, IdleTyped, TypeParts DEF PcType
    <2>2. SessionType' /\ LockType' /\ FlagType' /\ LogType'
      BY <1>3, <2>0, TypeParts
      DEF SessionType, LockType, FlagType, LogType, sessionVars, stopVars, auditVars
    <2> QED
      BY <2>1, <2>2, TypePartsNext
  <1> QED
    BY <1>1, <1>2, <1>3

LEMMA TypeReload ==
    ASSUME TypeOK, (\E p \in Policies : ReloadRequest(p)) \/ ReloadStep
    PROVE  TypeOK'
  <1>1. ASSUME NEW p \in Policies, ReloadRequest(p) PROVE TypeOK'
    <2>0. /\ loaded' = Append(loaded, p) /\ wlock' = "waiting"
          /\ UNCHANGED <<clientVars, engineGen, surfaceGen, launched, sessionVars,
                         expired, stopVars, auditVars, auths, relayed>>
      BY <1>1 DEF ReloadRequest
    <2>1. loaded' \in Seq(Policies) /\ Generations \subseteq Generations'
          /\ Pinnings \subseteq Pinnings'
      BY <2>0, PinningsGrow, TypeParts DEF PolicyType
    <2>2. PolicyType'
      BY <2>0, <2>1, TypeParts DEF PolicyType
    <2>3. cur' \in Pinnings' /\ PcType'
      BY <2>0, <2>1, TypeParts DEF PcType, clientVars
    <2>4. SessionType' /\ LockType' /\ FlagType' /\ LogType'
      BY <2>0, TypeParts DEF SessionType, LockType, FlagType, LogType, clientVars,
                             sessionVars, stopVars, auditVars
    <2> QED
      BY <2>2, <2>3, <2>4, TypePartsNext
  <1>2. CASE ReloadLock
    <2>0. /\ wlock' = "locked"
          /\ UNCHANGED <<clientVars, policyVars, sessionVars, expired, stopVars,
                         auditVars, auths, relayed>>
      BY <1>2 DEF ReloadLock
    <2>1. PolicyType' /\ cur' \in Pinnings' /\ PcType'
      BY <2>0, PolicyUnchanged, TypeParts DEF PcType, clientVars
    <2>2. SessionType' /\ LockType' /\ FlagType' /\ LogType'
      BY <2>0, TypeParts DEF SessionType, LockType, FlagType, LogType, clientVars,
                             sessionVars, stopVars, auditVars
    <2> QED
      BY <2>1, <2>2, TypePartsNext
  <1>3. CASE ReloadPublish
    <2>0. /\ wlock' = "published" /\ engineGen' = Len(loaded)
          /\ UNCHANGED <<clientVars, loaded, surfaceGen, launched, sessionVars,
                         expired, stopVars, auditVars, auths, relayed>>
      BY <1>3 DEF ReloadPublish
    <2>1. PolicyType' /\ Pinnings' = Pinnings
      BY <2>0, TypeParts DEF PolicyType, Generations, Pinnings
    <2>2. cur' \in Pinnings' /\ PcType'
      BY <2>0, <2>1, TypeParts DEF PcType, clientVars
    <2>3. SessionType' /\ LockType' /\ FlagType' /\ LogType'
      BY <2>0, TypeParts DEF SessionType, LockType, FlagType, LogType, clientVars,
                             sessionVars, stopVars, auditVars
    <2> QED
      BY <2>1, <2>2, <2>3, TypePartsNext
  <1>4. CASE ReloadSurfaces
    <2> DEFINE r == [Record("reloaded", 0, engineGen) EXCEPT !.ordered = TRUE]
    <2>0. /\ wlock' = "free" /\ surfaceGen' = engineGen /\ Log(r)
          /\ UNCHANGED <<clientVars, loaded, engineGen, launched, sessionVars,
                         expired, stopVars, poisoned, auths, relayed>>
      BY <1>4 DEF ReloadSurfaces
    <2>1. PolicyType' /\ Pinnings' = Pinnings
      BY <2>0, TypeParts DEF PolicyType, Generations, Pinnings
    <2>2. cur' \in Pinnings' /\ PcType'
      BY <2>0, <2>1, TypeParts DEF PcType, clientVars
    <2>3. r \in LedgerRecords
      <3>1. engineGen \in Nat
        BY DEF TypeOK, Generations
      <3>2. Record("reloaded", 0, engineGen) \in LedgerRecords
        BY <3>1, RecordTyped
      <3> QED
        BY <3>2 DEF LedgerRecords
    <2>4. ledger' \in Seq(LedgerRecords)
      BY <2>0, <2>3, LogTyped, TypeParts
    <2>5. SessionType' /\ LockType' /\ FlagType' /\ LogType'
      BY <2>0, <2>4, TypeParts DEF SessionType, LockType, FlagType, LogType,
                                   clientVars, sessionVars, stopVars
    <2> QED
      BY <2>1, <2>2, <2>5, TypePartsNext
  <1> QED
    BY <1>1, <1>2, <1>3, <1>4 DEF ReloadStep

LEMMA TypeStep == TypeOK /\ NumberInv /\ [Next]_vars => TypeOK'
  <1> SUFFICES ASSUME TypeOK, NumberInv, [Next]_vars PROVE TypeOK'
    OBVIOUS
  <1>1. CASE RelayInitialized \/ EndOfInput
    <2>0. /\ pc' \in {"ready", "closed"} /\ slot' \in {slot, "loop"}
          /\ UNCHANGED <<calls, cur, rlock, wlock, policyVars, sessionVars, expired,
                         stopVars, auditVars, auths, relayed>>
      BY <1>1 DEF RelayInitialized, EndOfInput
    <2>1. PolicyType' /\ cur' \in Pinnings' /\ PcType'
      BY <2>0, ClientFrame, TypeParts DEF PcType
    <2>2. SessionType' /\ LockType' /\ FlagType' /\ LogType'
      BY <2>0, TypeParts DEF SessionType, LockType, FlagType, LogType, sessionVars,
                             stopVars, auditVars
    <2> QED
      BY <2>1, <2>2, TypePartsNext
  <1>2. CASE DenyEnvelope
    BY <1>2, TypeEnvelope
  <1>3. ASSUME NEW req \in Requests, Begin(req) PROVE TypeOK'
    BY <1>3, TypeBegin
  <1>4. CASE Gates
    BY <1>4, TypeGates
  <1>5. CASE Decide
    BY <1>5, TypeDecide
  <1>6. CASE Deny \/ Refuse
    BY <1>6, DenyStepTyped DEF Deny, Refuse
  <1>7. CASE AskApproval
    BY <1>7, TypeAskApproval
  <1>8. CASE Reserve \/ Verify
    BY <1>8, TypeReserve, TypeVerify
  <1>9. CASE CommitAllow
    BY <1>9, TypeCommitAllow
  <1>10. CASE CommitFails
    BY <1>10, TypeCommitFails
  <1>11. CASE RecordCall \/ Encode \/ EncodeFails
    BY <1>11, TypeRelay
  <1>12. CASE Approve
    BY <1>12, TypeApprove
  <1>13. CASE (\E p \in Policies : ReloadRequest(p)) \/ ReloadStep
    BY <1>13, TypeReload
  <1>14. CASE KineticLatch \/ KineticContain \/ AuditWriteFails
              \/ (\E c \in Credentials : Expire(c)) \/ UNCHANGED vars
    <2>0. /\ UNCHANGED <<clientVars, wlock, policyVars, sessionVars, ledger, auths,
                         relayed>>
          /\ expired' \subseteq Credentials
      BY <1>14 DEF KineticLatch, KineticContain, AuditWriteFails, Expire, auditVars,
                   TypeOK, vars, clientVars, policyVars, sessionVars
    <2>1. revoked' \in BOOLEAN /\ contained' \in BOOLEAN /\ poisoned' \in BOOLEAN
      BY <1>14 DEF KineticLatch, KineticContain, AuditWriteFails, Expire, auditVars,
                   stopVars, TypeOK, vars
    <2>2. PolicyType' /\ cur' \in Pinnings' /\ PcType'
      BY <2>0, PolicyUnchanged, TypeParts DEF PcType, clientVars
    <2>3. SessionType' /\ LockType' /\ FlagType' /\ LogType'
      BY <2>0, <2>1, TypeParts DEF SessionType, LockType, FlagType, LogType,
                                   clientVars, sessionVars
    <2> QED
      BY <2>2, <2>3, TypePartsNext
  <1> QED
    BY <1>1, <1>2, <1>3, <1>4, <1>5, <1>6, <1>7, <1>8, <1>9, <1>10, <1>11, <1>12,
       <1>13, <1>14 DEF Next, ClientStep

-----------------------------------------------------------------------------
(***************************************************************************)
(* The barrier.                                                            *)
(***************************************************************************)
LEMMA BarrierDeny ==
    ASSUME TypeOK, BarrierInv, DenyCall, UNCHANGED <<wlock, policyVars>>
    PROVE  BarrierInv'
  <1>1. /\ pc' \in {"ready", "closed"} /\ rlock' = FALSE
        /\ UNCHANGED <<wlock, engineGen, surfaceGen>>
    BY DEF DenyCall, AfterDeny, policyVars
  <1> QED
    BY <1>1 DEF BarrierInv, Uncommitted, Undecided

LEMMA BarrierStep == TypeOK /\ BarrierInv /\ [Next]_vars => BarrierInv'
  <1> SUFFICES ASSUME TypeOK, BarrierInv, [Next]_vars PROVE BarrierInv'
    OBVIOUS
  <1> USE DEF Uncommitted, Undecided
  <1>1. CASE RelayInitialized \/ EndOfInput \/ DenyEnvelope
    <2>1. /\ pc = "ready" /\ pc' \in {"ready", "closed"}
          /\ UNCHANGED <<cur, rlock, wlock, engineGen, surfaceGen>>
      BY <1>1 DEF RelayInitialized, EndOfInput, DenyEnvelope, AfterDeny, policyVars
    <2> QED
      BY <2>1 DEF BarrierInv
  <1>2. ASSUME NEW req \in Requests, Begin(req) PROVE BarrierInv'
    <2>0. pc = "ready" /\ wlock = "free" /\ UNCHANGED <<wlock, engineGen, surfaceGen>>
      BY <1>2 DEF Begin, policyVars
    <2>1. CASE revoked
      <3>1. pc' \in {"ready", "closed"} /\ UNCHANGED <<cur, rlock>>
        BY <1>2, <2>1 DEF Begin, AfterDeny
      <3> QED
        BY <2>0, <3>1 DEF BarrierInv
    <2>2. CASE ~revoked
      <3>1. /\ cur' = [Idle EXCEPT !.req = req, !.n = calls + 1,
                                   !.gen = engineGen, !.red = surfaceGen]
            /\ rlock' = TRUE /\ pc' = "gates"
        BY <1>2, <2>2 DEF Begin, TakeBarrier
      <3>2. cur'.gen = engineGen /\ cur'.red = surfaceGen /\ cur'.via = "policy"
        BY <3>1 DEF Idle
      <3> QED
        BY <2>0, <3>1, <3>2 DEF BarrierInv
    <2> QED
      BY <2>1, <2>2
  <1>3. CASE Gates
    <2>0. pc = "gates" /\ UNCHANGED <<wlock, policyVars>>
      BY <1>3 DEF Gates
    <2>1. CASE DenyCall
      BY <2>0, <2>1, BarrierDeny
    <2>2. CASE pc' = "decide" /\ UNCHANGED <<cur, ledger, rlock>>
      BY <2>0, <2>2 DEF BarrierInv, policyVars
    <2> QED
      BY <1>3, <2>1, <2>2 DEF Gates
  <1>4. CASE Decide
    <2>0. /\ pc = "decide" /\ pc' \in {"deny", "approval", "commit"}
          /\ UNCHANGED <<rlock, wlock, engineGen, surfaceGen>>
      BY <1>4 DEF Decide, policyVars
    <2>1. PICK unit : cur' = [cur EXCEPT !.eval = engineGen, !.reserved = unit]
      BY <1>4, Zenon DEF Decide
    <2>2. /\ cur'.eval = engineGen /\ cur'.gen = cur.gen /\ cur'.red = cur.red
          /\ cur'.via = cur.via
      <3>1. cur \in Pinnings
        BY DEF TypeOK
      <3> QED
        BY <2>1, <3>1 DEF Pinnings
    <2> QED
      BY <2>0, <2>2 DEF BarrierInv
  <1>5. CASE Deny \/ Refuse
    BY <1>5, BarrierDeny DEF Deny, Refuse
  <1>6. CASE AskApproval
    <2>0. pc = "approval" /\ UNCHANGED <<wlock, policyVars>>
      BY <1>6 DEF AskApproval
    <2>1. CASE DenyCall
      BY <2>0, <2>1, BarrierDeny
    <2>2. CASE pc' = "waiting" /\ rlock' = FALSE /\ UNCHANGED cur
      BY <2>0, <2>2 DEF BarrierInv, policyVars
    <2> QED
      BY <1>6, <2>1, <2>2 DEF AskApproval, ReleaseForWait
  <1>7. CASE Approve
    <2>0. /\ pc = "waiting" /\ pc' = "recheck"
          /\ UNCHANGED <<rlock, wlock, engineGen, surfaceGen>>
      BY <1>7 DEF Approve, policyVars
    <2>1. /\ cur'.via = "human" /\ cur'.gen = cur.gen /\ cur'.red = cur.red
          /\ cur'.eval = cur.eval
      BY <1>7 DEF Approve, TypeOK, Pinnings
    <2> QED
      BY <2>0, <2>1 DEF BarrierInv
  <1>8. CASE Reserve
    <2>0. pc = "recheck" /\ UNCHANGED <<wlock, policyVars>>
      BY <1>8 DEF Reserve
    <2>1. CASE DenyCall
      BY <2>0, <2>1, BarrierDeny
    <2>2. ASSUME NEW unit, cur' = [cur EXCEPT !.reserved = unit], pc' = "verify",
                 UNCHANGED rlock
          PROVE  BarrierInv'
      <3>1. /\ cur'.via = cur.via /\ cur'.gen = cur.gen /\ cur'.red = cur.red
            /\ cur'.eval = cur.eval
        BY <2>2 DEF TypeOK, Pinnings
      <3> QED
        BY <2>0, <2>2, <3>1 DEF BarrierInv, policyVars
    <2> QED
      BY <1>8, <2>1, <2>2, Zenon DEF Reserve
  <1>16. CASE Verify
    <2>0. pc = "verify" /\ UNCHANGED <<wlock, policyVars>>
      BY <1>16 DEF Verify
    <2>1. CASE DenyCall
      BY <2>0, <2>1, BarrierDeny
    <2>2. CASE pc' = "commit" /\ UNCHANGED <<cur, rlock>>
      BY <2>0, <2>2 DEF BarrierInv, policyVars
    <2> QED
      BY <1>16, <2>1, <2>2 DEF Verify
  <1>9. CASE CommitAllow \/ CommitFails
    <2>0. /\ pc = "commit" /\ pc' \in {"record", "ready", "closed"} /\ rlock' = FALSE
          /\ UNCHANGED <<wlock, engineGen, surfaceGen>>
      BY <1>9 DEF CommitAllow, CommitFails, AfterDeny, policyVars
    <2> QED
      BY <2>0 DEF BarrierInv
  <1>10. CASE RecordCall \/ Encode \/ EncodeFails
    <2>0. /\ pc \in {"record", "encode"} /\ pc' \in {"encode", "ready", "closed"}
          /\ UNCHANGED <<rlock, wlock, engineGen, surfaceGen>>
      BY <1>10 DEF RecordCall, Encode, EncodeFails, policyVars
    <2> QED
      BY <2>0 DEF BarrierInv
  <1>11. ASSUME NEW p \in Policies, ReloadRequest(p) PROVE BarrierInv'
    BY <1>11 DEF ReloadRequest, clientVars, BarrierInv
  <1>12. CASE ReloadLock
    BY <1>12 DEF ReloadLock, clientVars, policyVars, BarrierInv
  <1>13. CASE ReloadPublish
    BY <1>13 DEF ReloadPublish, clientVars, BarrierInv
  <1>14. CASE ReloadSurfaces
    BY <1>14 DEF ReloadSurfaces, clientVars, BarrierInv
  <1>15. CASE KineticLatch \/ KineticContain \/ AuditWriteFails
              \/ (\E c \in Credentials : Expire(c)) \/ UNCHANGED vars
    <2>0. UNCHANGED <<pc, cur, rlock, wlock, engineGen, surfaceGen>>
      BY <1>15 DEF KineticLatch, KineticContain, AuditWriteFails, Expire, vars,
                   clientVars, policyVars
    <2> QED
      BY <2>0 DEF BarrierInv
  <1> QED
    BY <1>1, <1>2, <1>3, <1>4, <1>5, <1>6, <1>7, <1>8, <1>9, <1>10, <1>11, <1>12,
       <1>13, <1>14, <1>15, <1>16 DEF Next, ClientStep, ReloadStep

-----------------------------------------------------------------------------
(***************************************************************************)
(* Numbers, generations and the committed authorizations.                  *)
(***************************************************************************)
\* A step that adds neither an authorization nor a relayed request, and ends
\* the request in hand or keeps it in hand on the same side of the commit.
LEMMA NumberFrame ==
    ASSUME TypeOK, NumberInv, UNCHANGED <<calls, auths, relayed>>,
           contained' => revoked',
           \/ pc' \in {"ready", "closed"}
           \/ /\ cur'.req = cur.req /\ cur'.n = cur.n
              /\ \/ pc \in Uncommitted /\ pc' \in Uncommitted
                 \/ pc \in {"record", "encode"} /\ pc' \in {"record", "encode"}
    PROVE  NumberInv'
  BY DEF NumberInv, InHand, Uncommitted

LEMMA NumberStep == TypeOK /\ NumberInv /\ [Next]_vars => NumberInv'
  <1> SUFFICES ASSUME TypeOK, NumberInv, [Next]_vars PROVE NumberInv'
    OBVIOUS
  <1>0. /\ calls \in Nat /\ cur \in Pinnings /\ auths \in Seq(AuthRecords)
        /\ relayed \in Seq(Nat) /\ (contained => revoked)
    BY DEF TypeOK, NumberInv
  <1>1. CASE RelayInitialized \/ EndOfInput
    <2>1. /\ pc' \in {"ready", "closed"}
          /\ UNCHANGED <<calls, auths, relayed, revoked, contained>>
      BY <1>1 DEF RelayInitialized, EndOfInput, stopVars
    <2> QED
      BY <1>0, <2>1, NumberFrame
  <1>2. CASE DenyEnvelope \/ \E req \in Requests : Begin(req)
    <2>1. /\ calls' = calls + 1 /\ UNCHANGED <<auths, relayed, revoked, contained>>
          /\ pc' \in {"ready", "closed", "gates"}
      BY <1>2 DEF DenyEnvelope, Begin, stopVars, AfterDeny
    <2>2. pc' = "gates" => cur'.req \in Requests /\ cur'.n = calls + 1
      <3>1. CASE DenyEnvelope
        BY <3>1 DEF DenyEnvelope, AfterDeny
      <3>2. ASSUME NEW req \in Requests, Begin(req)
            PROVE  pc' = "gates" => cur'.req \in Requests /\ cur'.n = calls + 1
        <4>1. CASE revoked
          BY <3>2, <4>1 DEF Begin, AfterDeny
        <4>2. CASE ~revoked
          BY <3>2, <4>2 DEF Begin, Idle
        <4> QED
          BY <4>1, <4>2
      <3> QED
        BY <1>2, <3>1, <3>2
    <2>3. \A k \in DOMAIN auths : auths[k].n \in 1 .. calls' /\ auths[k].n # calls'
      BY <1>0, <2>1 DEF NumberInv
    <2>4. \A i \in DOMAIN relayed : relayed[i] \in 1 .. calls' /\ relayed[i] # calls'
      BY <1>0, <2>1 DEF NumberInv
    <2> QED
      BY <1>0, <2>1, <2>2, <2>3, <2>4 DEF NumberInv, InHand, Uncommitted
  <1>3. CASE Gates
    <2>0. pc = "gates" /\ UNCHANGED <<calls, auths, relayed, revoked, contained>>
      BY <1>3 DEF Gates, stopVars
    <2>1. pc' \in {"ready", "closed"} \/ (pc' = "decide" /\ UNCHANGED cur)
      BY <1>3 DEF Gates, DenyCall, AfterDeny
    <2> QED
      BY <1>0, <2>0, <2>1, NumberFrame DEF Uncommitted
  <1>4. CASE Decide
    <2>0. /\ pc = "decide" /\ pc' \in {"deny", "approval", "commit"}
          /\ UNCHANGED <<calls, auths, relayed, revoked, contained>>
      BY <1>4 DEF Decide, stopVars
    <2>1. PICK unit : cur' = [cur EXCEPT !.eval = engineGen, !.reserved = unit]
      BY <1>4, Zenon DEF Decide
    <2>2. cur'.req = cur.req /\ cur'.n = cur.n
      BY <1>0, <2>1 DEF Pinnings
    <2> QED
      BY <1>0, <2>0, <2>2, NumberFrame DEF Uncommitted
  <1>5. CASE Deny \/ Refuse
    <2>1. /\ pc' \in {"ready", "closed"}
          /\ UNCHANGED <<calls, auths, relayed, revoked, contained>>
      BY <1>5 DEF Deny, Refuse, DenyCall, AfterDeny, stopVars
    <2> QED
      BY <1>0, <2>1, NumberFrame
  <1>6. CASE AskApproval
    <2>1. /\ pc = "approval" /\ UNCHANGED <<calls, auths, relayed, revoked, contained>>
          /\ pc' \in {"ready", "closed"} \/ (pc' = "waiting" /\ UNCHANGED cur)
      BY <1>6 DEF AskApproval, DenyCall, AfterDeny, stopVars
    <2> QED
      BY <1>0, <2>1, NumberFrame DEF Uncommitted
  <1>7. CASE Approve
    <2>1. /\ pc = "waiting" /\ pc' = "recheck"
          /\ UNCHANGED <<calls, auths, relayed, revoked, contained>>
          /\ cur'.req = cur.req /\ cur'.n = cur.n
      BY <1>0, <1>7 DEF Approve, stopVars, Pinnings
    <2> QED
      BY <1>0, <2>1, NumberFrame DEF Uncommitted
  <1>8. CASE Reserve
    <2>0. pc = "recheck" /\ UNCHANGED <<calls, auths, relayed, revoked, contained>>
      BY <1>8 DEF Reserve, stopVars
    <2>1. CASE DenyCall
      BY <1>0, <2>0, <2>1, NumberFrame DEF DenyCall, AfterDeny
    <2>2. ASSUME NEW unit, cur' = [cur EXCEPT !.reserved = unit], pc' = "verify"
          PROVE  NumberInv'
      <3>1. cur'.req = cur.req /\ cur'.n = cur.n
        BY <1>0, <2>2 DEF Pinnings
      <3> QED
        BY <1>0, <2>0, <2>2, <3>1, NumberFrame DEF Uncommitted
    <2> QED
      BY <1>8, <2>1, <2>2, Zenon DEF Reserve
  <1>16. CASE Verify
    <2>0. pc = "verify" /\ UNCHANGED <<calls, auths, relayed, revoked, contained>>
      BY <1>16 DEF Verify, stopVars
    <2>1. pc' \in {"ready", "closed"} \/ (pc' = "commit" /\ UNCHANGED cur)
      BY <1>16 DEF Verify, DenyCall, AfterDeny
    <2> QED
      BY <1>0, <2>0, <2>1, NumberFrame DEF Uncommitted
  <1>9. CASE CommitAllow
    <2>0. /\ pc = "commit" /\ pc' = "record"
          /\ UNCHANGED <<calls, relayed, revoked, contained>>
          /\ cur' = [cur EXCEPT !.reserved = FALSE]
      BY <1>9 DEF CommitAllow, stopVars
    <2>1. PICK a : a.n = cur.n /\ auths' = Append(auths, a)
      BY <1>9 DEF CommitAllow
    <2>2. cur'.req = cur.req /\ cur'.n = cur.n
      BY <1>0, <2>0 DEF Pinnings
    <2>3. cur.req \in Requests /\ cur.n = calls /\ calls > 0
      BY <2>0 DEF NumberInv, InHand
    <2>4. /\ DOMAIN auths = 1 .. Len(auths) /\ Len(auths) \in Nat
          /\ DOMAIN auths' = 1 .. Len(auths) + 1
          /\ \A k \in 1 .. Len(auths) : auths'[k] = auths[k]
          /\ auths'[Len(auths) + 1] = a
      BY <1>0, <2>1
    <2>5. \A k \in DOMAIN auths' : auths'[k].n \in 1 .. calls
      BY <1>0, <2>1, <2>3, <2>4 DEF NumberInv
    <2>6. \E k \in DOMAIN auths' : auths'[k].n = calls
      BY <2>1, <2>3, <2>4
    <2> QED
      BY <1>0, <2>0, <2>2, <2>3, <2>5, <2>6 DEF NumberInv, InHand, Uncommitted
  <1>10. CASE CommitFails
    <2>1. /\ pc' \in {"ready", "closed"}
          /\ UNCHANGED <<calls, auths, relayed, revoked, contained>>
      BY <1>10 DEF CommitFails, AfterDeny, stopVars
    <2> QED
      BY <1>0, <2>1, NumberFrame
  <1>11. CASE RecordCall \/ EncodeFails
    <2>1. /\ pc \in {"record", "encode"} /\ (pc' = "closed" \/ (pc' = "encode" /\ UNCHANGED cur))
          /\ UNCHANGED <<calls, auths, relayed, revoked, contained>>
      BY <1>11 DEF RecordCall, EncodeFails, stopVars
    <2> QED
      BY <1>0, <2>1, NumberFrame
  <1>12. CASE Encode
    <2>0. /\ pc = "encode" /\ pc' = "ready" /\ relayed' = Append(relayed, cur.n)
          /\ UNCHANGED <<calls, auths, revoked, contained>>
      BY <1>12 DEF Encode, stopVars
    <2>1. cur.n = calls /\ calls > 0
      BY <2>0 DEF NumberInv, InHand
    <2>2. \A i \in DOMAIN relayed' : relayed'[i] \in 1 .. calls
      BY <1>0, <2>0, <2>1 DEF NumberInv
    <2> QED
      BY <1>0, <2>0, <2>2 DEF NumberInv, InHand, Uncommitted
  <1>13. CASE (\E p \in Policies : ReloadRequest(p)) \/ ReloadStep
    <2>1. UNCHANGED <<pc, cur, calls, auths, relayed, revoked, contained>>
      BY <1>13 DEF ReloadRequest, ReloadStep, ReloadLock, ReloadPublish,
                   ReloadSurfaces, clientVars, stopVars
    <2> QED
      BY <2>1 DEF NumberInv, InHand
  <1>14. CASE KineticLatch \/ KineticContain \/ AuditWriteFails
              \/ (\E c \in Credentials : Expire(c)) \/ UNCHANGED vars
    <2>1. UNCHANGED <<pc, cur, calls, auths, relayed>> /\ (contained' => revoked')
      BY <1>0, <1>14 DEF KineticLatch, KineticContain, AuditWriteFails, Expire, vars,
                         clientVars, stopVars
    <2> QED
      BY <2>1 DEF NumberInv, InHand
  <1> QED
    BY <1>1, <1>2, <1>3, <1>4, <1>5, <1>6, <1>7, <1>8, <1>9, <1>10, <1>11, <1>12,
       <1>13, <1>14, <1>16 DEF Next, ClientStep

LEMMA GenerationStep == TypeOK /\ GenerationInv /\ [Next]_vars => GenerationInv'
  <1> SUFFICES ASSUME TypeOK, GenerationInv, [Next]_vars PROVE GenerationInv'
    OBVIOUS
  <1>0. loaded \in Seq(Policies) /\ Len(loaded) \in Nat
    BY DEF TypeOK
  <1>1. ASSUME NEW p \in Policies, ReloadRequest(p) PROVE GenerationInv'
    <2>1. /\ wlock = "free" /\ wlock' = "waiting" /\ loaded' = Append(loaded, p)
          /\ engineGen' = engineGen
      BY <1>1 DEF ReloadRequest
    <2>2. Len(loaded') = Len(loaded) + 1
      BY <1>0, <2>1
    <2> QED
      BY <1>0, <2>1, <2>2 DEF GenerationInv
  <1>2. CASE ReloadLock
    BY <1>2 DEF ReloadLock, policyVars, GenerationInv
  <1>3. CASE ReloadPublish
    BY <1>3 DEF ReloadPublish, GenerationInv
  <1>4. CASE ReloadSurfaces
    BY <1>4 DEF ReloadSurfaces, GenerationInv
  <1>5. CASE UNCHANGED <<wlock, loaded, engineGen>>
    BY <1>5 DEF GenerationInv
  <1>6. CASE ClientStep \/ RelayInitialized \/ DenyEnvelope \/ EndOfInput
             \/ (\E req \in Requests : Begin(req)) \/ Refuse \/ Approve
             \/ KineticLatch \/ KineticContain
             \/ (\E c \in Credentials : Expire(c)) \/ AuditWriteFails
             \/ UNCHANGED vars
    <2>1. UNCHANGED <<wlock, loaded, engineGen>>
      BY <1>6 DEF ClientStep, Gates, Decide, Deny, AskApproval, Reserve, Verify,
                  CommitAllow, CommitFails, RecordCall, Encode, EncodeFails, RelayInitialized,
                  DenyEnvelope, EndOfInput, Begin, Refuse, Approve, KineticLatch,
                  KineticContain, Expire, AuditWriteFails, vars, policyVars
    <2> QED
      BY <1>5, <2>1
  <1> QED
    BY <1>1, <1>2, <1>3, <1>4, <1>6 DEF Next, ReloadStep

\* An authorization is added by CommitAllow only, with what the call pinned.
LEMMA AuthsShape ==
    ASSUME [Next]_vars
    PROVE  UNCHANGED auths \/ CommitAllow
  BY DEF Next, ClientStep, ReloadStep, Gates, Decide, Deny, AskApproval, Reserve, Verify,
         CommitFails, RecordCall, Encode, EncodeFails, RelayInitialized, DenyEnvelope,
         EndOfInput, Begin, Refuse, Approve, KineticLatch, KineticContain, Expire,
         AuditWriteFails, ReloadRequest, ReloadLock, ReloadPublish, ReloadSurfaces, vars

LEMMA OneGenerationStep ==
    TypeOK /\ BarrierInv /\ OneGeneration /\ [Next]_vars => OneGeneration'
  <1> SUFFICES ASSUME TypeOK, BarrierInv, OneGeneration, [Next]_vars
               PROVE  OneGeneration'
    OBVIOUS
  <1>1. CASE UNCHANGED auths
    BY <1>1 DEF OneGeneration
  <1>2. CASE CommitAllow
    <2>1. PICK a : /\ auths' = Append(auths, a)
                   /\ a.gen = cur.gen /\ a.red = cur.red /\ a.eval = cur.eval
      BY <1>2 DEF CommitAllow
    <2>2. a.red = a.gen /\ a.eval = a.gen
      BY <1>2, <2>1 DEF CommitAllow, BarrierInv, Uncommitted, Undecided
    <2>3. auths \in Seq(AuthRecords)
      BY DEF TypeOK
    <2>4. \A k \in DOMAIN auths' : (k \in DOMAIN auths /\ auths'[k] = auths[k])
                                   \/ auths'[k] = a
      BY <2>1, <2>3
    <2> QED
      BY <2>2, <2>4 DEF OneGeneration
  <1> QED
    BY <1>1, <1>2, AuthsShape

-----------------------------------------------------------------------------
(***************************************************************************)
(* The ledger.                                                             *)
(***************************************************************************)
\* A decision record that counts as ordered is written under the barrier.
LEMMA OrderedUnderBarrier ==
    ASSUME BarrierInv, pc \in Uncommitted, NEW type,
           Record(type, cur.n, cur.gen).ordered
    PROVE  cur.gen = engineGen /\ wlock \in {"free", "waiting"}
  <1>1. pc \notin {"waiting", "recheck", "verify"} /\ cur.via = "policy"
    BY DEF Record
  <1> QED
    BY <1>1 DEF BarrierInv, Uncommitted

\* What a step appends to the ledger: a record outside the barrier, a decision
\* on the engine's generation, or the record of the reload that ends.
Appended(r) ==
    /\ ledger' = Append(ledger, r)
    /\ UNCHANGED engineGen
    /\ wlock' = "published" => wlock = "published"
    /\ r.ordered => /\ r.gen = engineGen
                    /\ wlock' # "published"
                    /\ r.type = "reloaded" => wlock = "published"

\* A step that appends nothing leaves the engine alone or publishes.
Silent ==
    /\ UNCHANGED ledger
    /\ \/ UNCHANGED engineGen /\ (wlock' = "published" => wlock = "published")
       \/ wlock = "locked" /\ engineGen' = Len(loaded)

LEMMA LogDecision ==
    ASSUME TypeOK, BarrierInv, pc \in Uncommitted, UNCHANGED <<wlock, policyVars>>,
           NEW type \in {"denied", "approval_required", "allowed"},
           Log(Record(type, cur.n, cur.gen))
    PROVE  Silent \/ \E r \in LedgerRecords : Appended(r)
  <1> DEFINE r == Record(type, cur.n, cur.gen)
  <1>1. cur.n \in Nat /\ cur.gen \in Nat
    BY DEF TypeOK, Pinnings, Generations
  <1>2. r \in LedgerRecords
    BY <1>1, RecordTyped
  <1>3. r.gen = cur.gen /\ r.type = type
    BY DEF Record
  <1>4. CASE poisoned
    BY <1>4 DEF Log, Silent, policyVars
  <1>5. CASE ~poisoned
    <2>1. ledger' = Append(ledger, r)
      BY <1>5 DEF Log
    <2>2. r.ordered => cur.gen = engineGen /\ wlock \in {"free", "waiting"}
      BY OrderedUnderBarrier
    <2> HIDE DEF r
    <2>3. Appended(r)
      BY <1>3, <2>1, <2>2 DEF Appended, policyVars
    <2> QED
      BY <1>2, <2>3
  <1> QED
    BY <1>4, <1>5

LEMMA LedgerShape ==
    ASSUME TypeOK, BarrierInv, [Next]_vars
    PROVE  Silent \/ \E r \in LedgerRecords : Appended(r)
  <1> USE DEF Uncommitted
  <1>0. calls \in Nat /\ engineGen \in Nat
    BY DEF TypeOK, Generations
  <1>1. CASE DenyEnvelope
    <2> DEFINE r == [Record("denied", calls + 1, engineGen) EXCEPT !.ordered = FALSE]
    <2>1. Log(r) /\ UNCHANGED <<engineGen, wlock>>
      BY <1>1 DEF DenyEnvelope, policyVars
    <2>2. Record("denied", calls + 1, engineGen) \in LedgerRecords
      BY <1>0, RecordTyped
    <2>3. r \in LedgerRecords /\ ~r.ordered
      BY <2>2 DEF LedgerRecords
    <2> HIDE DEF r
    <2> QED
      BY <2>1, <2>3 DEF Log, Silent, Appended
  <1>2. ASSUME NEW req \in Requests, Begin(req)
        PROVE  Silent \/ \E r \in LedgerRecords : Appended(r)
    <2> DEFINE r == Record("denied", calls + 1, engineGen)
    <2>1. UNCHANGED <<engineGen, wlock>> /\ wlock = "free" /\ (UNCHANGED ledger \/ Log(r))
      BY <1>2 DEF Begin, policyVars
    <2>2. r \in LedgerRecords /\ r.gen = engineGen /\ r.type = "denied"
      BY <1>0, RecordTyped DEF Record
    <2> HIDE DEF r
    <2> QED
      BY <2>1, <2>2 DEF Log, Silent, Appended
  <1>3. CASE Gates \/ Deny \/ Refuse \/ AskApproval \/ Reserve \/ Verify
    <2>1. /\ pc \in Uncommitted /\ UNCHANGED <<wlock, policyVars>>
          /\ \/ UNCHANGED ledger
             \/ Log(Record("denied", cur.n, cur.gen))
             \/ Log(Record("approval_required", cur.n, cur.gen))
      BY <1>3 DEF Gates, Deny, Refuse, AskApproval, Reserve, Verify, DenyCall
    <2>2. CASE UNCHANGED ledger
      BY <2>1, <2>2 DEF Silent, policyVars
    <2> QED
      BY <2>1, <2>2, LogDecision
  <1>4. CASE CommitAllow \/ CommitFails
    <2>1. /\ pc \in Uncommitted /\ UNCHANGED <<wlock, policyVars>>
          /\ UNCHANGED ledger \/ Log(Record("allowed", cur.n, cur.gen))
      BY <1>4 DEF CommitAllow, CommitFails, Log
    <2>2. CASE UNCHANGED ledger
      BY <2>1, <2>2 DEF Silent, policyVars
    <2> QED
      BY <2>1, <2>2, LogDecision
  <1>5. CASE ReloadSurfaces
    <2> DEFINE r == [Record("reloaded", 0, engineGen) EXCEPT !.ordered = TRUE]
    <2>1. Log(r) /\ UNCHANGED engineGen /\ wlock = "published" /\ wlock' = "free"
      BY <1>5 DEF ReloadSurfaces
    <2>2. Record("reloaded", 0, engineGen) \in LedgerRecords
          /\ Record("reloaded", 0, engineGen).gen = engineGen
      BY <1>0, RecordTyped DEF Record
    <2>3. r \in LedgerRecords /\ r.gen = engineGen
      BY <2>2 DEF LedgerRecords
    <2> HIDE DEF r
    <2> QED
      BY <2>1, <2>3 DEF Log, Silent, Appended
  <1>6. CASE ReloadPublish
    BY <1>6 DEF ReloadPublish, auditVars, Silent
  <1>7. CASE RelayInitialized \/ EndOfInput \/ Decide \/ Approve \/ RecordCall
             \/ Encode \/ EncodeFails \/ (\E p \in Policies : ReloadRequest(p))
             \/ ReloadLock \/ KineticLatch \/ KineticContain
             \/ (\E c \in Credentials : Expire(c)) \/ AuditWriteFails
             \/ UNCHANGED vars
    BY <1>7 DEF RelayInitialized, EndOfInput, Decide, Approve, RecordCall, Encode,
                EncodeFails, ReloadRequest, ReloadLock, KineticLatch, KineticContain,
                Expire, AuditWriteFails, vars, policyVars, auditVars, Silent
  <1> QED
    BY <1>1, <1>2, <1>3, <1>4, <1>5, <1>6, <1>7 DEF Next, ClientStep, ReloadStep

LEMMA LedgerStep ==
    TypeOK /\ BarrierInv /\ GenerationInv /\ LedgerInv /\ LedgerFollowsReloads
        /\ [Next]_vars => LedgerInv' /\ LedgerFollowsReloads'
  <1> SUFFICES ASSUME TypeOK, BarrierInv, GenerationInv, LedgerInv,
                      LedgerFollowsReloads, [Next]_vars
               PROVE  LedgerInv' /\ LedgerFollowsReloads'
    OBVIOUS
  <1>0. /\ ledger \in Seq(LedgerRecords) /\ engineGen \in Nat
        /\ loaded \in Seq(Policies) /\ Len(loaded) \in Nat
        /\ \A i \in DOMAIN ledger : ledger[i].gen \in Nat
    <2>1. /\ ledger \in Seq(LedgerRecords) /\ engineGen \in Nat
          /\ loaded \in Seq(Policies) /\ Len(loaded) \in Nat
      BY DEF TypeOK, Generations
    <2>2. \A i \in DOMAIN ledger : ledger[i] \in LedgerRecords
      BY <2>1
    <2> QED
      BY <2>1, <2>2 DEF LedgerRecords
  <1>1. CASE Silent
    <2>1. LedgerFollowsReloads'
      BY <1>1 DEF Silent, LedgerFollowsReloads
    <2>2. CASE UNCHANGED engineGen /\ (wlock' = "published" => wlock = "published")
      BY <1>1, <2>1, <2>2 DEF Silent, LedgerInv
    <2>3. CASE wlock = "locked" /\ engineGen' = Len(loaded)
      <3>1. engineGen < engineGen'
        BY <2>3 DEF GenerationInv
      <3> QED
        BY <1>0, <1>1, <2>1, <2>3, <3>1 DEF Silent, LedgerInv
    <2> QED
      BY <1>1, <2>2, <2>3 DEF Silent
  <1>2. ASSUME NEW r \in LedgerRecords, Appended(r)
        PROVE  LedgerInv' /\ LedgerFollowsReloads'
    <2>1. /\ ledger' \in Seq(LedgerRecords) /\ DOMAIN ledger = 1 .. Len(ledger)
          /\ Len(ledger) \in Nat /\ DOMAIN ledger' = 1 .. Len(ledger) + 1
          /\ \A i \in 1 .. Len(ledger) : ledger'[i] = ledger[i]
          /\ ledger'[Len(ledger) + 1] = r
      BY <1>0, <1>2 DEF Appended
    <2>2. \A i, j \in DOMAIN ledger' :
             i < j => i \in DOMAIN ledger /\ ledger'[i] = ledger[i]
                      /\ (j \in DOMAIN ledger \/ j = Len(ledger) + 1)
      BY <2>1
    <2>3. ASSUME r.ordered, NEW i \in DOMAIN ledger, ledger[i].ordered
          PROVE  ledger[i].gen <= r.gen /\ (r.type = "reloaded" => ledger[i].gen < r.gen)
      BY <1>2, <2>3 DEF Appended, LedgerInv
    <2>4. LedgerFollowsReloads'
      <3> SUFFICES ASSUME NEW i \in DOMAIN ledger', NEW j \in DOMAIN ledger',
                          i < j, ledger'[i].ordered, ledger'[j].ordered
                   PROVE  /\ ledger'[i].gen <= ledger'[j].gen
                          /\ ledger'[j].type = "reloaded"
                                => ledger'[i].gen < ledger'[j].gen
        BY DEF LedgerFollowsReloads
      <3>1. i \in DOMAIN ledger /\ ledger'[i] = ledger[i]
        BY <2>2
      <3>2. CASE j \in DOMAIN ledger
        BY <2>1, <3>1, <3>2 DEF LedgerFollowsReloads
      <3>3. CASE j = Len(ledger) + 1
        BY <2>1, <2>3, <3>1, <3>3
      <3> QED
        BY <2>2, <3>2, <3>3
    <2>5. LedgerInv'
      <3> SUFFICES ASSUME NEW i \in DOMAIN ledger', ledger'[i].ordered
                   PROVE  /\ ledger'[i].gen <= engineGen'
                          /\ wlock' = "published" => ledger'[i].gen < engineGen'
        BY DEF LedgerInv
      <3>1. CASE i = Len(ledger) + 1
        BY <1>0, <1>2, <2>1, <3>1 DEF Appended
      <3>2. CASE i \in DOMAIN ledger
        <4>1. UNCHANGED engineGen /\ (wlock' = "published" => wlock = "published")
          BY <1>2 DEF Appended
        <4> QED
          BY <2>1, <3>2, <4>1 DEF LedgerInv
      <3> QED
        BY <2>1, <3>1, <3>2
    <2> QED
      BY <2>4, <2>5
  <1> QED
    BY <1>1, <1>2, LedgerShape

-----------------------------------------------------------------------------
(***************************************************************************)
(* The theorems.                                                           *)
(***************************************************************************)
LEMMA InitInv == Init => IndInv
  <1> SUFFICES ASSUME Init PROVE IndInv
    OBVIOUS
  <1>1. TypeOK
    BY TypeInit
  <1>2. /\ pc = "ready" /\ calls = 0 /\ wlock = "free" /\ engineGen = 1
        /\ surfaceGen = 1 /\ ledger = <<>> /\ auths = <<>> /\ relayed = <<>>
        /\ ~rlock /\ ~contained
    BY DEF Init
  <1>3. Len(loaded) = 1
    <2>1. PICK p \in Policies : loaded = <<p>>
      BY DEF Init
    <2> QED
      BY <2>1
  <1>4. BarrierInv
    BY <1>2 DEF BarrierInv, Uncommitted, Undecided
  <1>5. NumberInv
    BY <1>2 DEF NumberInv, InHand, Uncommitted
  <1>6. LedgerInv /\ GenerationInv /\ OneGeneration /\ LedgerFollowsReloads
    BY <1>2, <1>3 DEF LedgerInv, GenerationInv, OneGeneration, LedgerFollowsReloads
  <1> QED
    BY <1>1, <1>4, <1>5, <1>6 DEF IndInv

LEMMA StepInv == IndInv /\ [Next]_vars => IndInv'
  BY TypeStep, BarrierStep, NumberStep, GenerationStep, OneGenerationStep,
     LedgerStep DEF IndInv

LEMMA Invariance == Spec => []IndInv
  BY InitInv, StepInv, PTL DEF Spec

\* Types of the call path hold in every reachable state.
THEOREM TypeCorrect == Spec => []TypeOK
  <1>1. IndInv => TypeOK
    BY DEF IndInv
  <1> QED
    BY <1>1, Invariance, PTL

\* The runtimeMu barrier works: a call is gated, redacted, evaluated and pinned
\* by one policy generation, for any number of reloads at any point of it.
THEOREM OneGenerationHolds == Spec => []OneGeneration
  <1>1. IndInv => OneGeneration
    BY DEF IndInv
  <1> QED
    BY <1>1, Invariance, PTL

\* The ledger tells under which policy every barrier decision was made.
THEOREM LedgerOrderHolds == Spec => []LedgerFollowsReloads
  <1>1. IndInv => LedgerFollowsReloads
    BY DEF IndInv
  <1> QED
    BY <1>1, Invariance, PTL

\* A step of the proxy is a step of its contract.
LEMMA ContractStep ==
    ASSUME IndInv, [Next]_vars
    PROVE  [Contract!Next]_<<Authorized, relayed, contained>>
  <1>0. /\ calls \in 0 .. MaxCalls /\ MaxCalls \in Nat
        /\ auths \in Seq(AuthRecords) /\ relayed \in Seq(Nat)
    BY ToolsCallConstants DEF IndInv, TypeOK
  <1>1. CASE CommitAllow
    <2>1. PICK a : a.n = cur.n /\ auths' = Append(auths, a)
      BY <1>1 DEF CommitAllow
    <2>2. pc = "commit" /\ UNCHANGED <<relayed, contained>>
      BY <1>1 DEF CommitAllow, stopVars
    <2>3. cur.n = calls /\ calls \in 1 .. MaxCalls
          /\ \A k \in DOMAIN auths : auths[k].n # calls
      BY <1>0, <2>2 DEF IndInv, NumberInv, InHand, Uncommitted
    <2>4. /\ \A k \in DOMAIN auths' : (k \in DOMAIN auths /\ auths'[k] = auths[k])
                                      \/ auths'[k] = a
          /\ \A k \in DOMAIN auths : k \in DOMAIN auths' /\ auths'[k] = auths[k]
          /\ \E k \in DOMAIN auths' : auths'[k] = a
      <3>1. /\ DOMAIN auths = 1 .. Len(auths) /\ Len(auths) \in Nat
            /\ DOMAIN auths' = 1 .. Len(auths) + 1
            /\ \A k \in 1 .. Len(auths) : auths'[k] = auths[k]
            /\ auths'[Len(auths) + 1] = a
        BY <1>0, <2>1
      <3>2. \A k \in 1 .. Len(auths) + 1 : k \in 1 .. Len(auths) \/ k = Len(auths) + 1
        BY <3>1
      <3>3. Len(auths) + 1 \in 1 .. Len(auths) + 1
        BY <3>1
      <3>4. \A k \in 1 .. Len(auths) : k \in 1 .. Len(auths) + 1
        BY <3>1
      <3> QED
        BY <3>1, <3>2, <3>3, <3>4
    <2>5. Authorized' = Authorized \cup {calls}
      BY <2>1, <2>3, <2>4 DEF Authorized
    <2>6. calls \notin Authorized
      BY <2>3 DEF Authorized
    <2>7. Contract!Authorize(calls)
      BY <2>2, <2>5, <2>6 DEF Contract!Authorize
    <2> QED
      BY <2>3, <2>7 DEF Contract!Next
  <1>2. CASE Encode
    <2>1. /\ pc = "encode" /\ ~revoked /\ relayed' = Append(relayed, cur.n)
          /\ UNCHANGED <<auths, contained>>
      BY <1>2 DEF Encode, MayEncode, stopVars
    <2>2. /\ cur.n = calls /\ calls \in 1 .. MaxCalls /\ ~contained
          /\ \E k \in DOMAIN auths : auths[k].n = calls
          /\ \A i \in DOMAIN relayed : relayed[i] # calls
      BY <1>0, <2>1 DEF IndInv, NumberInv, InHand
    <2>3. calls \in Authorized /\ UNCHANGED Authorized
      BY <2>1, <2>2 DEF Authorized
    <2>4. Contract!Relay(calls)
      BY <2>1, <2>2, <2>3 DEF Contract!Relay
    <2> QED
      BY <2>2, <2>4 DEF Contract!Next
  <1>3. CASE KineticContain
    <2>1. contained' = TRUE /\ UNCHANGED <<auths, relayed>>
      BY <1>3 DEF KineticContain
    <2>2. UNCHANGED Authorized
      BY <2>1 DEF Authorized
    <2> QED
      BY <2>1, <2>2 DEF Contract!Next, Contract!Contain
  <1>4. CASE UNCHANGED <<auths, relayed, contained>>
    BY <1>4 DEF Authorized
  <1>5. CommitAllow \/ Encode \/ KineticContain \/ UNCHANGED <<auths, relayed, contained>>
    BY DEF Next, ClientStep, ReloadStep, Gates, Decide, Deny, AskApproval, Reserve, Verify,
           CommitFails, RecordCall, EncodeFails, RelayInitialized, DenyEnvelope,
           EndOfInput, Begin, Refuse, Approve, KineticLatch, Expire, AuditWriteFails,
           ReloadRequest, ReloadLock, ReloadPublish, ReloadSurfaces, vars, stopVars
  <1> QED
    BY <1>1, <1>2, <1>3, <1>4, <1>5

\* ToolsCall implements RelayContract: a request is written to the server at
\* most once, only after its allow record was committed, and never after the
\* kinetic stop has contained the server.
THEOREM ProxyImplementsContract == Spec => ImplementsContract
  <1>1. Init => Contract!Init
    <2> SUFFICES ASSUME Init PROVE Contract!Init
      OBVIOUS
    <2>1. auths = <<>> /\ relayed = <<>>
      BY DEF Init
    <2>2. Authorized = {}
      BY <2>1 DEF Authorized
    <2>3. contained = FALSE
      BY DEF Init
    <2> QED
      BY <2>1, <2>2, <2>3, Zenon DEF Contract!Init
  <1>2. IndInv /\ [Next]_vars => [Contract!Next]_<<Authorized, relayed, contained>>
    BY ContractStep
  <1> QED
    BY <1>1, <1>2, Invariance, PTL DEF Spec, ImplementsContract, Contract!Spec

-----------------------------------------------------------------------------
(***************************************************************************)
(* What a session remembers: every authorization is one that the policy it *)
(* was decided under permits, given the calls, taints, nonces and          *)
(* delegations before it.                                                  *)
(***************************************************************************)
\* Every nonempty set of naturals has a least element, which is the one that
\* "the first rule that matches" names.
LEMMA LeastExists ==
    ASSUME NEW S \in SUBSET Nat, S # {}
    PROVE  \E i \in S : \A j \in S : i <= j
  <1>1. PICK m \in S : \A n \in S : ~(<<n, m>> \in OpToRel(<, Nat))
    BY WFMin, NatLessThanWellFounded
  <1>2. \A n \in S : ~(n < m)
    BY <1>1 DEF OpToRel
  <1> QED
    BY <1>2

LEMMA SeqElement ==
    ASSUME NEW S, NEW s \in Seq(S), NEW i \in DOMAIN s
    PROVE  s[i] \in S /\ i \in Nat
  OBVIOUS

\* The first of the egress controls that match is one of them.
LEMMA EgressTyped ==
    ASSUME NEW p \in Policies, NEW t, NEW ts, EgressMatches(p, ts, t) # {},
           NEW d
    PROVE  EgressAction(p, ts, t, d) \in {"deny", "require_approval"}
  <1> DEFINE hits == EgressMatches(p, ts, t)
             c == CHOOSE i \in hits : \A j \in hits : i <= j
  <1>1. p.egress \in Seq([when : STRING, sinks : SUBSET Tools,
                          action : {"deny", "require_approval"}])
    BY PolicyAssumption DEF PolicyFields
  <1>2. hits \subseteq DOMAIN p.egress /\ DOMAIN p.egress \subseteq Nat
    BY <1>1 DEF EgressMatches
  <1>3. c \in hits
    BY <1>2, LeastExists
  <1>4. p.egress[c].action \in {"deny", "require_approval"}
    <2> HIDE DEF hits, c
    <2>1. c \in DOMAIN p.egress
      BY <1>2, <1>3
    <2>2. p.egress[c] \in [when : STRING, sinks : SUBSET Tools,
                           action : {"deny", "require_approval"}]
      BY <1>1, <2>1, SeqElement
    <2> QED
      BY <2>2
  <1> QED
    BY <1>4 DEF EgressAction

LEMMA CurTyped ==
    ASSUME TypeOK, NumberInv, InHand
    PROVE  /\ cur.gen \in Generations /\ Snapshot \in Policies
           /\ Tool \in Tools /\ cur.req \in Requests
           /\ cur.reserved \in BOOLEAN /\ cur.via \in {"policy", "human"}
           /\ cur.stale \subseteq Credentials \cup {"session"}
  <1>1. /\ cur.gen \in Generations /\ cur.reserved \in BOOLEAN
        /\ cur.via \in {"policy", "human"}
        /\ cur.stale \subseteq Credentials \cup {"session"}
    BY DEF TypeOK, Pinnings
  <1>2. Snapshot \in Policies
    BY <1>1, PolicyTyped, TypeParts DEF Snapshot
  <1>3. cur.req \in Requests
    BY DEF NumberInv
  <1>4. Tool \in Tools
    BY <1>3, ToolsCallConstants DEF Tool
  <1> QED
    BY <1>1, <1>2, <1>3, <1>4

-----------------------------------------------------------------------------
(***************************************************************************)
(* The shapes of a step, as far as the session is concerned.               *)
(***************************************************************************)
\* A reload, the kinetic stop, time, the audit sink.
Outside ==
    /\ UNCHANGED <<pc, slot, cur, toolCalls, taints, spawnDepth, usedNonces,
                   auths, launched>>
    /\ expired \subseteq expired' /\ (revoked => revoked')
    /\ loaded' = loaded \/ \E p \in Policies : loaded' = Append(loaded, p)

\* No call is in hand afterwards: it was denied, it failed or it was relayed.
Ends ==
    /\ pc # "record" /\ pc' \in {"ready", "closed"}
    /\ slot' = slot \/ slot' = "loop"
    /\ slot' = "handshake" => pc' = "closed"
    /\ UNCHANGED <<toolCalls, taints, auths, loaded, launched>>
    /\ usedNonces \subseteq usedNonces'
    /\ \/ pc \notin {"verify", "commit"} /\ cur' \in {Idle, cur} /\ UNCHANGED spawnDepth
       \/ pc \in {"verify", "commit"} /\ cur' = Idle /\ ReleaseUnit

\* The call in hand moves on without a new authorization.
Moves ==
    /\ \/ (\E req \in Requests : Begin(req)) \/ Gates \/ Decide \/ AskApproval
       \/ Approve \/ Reserve \/ Verify \/ RecordCall
    /\ pc' \notin {"ready", "closed"}

LEMMA StepShape ==
    ASSUME TypeOK, NumberInv, [Next]_vars
    PROVE  Outside \/ Ends \/ Moves \/ CommitAllow
  <1> USE DEF policyVars, sessionVars, stopVars, clientVars
  <1>1. CASE \/ (\E p \in Policies : ReloadRequest(p)) \/ ReloadLock \/ ReloadPublish
             \/ ReloadSurfaces \/ KineticLatch \/ KineticContain
             \/ (\E c \in Credentials : Expire(c)) \/ AuditWriteFails
             \/ UNCHANGED vars
    BY <1>1 DEF ReloadRequest, ReloadLock, ReloadPublish, ReloadSurfaces, KineticLatch,
                KineticContain, Expire, AuditWriteFails, vars, Outside
  <1>2. slot \in {"handshake", "loop"} /\ PcType
    BY TypeParts DEF LockType
  <1>4. CASE RelayInitialized \/ DenyEnvelope \/ EndOfInput
    BY <1>2, <1>4 DEF RelayInitialized, DenyEnvelope, EndOfInput, AfterDeny, Ends
  <1>5. CASE Deny \/ Refuse \/ CommitFails \/ Encode \/ EncodeFails
    BY <1>2, <1>5 DEF Deny, Refuse, CommitFails, Encode, EncodeFails, DenyCall,
                            AfterDeny, Ends
  <1>6. ASSUME NEW req \in Requests, Begin(req)
        PROVE  Ends \/ Moves
    <2>1. CASE revoked
      BY <1>2, <1>6, <2>1 DEF Begin, AfterDeny, Ends
    <2>2. CASE ~revoked
      BY <1>6, <2>2 DEF Begin, Moves
    <2> QED
      BY <2>1, <2>2
  <1>7. CASE Gates
    <2>1. CASE DenyCall
      <3>1. usedNonces \subseteq usedNonces' /\ pc = "gates"
        BY <1>7 DEF Gates
      <3> QED
        BY <1>2, <1>7, <2>1, <3>1 DEF Gates, DenyCall, AfterDeny, Ends
    <2>2. CASE pc' = "decide"
      BY <1>7, <2>2 DEF Moves
    <2> QED
      BY <1>7, <2>1, <2>2 DEF Gates
  <1>8. CASE AskApproval
    <2>1. CASE DenyCall
      BY <1>2, <1>8, <2>1 DEF AskApproval, DenyCall, AfterDeny, Ends
    <2>2. CASE pc' = "waiting"
      BY <1>8, <2>2 DEF Moves
    <2> QED
      BY <1>8, <2>1, <2>2 DEF AskApproval
  <1>9. CASE Reserve
    <2>1. CASE DenyCall /\ UNCHANGED spawnDepth
      BY <1>2, <1>9, <2>1 DEF Reserve, DenyCall, AfterDeny, Ends
    <2>2. CASE pc' = "verify"
      BY <1>9, <2>2 DEF Moves
    <2> QED
      BY <1>9, <2>1, <2>2 DEF Reserve
  <1>12. CASE Verify
    <2>1. CASE DenyCall /\ ReleaseUnit
      BY <1>2, <1>12, <2>1 DEF Verify, DenyCall, AfterDeny, Ends
    <2>2. CASE pc' = "commit"
      BY <1>12, <2>2 DEF Moves
    <2> QED
      BY <1>12, <2>1, <2>2 DEF Verify
  <1>10. CASE Decide
    <2>1. pc' \in {"deny", "approval", "commit"}
      BY <1>10 DEF Decide
    <2> QED
      BY <1>10, <2>1 DEF Moves
  <1>11. CASE Approve \/ RecordCall
    BY <1>11 DEF Approve, RecordCall, Moves
  <1> QED
    BY <1>1, <1>4, <1>5, <1>6, <1>7, <1>8, <1>9, <1>10, <1>11, <1>12
       DEF Next, ClientStep, ReloadStep

\* What a move leaves alone.
LEMMA MovesFrame ==
    ASSUME Moves
    PROVE  /\ UNCHANGED <<slot, loaded, launched, taints, auths, expired, revoked,
                          engineGen>>
           /\ ~RecordCall => UNCHANGED toolCalls
           /\ ~Gates => UNCHANGED usedNonces
  BY DEF Moves, Begin, Gates, Decide, AskApproval, Approve, Reserve, Verify, RecordCall,
         policyVars, sessionVars, stopVars

-----------------------------------------------------------------------------
(***************************************************************************)
(* What was authorized stays as it was.                                    *)
(***************************************************************************)
LEMMA LoadedKept ==
    ASSUME TypeOK, NumberInv, [Next]_vars
    PROVE  /\ launched' = launched
           /\ Generations \subseteq Generations'
           /\ \A g \in Generations : loaded'[g] = loaded[g]
  <1>1. launched' = launched /\ (loaded' = loaded
                                 \/ \E p \in Policies : loaded' = Append(loaded, p))
    BY StepShape, MovesFrame DEF Outside, Ends, CommitAllow, policyVars
  <1>2. PolicyType
    BY TypeParts
  <1>3. CASE loaded' = loaded
    BY <1>1, <1>3 DEF Generations
  <1>4. ASSUME NEW p \in Policies, loaded' = Append(loaded, p)
        PROVE  /\ Generations \subseteq Generations'
               /\ \A g \in Generations : loaded'[g] = loaded[g]
    <2>1. Generations \subseteq Generations'
      BY <1>2, <1>4, PinningsGrow
    <2>2. \A g \in Generations : loaded'[g] = loaded[g]
      BY <1>2, <1>4 DEF PolicyType, Generations
    <2> QED
      BY <2>1, <2>2
  <1> QED
    BY <1>1, <1>3, <1>4

\* The authorization that a commit adds.
LEMMA CommitFacts ==
    ASSUME TypeOK, NumberInv, CommitAllow, NEW K, K = Len(auths) + 1
    PROVE  /\ Len(auths) \in Nat /\ Len(auths') = K
           /\ DOMAIN auths = 1 .. Len(auths) /\ DOMAIN auths' = 1 .. K
           /\ \A k \in 1 .. Len(auths) : auths'[k] = auths[k]
           /\ auths'[K] = [n |-> cur.n, tool |-> Tool, gen |-> cur.gen,
                           red |-> cur.red, eval |-> cur.eval,
                           via |-> cur.via, stale |-> cur.stale,
                           unit |-> cur.reserved, depth |-> spawnDepth,
                           nonce |-> cur.req.nonce, slot |-> slot]
           /\ Pinned(K)' = Snapshot
           /\ pc = "commit" /\ InHand /\ pc' = "record"
           /\ taints' = taints \cup Snapshot.taints[Tool]
           /\ UNCHANGED <<slot, loaded, launched, toolCalls, spawnDepth,
                          usedNonces, expired, revoked>>
           /\ cur' = [cur EXCEPT !.reserved = FALSE]
  <1> DEFINE a == [n |-> cur.n, tool |-> Tool, gen |-> cur.gen,
                   red |-> cur.red, eval |-> cur.eval,
                   via |-> cur.via, stale |-> cur.stale,
                   unit |-> cur.reserved, depth |-> spawnDepth,
                   nonce |-> cur.req.nonce, slot |-> slot]
  <1>1. auths \in Seq(AuthRecords)
    BY DEF TypeOK
  <1>2. auths' = Append(auths, a)
    BY DEF CommitAllow
  <1>3. a.gen = cur.gen
    OBVIOUS
  <1> HIDE DEF a
  <1>4. /\ Len(auths) \in Nat /\ Len(auths') = K
        /\ DOMAIN auths = 1 .. Len(auths) /\ DOMAIN auths' = 1 .. K
        /\ \A k \in 1 .. Len(auths) : auths'[k] = auths[k]
        /\ auths'[K] = a
    BY <1>1, <1>2
  <1>5. /\ pc = "commit" /\ InHand /\ pc' = "record"
        /\ taints' = taints \cup Snapshot.taints[Tool]
        /\ UNCHANGED <<slot, loaded, launched, toolCalls, spawnDepth,
                       usedNonces, expired, revoked>>
        /\ cur' = [cur EXCEPT !.reserved = FALSE]
    BY DEF CommitAllow, MarkTaints, InHand, policyVars, stopVars
  <1>6. Pinned(K)' = Snapshot
    <2>1. loaded'[auths'[K].gen] = loaded[cur.gen]
      BY <1>3, <1>4, <1>5
    <2> QED
      BY <2>1 DEF Pinned, Snapshot
  <1> QED
    BY <1>4, <1>5, <1>6 DEF a

LEMMA Kept ==
    ASSUME TypeOK, NumberInv, HistoryInv, [Next]_vars
    PROVE  /\ Len(auths) \in Nat /\ Len(auths') \in Nat /\ Len(auths) <= Len(auths')
           /\ DOMAIN auths = 1 .. Len(auths) /\ DOMAIN auths' = 1 .. Len(auths')
           /\ \A k \in DOMAIN auths : /\ k \in DOMAIN auths'
                                      /\ auths'[k] = auths[k]
                                      /\ Pinned(k)' = Pinned(k)
  <1>0. auths \in Seq(AuthRecords)
    BY DEF TypeOK
  <1>1. /\ Len(auths) \in Nat /\ Len(auths') \in Nat /\ Len(auths) <= Len(auths')
        /\ DOMAIN auths = 1 .. Len(auths) /\ DOMAIN auths' = 1 .. Len(auths')
        /\ \A k \in DOMAIN auths : auths'[k] = auths[k]
    <2>1. CASE UNCHANGED auths
      BY <1>0, <2>1
    <2>2. CASE CommitAllow
      <3>1. PICK K : K = Len(auths) + 1
        OBVIOUS
      <3> QED
        BY <2>2, <3>1, CommitFacts
    <2> QED
      BY <2>1, <2>2, AuthsShape
  <1>2. \A k \in DOMAIN auths : auths[k].gen \in Generations
    BY DEF HistoryInv
  <1>3. \A k \in DOMAIN auths : loaded'[auths'[k].gen] = loaded[auths[k].gen]
    BY <1>1, <1>2, LoadedKept
  <1> QED
    BY <1>1, <1>3 DEF Pinned

LEMMA TaintsKept ==
    ASSUME TypeOK, NumberInv, HistoryInv, [Next]_vars, NEW k \in 1 .. Len(auths) + 1
    PROVE  TaintsBefore(k)' = TaintsBefore(k)
  <1>1. \A i \in 1 .. k - 1 : auths'[i] = auths[i] /\ Pinned(i)' = Pinned(i)
    BY Kept
  <1> QED
    BY <1>1 DEF TaintsBefore

LEMMA LoopCallsKept ==
    ASSUME TypeOK, NumberInv, HistoryInv, [Next]_vars, NEW i \in Nat,
           NEW k \in 1 .. Len(auths) + 1
    PROVE  LoopCalls(i, k)' = LoopCalls(i, k)
  <1>1. \A j \in i + 1 .. k - 1 : auths'[j] = auths[j]
    BY Kept
  <1> QED
    BY <1>1 DEF LoopCalls

-----------------------------------------------------------------------------
(***************************************************************************)
(* The properties of the authorizations: the old ones keep them, and the   *)
(* invariants about the call in hand give them for the new one.            *)
(***************************************************************************)
\* The numbers of the authorizations after a step.
LEMMA NewOrOld ==
    ASSUME TypeOK, NumberInv, HistoryInv, [Next]_vars, NEW k \in DOMAIN auths'
    PROVE  k \in DOMAIN auths \/ (CommitAllow /\ k = Len(auths) + 1)
  <1>1. CASE UNCHANGED auths
    BY <1>1
  <1>2. CASE CommitAllow
    <2>1. PICK K : K = Len(auths) + 1
      OBVIOUS
    <2> QED
      BY <1>2, <2>1, CommitFacts
  <1> QED
    BY <1>1, <1>2, AuthsShape

LEMMA PermitsStep ==
    ASSUME TypeOK, NumberInv, HistoryInv, GateInv, VerdictInv, PinnedPolicyPermits,
           [Next]_vars
    PROVE  PinnedPolicyPermits'
  <1> SUFFICES ASSUME NEW k \in DOMAIN auths'
               PROVE  /\ Pinned(k)'.pin \in {"", launched'}
                      /\ StagesPass(Pinned(k)', auths'[k].tool, auths'[k].via)
    BY DEF PinnedPolicyPermits
  <1>0. launched' = launched
    BY LoadedKept
  <1>1. CASE k \in DOMAIN auths
    BY <1>0, <1>1, Kept DEF PinnedPolicyPermits
  <1>2. CASE CommitAllow /\ k = Len(auths) + 1
    <2>1. /\ pc = "commit" /\ Pinned(k)' = Snapshot
          /\ auths'[k].tool = Tool /\ auths'[k].via = cur.via
      BY <1>2, CommitFacts
    <2>2. Snapshot.pin \in {"", launched} /\ StagesPass(Snapshot, Tool, cur.via)
      BY <2>1 DEF GateInv, VerdictInv, Uncommitted, Approver
    <2> QED
      BY <1>0, <2>1, <2>2
  <1> QED
    BY <1>1, <1>2, NewOrOld

LEMMA EgressStep ==
    ASSUME TypeOK, NumberInv, HistoryInv, VerdictInv, EgressRespected, [Next]_vars
    PROVE  EgressRespected'
  <1> SUFFICES ASSUME NEW k \in DOMAIN auths'
               PROVE  EgressPasses(Pinned(k)', TaintsBefore(k)', auths'[k].tool,
                                   auths'[k].via)
    BY DEF EgressRespected
  <1>0. Len(auths) \in Nat /\ DOMAIN auths = 1 .. Len(auths)
    BY Kept
  <1>1. CASE k \in DOMAIN auths
    <2>1. k \in 1 .. Len(auths) + 1
      BY <1>0, <1>1
    <2> QED
      BY <1>1, <2>1, Kept, TaintsKept DEF EgressRespected
  <1>2. CASE CommitAllow /\ k = Len(auths) + 1
    <2>1. /\ pc = "commit" /\ Pinned(k)' = Snapshot
          /\ auths'[k].tool = Tool /\ auths'[k].via = cur.via
      BY <1>2, CommitFacts
    <2>2. k \in 1 .. Len(auths) + 1
      BY <1>0, <1>2
    <2>3. TaintsBefore(k)' = taints
      BY <1>2, <2>2, TaintsKept DEF VerdictInv
    <2>4. EgressPasses(Snapshot, taints, Tool, cur.via)
      BY <2>1 DEF VerdictInv, Approver
    <2> QED
      BY <2>1, <2>3, <2>4
  <1> QED
    BY <1>1, <1>2, NewOrOld

LEMMA FreshStep ==
    ASSUME TypeOK, NumberInv, HistoryInv, FreshInv, GrantIsFresh, [Next]_vars
    PROVE  GrantIsFresh'
  <1> SUFFICES ASSUME NEW k \in DOMAIN auths', auths'[k].via = "human"
               PROVE  auths'[k].stale \cap (Pinned(k)'.needs[auths'[k].tool]
                                            \cup {"session"}) = {}
    BY DEF GrantIsFresh
  <1>1. CASE k \in DOMAIN auths
    BY <1>1, Kept DEF GrantIsFresh
  <1>2. CASE CommitAllow /\ k = Len(auths) + 1
    <2>1. /\ pc = "commit" /\ Pinned(k)' = Snapshot /\ auths'[k].tool = Tool
          /\ auths'[k].via = cur.via /\ auths'[k].stale = cur.stale
      BY <1>2, CommitFacts
    <2> QED
      BY <2>1 DEF FreshInv
  <1> QED
    BY <1>1, <1>2, NewOrOld

LEMMA NonceStep ==
    ASSUME TypeOK, NumberInv, HistoryInv, GateInv, NonceUsedOnce, [Next]_vars
    PROVE  NonceUsedOnce'
  <1> SUFFICES ASSUME NEW i \in DOMAIN auths', NEW k \in DOMAIN auths',
                      Pinned(i)'.assertions, Pinned(k)'.assertions,
                      auths'[i].nonce = auths'[k].nonce
               PROVE  i = k
    BY DEF NonceUsedOnce
  <1>1. CASE i \in DOMAIN auths /\ k \in DOMAIN auths
    <2>1. Pinned(i).assertions /\ Pinned(k).assertions /\ auths[i].nonce = auths[k].nonce
      BY <1>1, Kept
    <2> QED
      BY <1>1, <2>1 DEF NonceUsedOnce
  <1>2. ASSUME CommitAllow, NEW new, new = Len(auths) + 1, Pinned(new)'.assertions,
               NEW old \in DOMAIN auths, Pinned(old)'.assertions
        PROVE  auths'[new].nonce # auths'[old].nonce
    <2>1. pc = "commit" /\ Pinned(new)' = Snapshot /\ auths'[new].nonce = cur.req.nonce
      BY <1>2, CommitFacts
    <2>2. auths'[old].nonce = auths[old].nonce /\ Pinned(old).assertions
      BY <1>2, Kept
    <2>3. Snapshot.assertions
      BY <1>2, <2>1
    <2> QED
      BY <2>1, <2>2, <2>3 DEF GateInv, Uncommitted
  <1> QED
    BY <1>1, <1>2, NewOrOld

-----------------------------------------------------------------------------
(***************************************************************************)
(* The decision.                                                           *)
(***************************************************************************)
LEMMA StagesTyped ==
    ASSUME NEW p \in Policies, NEW t \in Tools, NEW ex, NEW v \in {"policy", "human"},
           Evaluate(p, t, ex) = "allow" \/ (Evaluate(p, t, ex) # "deny" /\ v = "human")
    PROVE  StagesPass(p, t, v)
  <1> DEFINE st == p.stages[t]
             c == CredentialStage(p, t, ex)
             all == <<c>> \o st
  <1>1. /\ st \in Seq(Actions \cup {"other"}) /\ p.defaultAction \in {"allow", "deny"}
        /\ p.serverAllowed \in BOOLEAN
    BY PolicyAssumption DEF PolicyFields
  <1>2. /\ p.serverAllowed
        /\ t \in p.allowed \/ (t \notin p.known /\ p.defaultAction = "allow")
        /\ Evaluate(p, t, ex) = MergeStages(all)
    BY <1>1 DEF Evaluate
  <1>3. c \in Actions \cup {"other"}
    BY DEF CredentialStage, Actions
  <1> HIDE DEF st, c
  <1>4. \A i \in DOMAIN st : i + 1 \in DOMAIN all /\ all[i + 1] = st[i]
    BY <1>1, <1>3
  <1>5. MergeStages(all) # "deny"
           => \A i \in DOMAIN all : all[i] \in {"allow", "require_approval"}
    BY DEF MergeStages
  <1>6. MergeStages(all) = "allow"
           => \A i \in DOMAIN all : all[i] # "require_approval"
    BY DEF MergeStages
  <1>7. \A i \in DOMAIN st : Passes(st[i], v)
    BY <1>2, <1>4, <1>5, <1>6 DEF Passes
  <1> QED
    BY <1>2, <1>7 DEF StagesPass, st

\* What a verdict means for whoever allows the call: an allow needs nobody, a
\* require_approval needs a human.
LEMMA VerdictFacts ==
    ASSUME TypeOK, NumberInv, BarrierInv, pc = "decide", NEW pause \in BOOLEAN,
           NEW v \in {"policy", "human"}
    PROVE  /\ Verdict(pause) \in Actions
           /\ (Verdict(pause) = "allow" \/ (Verdict(pause) # "deny" /\ v = "human"))
                => /\ StagesPass(Snapshot, Tool, v)
                   /\ EgressPasses(Snapshot, taints, Tool, v)
                   /\ HitsPass(Snapshot, ChainMatches(Snapshot, toolCalls, Tool), v)
  <1> DEFINE eval == Evaluate(Live, Tool, expired)
             owned == IF eval # "deny" /\ ~OwnershipHolds(Snapshot, Tool, expired)
                      THEN "deny" ELSE eval
             egress == IF owned = "deny" THEN "deny"
                       ELSE EgressAction(Live, taints, Tool, owned)
             chained == IF egress = "deny" THEN "deny"
                        ELSE ChainAction(Live, toolCalls, Tool, egress)
             ok == Verdict(pause) = "allow" \/ (Verdict(pause) # "deny" /\ v = "human")
  <1>0. Live = Snapshot /\ InHand
    BY DEF BarrierInv, Live, Snapshot, InHand
  <1>1. Snapshot \in Policies /\ Tool \in Tools
    BY <1>0, CurTyped
  <1>2. Verdict(pause) = IF pause /\ chained # "deny" THEN "require_approval"
                         ELSE chained
    BY DEF Verdict
  <1>3. eval \in Actions
    BY DEF Evaluate, MergeStages, Actions
  <1> HIDE DEF eval
  <1>4. owned \in Actions /\ (owned # "deny" => owned = eval)
    BY <1>3 DEF Actions
  <1> HIDE DEF owned
  <1>5. EgressMatches(Snapshot, taints, Tool) # {}
           => EgressAction(Snapshot, taints, Tool, owned)
                = EgressAction(Snapshot, taints, Tool, "allow")
              /\ EgressAction(Snapshot, taints, Tool, "allow")
                   \in {"deny", "require_approval"}
    BY <1>1, EgressTyped DEF EgressAction
  <1>6. EgressMatches(Snapshot, taints, Tool) = {}
           => EgressAction(Snapshot, taints, Tool, owned) = owned
              /\ EgressAction(Snapshot, taints, Tool, "allow") = "allow"
    BY DEF EgressAction
  <1>7. egress \in Actions /\ (egress # "deny" => owned # "deny")
        /\ (egress # "deny" => egress = EgressAction(Snapshot, taints, Tool, owned))
    BY <1>0, <1>4, <1>5, <1>6 DEF Actions
  <1> HIDE DEF egress
  <1>8. chained \in Actions /\ (chained # "deny" => egress # "deny")
        /\ (chained # "deny" => chained = ChainAction(Snapshot, toolCalls, Tool, egress))
    BY <1>0, <1>7 DEF Actions, ChainAction
  <1> HIDE DEF chained
  <1>9. Verdict(pause) \in Actions
    BY <1>2, <1>8 DEF Actions
  <1>10. ASSUME ok PROVE chained = "allow" \/ (chained # "deny" /\ v = "human")
    BY <1>2, <1>10
  <1>11. ASSUME ok PROVE HitsPass(Snapshot, ChainMatches(Snapshot, toolCalls, Tool), v)
    BY <1>8, <1>10, <1>11 DEF ChainAction, HitsPass
  <1>12. ASSUME ok PROVE egress = "allow" \/ (egress # "deny" /\ v = "human")
    BY <1>8, <1>10, <1>12 DEF ChainAction
  <1>13. ASSUME ok PROVE EgressPasses(Snapshot, taints, Tool, v)
    <2> HIDE DEF ok
    <2>1. egress = EgressAction(Snapshot, taints, Tool, owned)
      BY <1>7, <1>12, <1>13
    <2> QED
      BY <2>1, <1>5, <1>6, <1>12, <1>13 DEF EgressPasses, Passes
  <1>14. ASSUME ok PROVE owned = "allow" \/ (owned # "deny" /\ v = "human")
    <2> HIDE DEF ok
    <2> QED
      BY <1>5, <1>6, <1>7, <1>12, <1>14
  <1>15. ASSUME ok PROVE StagesPass(Snapshot, Tool, v)
    <2> HIDE DEF ok
    <2>1. eval = "allow" \/ (eval # "deny" /\ v = "human")
      BY <1>4, <1>14, <1>15
    <2> QED
      BY <1>0, <1>1, <2>1, StagesTyped DEF eval
  <1> QED
    BY <1>9, <1>11, <1>13, <1>15

\* The three ways on from the decision.
LEMMA DecideFacts ==
    ASSUME TypeOK, NumberInv, BarrierInv, Decide
    PROVE  /\ pc = "decide" /\ UNCHANGED rlock
           /\ cur'.gen = cur.gen /\ cur'.req = cur.req /\ cur'.via = "policy"
           /\ \/ pc' = "deny" /\ ~cur'.reserved /\ UNCHANGED spawnDepth
              \/ /\ pc' = "approval" /\ ~cur'.reserved /\ UNCHANGED spawnDepth
                 /\ \E pause \in BOOLEAN : Verdict(pause) = "require_approval"
              \/ /\ pc' = "commit" /\ ~OverCeiling(Snapshot, Tool, spawnDepth)
                 /\ \E pause \in BOOLEAN : Verdict(pause) = "allow"
                 /\ cur'.reserved <=> Tool \in Snapshot.delegates
                 /\ spawnDepth' = IF Tool \in Snapshot.delegates THEN spawnDepth + 1
                                                                ELSE spawnDepth
  <1>1. PICK pause \in BOOLEAN :
          LET verdict == Verdict(pause)
              over == verdict = "allow" /\ OverCeiling(Snapshot, Tool, spawnDepth)
              unit == verdict = "allow" /\ ~over /\ Tool \in Snapshot.delegates
              final == IF over THEN "deny" ELSE verdict
          IN  /\ cur' = [cur EXCEPT !.eval = engineGen, !.reserved = unit]
              /\ spawnDepth' = IF unit THEN spawnDepth + 1 ELSE spawnDepth
              /\ pc' = CASE final = "deny" -> "deny"
                         [] final = "require_approval" -> "approval"
                         [] OTHER -> "commit"
    BY DEF Decide
  <1>2. pc = "decide" /\ UNCHANGED rlock /\ cur \in Pinnings /\ cur.via = "policy"
    BY DEF Decide, TypeOK, BarrierInv
  <1> DEFINE verdict == Verdict(pause)
             over == verdict = "allow" /\ OverCeiling(Snapshot, Tool, spawnDepth)
             unit == verdict = "allow" /\ ~over /\ Tool \in Snapshot.delegates
  <1>3. /\ cur' = [cur EXCEPT !.eval = engineGen, !.reserved = unit]
        /\ spawnDepth' = IF unit THEN spawnDepth + 1 ELSE spawnDepth
    BY <1>1
  <1>4. verdict \in Actions
    BY <1>2, VerdictFacts
  <1>5. \/ pc' = "deny" /\ ~unit
        \/ pc' = "approval" /\ ~unit /\ verdict = "require_approval"
        \/ /\ pc' = "commit" /\ verdict = "allow"
           /\ ~OverCeiling(Snapshot, Tool, spawnDepth)
           /\ unit <=> Tool \in Snapshot.delegates
    BY <1>1, <1>4 DEF Actions
  <1> HIDE DEF verdict, unit
  <1>6. /\ cur'.gen = cur.gen /\ cur'.req = cur.req /\ cur'.via = cur.via
        /\ cur'.reserved = unit
    BY <1>2, <1>3 DEF Pinnings
  <1> QED
    BY <1>2, <1>3, <1>5, <1>6 DEF verdict

-----------------------------------------------------------------------------
(***************************************************************************)
(* Delegation units.                                                       *)
(***************************************************************************)
Units == {k \in DOMAIN auths : auths[k].unit}

LEMMA UnitsFinite ==
    ASSUME TypeOK
    PROVE  IsFiniteSet(Units) /\ Cardinality(Units) \in Nat
  <1>1. Len(auths) \in Nat /\ DOMAIN auths = 1 .. Len(auths)
    BY DEF TypeOK
  <1>2. IsFiniteSet(1 .. Len(auths)) /\ Units \subseteq 1 .. Len(auths)
    BY <1>1, FS_Interval DEF Units
  <1> QED
    BY <1>2, FS_Subset, FS_CardinalityType

\* A unit is taken when, and only when, the call in hand is to hold one.
LEMMA MovesUnits ==
    ASSUME TypeOK, NumberInv, BarrierInv, UnitInv, Moves, ~Verify
    PROVE  /\ ~cur.reserved
           /\ cur'.reserved => spawnDepth' = spawnDepth + 1
           /\ ~cur'.reserved => spawnDepth' = spawnDepth
           /\ pc' \notin {"verify", "commit"} => ~cur'.reserved
           /\ pc' \in {"verify", "commit"} => /\ cur'.gen = cur.gen /\ cur'.req = cur.req
                                              /\ cur'.reserved <=> Tool \in Snapshot.delegates
                                              /\ ~OverCeiling(Snapshot, Tool, spawnDepth)
  <1>0. cur \in Pinnings
    BY DEF TypeOK
  <1>1. ~cur.reserved
    BY DEF Moves, Begin, Gates, Decide, AskApproval, Approve, Reserve, RecordCall, UnitInv
  <1>2. ASSUME NEW req \in Requests, Begin(req)
        PROVE  ~cur'.reserved /\ spawnDepth' = spawnDepth /\ pc' \notin {"verify", "commit"}
    <2>1. cur' = [Idle EXCEPT !.req = req, !.n = calls + 1,
                              !.gen = engineGen, !.red = surfaceGen]
          /\ pc' = "gates"
      BY <1>2 DEF Begin, AfterDeny, Moves
    <2> QED
      BY <1>2, <2>1 DEF Begin, Idle, sessionVars
  <1>3. CASE Gates \/ AskApproval \/ RecordCall
    <2>1. cur' = cur /\ spawnDepth' = spawnDepth /\ pc' \notin {"verify", "commit"}
      BY <1>3 DEF Gates, AskApproval, RecordCall, DenyCall, AfterDeny, Moves, sessionVars
    <2> QED
      BY <1>1, <2>1
  <1>4. CASE Approve
    <2>1. cur'.reserved = cur.reserved /\ spawnDepth' = spawnDepth /\ pc' \notin {"verify", "commit"}
      BY <1>0, <1>4 DEF Approve, sessionVars, Pinnings
    <2> QED
      BY <1>1, <2>1
  <1>5. CASE Decide
    BY <1>1, <1>5, DecideFacts
  <1>6. CASE Reserve
    <2>1. /\ cur' = [cur EXCEPT !.reserved = Tool \in Snapshot.delegates]
          /\ spawnDepth' = IF Tool \in Snapshot.delegates THEN spawnDepth + 1
                                                         ELSE spawnDepth
          /\ pc' = "verify" /\ ~OverCeiling(Snapshot, Tool, spawnDepth)
      BY <1>6 DEF Reserve, DenyCall, AfterDeny, Moves, GrantCeiling
    <2> QED
      BY <1>0, <1>1, <2>1 DEF Pinnings
  <1> QED
    BY <1>1, <1>2, <1>3, <1>4, <1>5, <1>6 DEF Moves

\* The checks behind the reserve leave the unit in hand.
LEMMA VerifyUnits ==
    ASSUME Moves, Verify
    PROVE  pc = "verify" /\ pc' = "commit" /\ UNCHANGED <<cur, spawnDepth>>
  BY DEF Moves, Verify, DenyCall, AfterDeny

\* The pinned policy does not change under a call in hand.
LEMMA SnapshotKept ==
    ASSUME TypeOK, NumberInv, [Next]_vars, cur'.gen = cur.gen
    PROVE  Snapshot' = Snapshot
  <1>1. cur.gen \in Generations
    BY DEF TypeOK, Pinnings
  <1>2. loaded'[cur'.gen] = loaded[cur.gen]
    BY <1>1, LoadedKept
  <1> QED
    BY <1>2 DEF Snapshot

LEMMA UnitStep ==
    ASSUME TypeOK, NumberInv, BarrierInv, UnitInv, [Next]_vars
    PROVE  UnitInv'
  <1>1. CASE Outside
    <2>1. cur' = cur /\ pc' = pc /\ spawnDepth' = spawnDepth
      BY <1>1 DEF Outside
    <2>2. Snapshot' = Snapshot /\ Tool' = Tool
      BY <2>1, SnapshotKept DEF Tool
    <2> QED
      BY <2>1, <2>2 DEF UnitInv
  <1>2. CASE Ends
    <2>1. pc' \notin {"verify", "commit"} /\ ~cur'.reserved
      BY <1>2 DEF Ends, UnitInv, Idle
    <2> QED
      BY <2>1 DEF UnitInv
  <1>3. CASE Moves /\ ~Verify
    <2>1. CASE pc' \notin {"verify", "commit"}
      <3>1. ~cur'.reserved
        BY <1>3, <2>1, MovesUnits
      <3> QED
        BY <2>1, <3>1 DEF UnitInv
    <2>2. CASE pc' \in {"verify", "commit"}
      <3>1. /\ cur'.gen = cur.gen /\ cur'.req = cur.req
            /\ cur'.reserved <=> Tool \in Snapshot.delegates
            /\ ~OverCeiling(Snapshot, Tool, spawnDepth)
            /\ cur'.reserved => spawnDepth' = spawnDepth + 1
        BY <1>3, <2>2, MovesUnits
      <3>2. Snapshot' = Snapshot /\ Tool' = Tool
        BY <3>1, SnapshotKept DEF Tool
      <3>3. InHand
        BY <1>3, <2>2 DEF Moves, Begin, Gates, Decide, AskApproval, Approve, Reserve, Verify,
                          RecordCall, InHand, AfterDeny
      <3>4. Snapshot.maxSpawnDepth \in Nat /\ spawnDepth \in Nat
        BY <3>3, CurTyped, PolicyAssumption DEF PolicyFields, TypeOK
      <3>5. cur'.reserved /\ Snapshot.maxSpawnDepth > 0
               => spawnDepth' <= Snapshot.maxSpawnDepth
        BY <3>1, <3>4 DEF OverCeiling
      <3> QED
        BY <2>2, <3>1, <3>2, <3>5 DEF UnitInv
    <2> QED
      BY <2>1, <2>2
  <1>4. CASE CommitAllow
    <2>1. pc' = "record" /\ ~cur'.reserved
      BY <1>4 DEF CommitAllow, TypeOK, Pinnings
    <2> QED
      BY <2>1 DEF UnitInv
  <1>5. CASE Moves /\ Verify
    <2>1. pc = "verify" /\ pc' = "commit" /\ cur' = cur /\ spawnDepth' = spawnDepth
      BY <1>5, VerifyUnits
    <2>2. Snapshot' = Snapshot /\ Tool' = Tool
      BY <2>1, SnapshotKept DEF Tool
    <2> QED
      BY <2>1, <2>2 DEF UnitInv
  <1> QED
    BY <1>1, <1>2, <1>3, <1>4, <1>5, StepShape

LEMMA DelegationStep ==
    ASSUME TypeOK, NumberInv, BarrierInv, HistoryInv, UnitInv, DelegationExact,
           [Next]_vars
    PROVE  DelegationExact'
  <1> DEFINE held == IF cur.reserved THEN 1 ELSE 0
  <1>0. /\ spawnDepth = Cardinality(Units) + held /\ spawnDepth \in Nat
        /\ Cardinality(Units) \in Nat /\ IsFiniteSet(Units)
    BY UnitsFinite DEF DelegationExact, Units, TypeOK
  <1>1. spawnDepth' = Cardinality(Units') + IF cur'.reserved THEN 1 ELSE 0
    <2>1. CASE Outside
      BY <1>0, <2>1 DEF Outside, Units
    <2>2. CASE Ends
      <3>1. Units' = Units
        BY <2>2 DEF Ends, Units
      <3>2. ~cur'.reserved
        BY <2>2 DEF Ends, UnitInv, Idle
      <3>3. spawnDepth' = Cardinality(Units)
        BY <1>0, <2>2 DEF Ends, UnitInv, ReleaseUnit
      <3> QED
        BY <1>0, <3>1, <3>2, <3>3
    <2>3. CASE Moves
      <3>1. Units' = Units
        BY <2>3, MovesFrame DEF Units
      <3> QED
        BY <1>0, <2>3, <3>1, MovesUnits, VerifyUnits
    <2>4. CASE CommitAllow
      <3>1. PICK K : K = Len(auths) + 1
        OBVIOUS
      <3>2. /\ Len(auths) \in Nat /\ DOMAIN auths = 1 .. Len(auths)
            /\ DOMAIN auths' = 1 .. K /\ \A k \in 1 .. Len(auths) : auths'[k] = auths[k]
            /\ auths'[K].unit = cur.reserved /\ spawnDepth' = spawnDepth
        BY <2>4, <3>1, CommitFacts
      <3>3. ~cur'.reserved
        BY <2>4 DEF CommitAllow, TypeOK, Pinnings
      <3>4. 1 .. K = (1 .. Len(auths)) \cup {K} /\ K \notin 1 .. Len(auths)
        BY <3>1, <3>2
      <3>5. CASE cur.reserved
        <4>1. Units' = Units \cup {K} /\ K \notin Units
          BY <3>2, <3>4, <3>5 DEF Units
        <4>2. Cardinality(Units') = Cardinality(Units) + 1
          BY <1>0, <4>1, FS_AddElement
        <4> QED
          BY <1>0, <3>2, <3>3, <3>5, <4>2
      <3>6. CASE ~cur.reserved
        <4>1. Units' = Units
          BY <3>2, <3>4, <3>6 DEF Units
        <4> QED
          BY <1>0, <3>2, <3>3, <3>6, <4>1
      <3> QED
        BY <3>5, <3>6
    <2> QED
      BY <2>1, <2>2, <2>3, <2>4, StepShape
  <1>2. ASSUME NEW k \in DOMAIN auths'
        PROVE  /\ auths'[k].unit <=> auths'[k].tool \in Pinned(k)'.delegates
               /\ auths'[k].unit /\ Pinned(k)'.maxSpawnDepth > 0
                     => auths'[k].depth <= Pinned(k)'.maxSpawnDepth
    <2>1. CASE k \in DOMAIN auths
      BY <2>1, Kept DEF DelegationExact
    <2>2. CASE CommitAllow /\ k = Len(auths) + 1
      <3>1. /\ pc = "commit" /\ Pinned(k)' = Snapshot /\ auths'[k].tool = Tool
            /\ auths'[k].unit = cur.reserved /\ auths'[k].depth = spawnDepth
        BY <2>2, CommitFacts
      <3> QED
        BY <3>1 DEF UnitInv
    <2> QED
      BY <1>2, <2>1, <2>2, NewOrOld
  <1> QED
    BY <1>1, <1>2 DEF DelegationExact, Units

-----------------------------------------------------------------------------
(***************************************************************************)
(* The history of the session.                                             *)
(***************************************************************************)
LEMMA MovesPc ==
    ASSUME Moves
    PROVE  \/ RecordCall /\ pc = "record" /\ pc' = "encode"
           \/ pc \in Uncommitted \cup {"ready"} /\ pc' \in Uncommitted /\ ~RecordCall
  BY DEF Moves, Begin, Gates, Decide, AskApproval, Approve, Reserve, Verify, RecordCall,
         DenyCall, AfterDeny, Uncommitted

LEMMA HistoryCommit ==
    ASSUME TypeOK, NumberInv, HistoryInv, CommitAllow
    PROVE  HistoryInv'
  <1>1. PICK K : K = Len(auths) + 1
    OBVIOUS
  <1>2. /\ Len(auths) \in Nat /\ Len(auths') = K
        /\ DOMAIN auths = 1 .. Len(auths) /\ DOMAIN auths' = 1 .. K
        /\ \A k \in 1 .. Len(auths) : auths'[k] = auths[k]
        /\ auths'[K].tool = Tool /\ auths'[K].gen = cur.gen /\ auths'[K].slot = slot
        /\ pc = "commit" /\ InHand /\ pc' = "record"
        /\ UNCHANGED <<slot, loaded, toolCalls>>
        /\ cur' = [cur EXCEPT !.reserved = FALSE]
    BY <1>1, CommitFacts
  <1>3. cur.gen \in Generations /\ Generations' = Generations /\ Tool' = Tool
    BY <1>2, CurTyped DEF Generations, TypeOK, Pinnings, Tool
  <1>4. slot \in {"handshake", "loop"} /\ toolCalls \in Seq([server : {CfgServer}, tool : Tools])
        /\ auths \in Seq(AuthRecords) /\ Len(toolCalls) \in Nat
        /\ DOMAIN toolCalls = 1 .. Len(toolCalls)
    BY DEF TypeOK
  <1>5. slot = "handshake" => auths = <<>> /\ toolCalls = <<>>
    BY <1>2 DEF HistoryInv, Uncommitted
  <1>6. auths = <<>> <=> Len(auths) = 0
    BY <1>4
  <1>7. auths' # <<>>
    BY <1>1, <1>2
  <1>8. Len(auths) = Unrecorded + Len(toolCalls)
    BY <1>2, <1>4 DEF HistoryInv, Unrecorded
  <1>9. Unrecorded \in {0, 1}
    BY DEF Unrecorded
  <1>10. CASE slot = "loop"
    <2>1. Unrecorded' = Unrecorded
      <3>1. CASE auths = <<>>
        BY <1>1, <1>2, <1>6, <1>10, <3>1 DEF Unrecorded
      <3>2. CASE auths # <<>>
        <4>1. 1 \in 1 .. Len(auths)
          BY <1>2, <1>6, <3>2
        <4> QED
          BY <1>2, <1>7, <3>2, <4>1 DEF Unrecorded
      <3> QED
        BY <3>1, <3>2
    <2>2. \A i \in DOMAIN toolCalls : auths'[i + Unrecorded] = auths[i + Unrecorded]
      BY <1>2, <1>4, <1>8, <1>9
    <2>3. \A i \in DOMAIN toolCalls' : toolCalls'[i]
             = [server |-> CfgServer, tool |-> auths'[i + Unrecorded'].tool]
      BY <1>2, <2>1, <2>2 DEF HistoryInv
    <2>4. Len(auths') = Unrecorded' + Len(toolCalls') + 1
      BY <1>1, <1>2, <1>4, <1>8, <1>9, <2>1
    <2>5. \A k \in DOMAIN auths' : k > 1 => auths'[k].slot = "loop"
      BY <1>1, <1>2, <1>10 DEF HistoryInv
    <2>6. \A k \in DOMAIN auths' : auths'[k].gen \in Generations'
      BY <1>1, <1>2, <1>3 DEF HistoryInv
    <2> QED
      BY <1>2, <1>3, <1>7, <1>10, <2>3, <2>4, <2>5, <2>6 DEF HistoryInv
  <1>11. CASE slot = "handshake"
    <2>1. Len(auths) = 0 /\ K = 1 /\ toolCalls = <<>> /\ Len(toolCalls) = 0
      BY <1>1, <1>5, <1>6, <1>11
    <2>2. DOMAIN auths' = {1} /\ auths'[1].slot = "handshake" /\ DOMAIN toolCalls = {}
      BY <1>2, <1>4, <1>11, <2>1
    <2>3. Unrecorded' = 1
      BY <1>7, <2>2 DEF Unrecorded
    <2>4. \A k \in DOMAIN auths' : ~(k > 1) /\ auths'[k].gen \in Generations'
      BY <1>2, <1>3, <2>1, <2>2
    <2> QED
      BY <1>2, <1>3, <1>7, <1>11, <2>1, <2>2, <2>3, <2>4 DEF HistoryInv, Uncommitted
  <1> QED
    BY <1>4, <1>10, <1>11

LEMMA HistoryRecord ==
    ASSUME TypeOK, NumberInv, HistoryInv, RecordCall
    PROVE  HistoryInv'
  <1>1. /\ pc = "record" /\ pc' = "encode" /\ UNCHANGED <<slot, loaded, auths>>
        /\ slot = "loop" => toolCalls' = Append(toolCalls, [server |-> CfgServer,
                                                            tool |-> Tool])
        /\ slot # "loop" => toolCalls' = toolCalls
    BY DEF RecordCall, RecordToolCall, policyVars
  <1>2. /\ slot \in {"handshake", "loop"} /\ Len(toolCalls) \in Nat
        /\ toolCalls \in Seq([server : {CfgServer}, tool : Tools])
        /\ DOMAIN toolCalls = 1 .. Len(toolCalls) /\ Len(auths) \in Nat
    BY DEF TypeOK
  <1>3. Generations' = Generations /\ Unrecorded' = Unrecorded /\ Unrecorded \in {0, 1}
    BY <1>1 DEF Generations, Unrecorded
  <1>4. CASE slot = "loop"
    <2>1. PICK c : c = [server |-> CfgServer, tool |-> Tool]
      OBVIOUS
    <2>2. /\ Len(toolCalls') = Len(toolCalls) + 1
          /\ DOMAIN toolCalls' = 1 .. Len(toolCalls) + 1
          /\ \A i \in 1 .. Len(toolCalls) : toolCalls'[i] = toolCalls[i]
          /\ toolCalls'[Len(toolCalls) + 1] = c
      BY <1>1, <1>2, <1>4, <2>1
    <2>3. /\ Len(auths) = Unrecorded + Len(toolCalls) + 1
          /\ auths[Len(auths)].tool = Tool
      BY <1>1, <1>4 DEF HistoryInv
    <2>4. Len(auths) = Len(toolCalls) + 1 + Unrecorded
      BY <1>2, <1>3, <2>3
    <2>5. c.tool = auths[Len(toolCalls) + 1 + Unrecorded].tool
      BY <2>1, <2>3, <2>4
    <2>6. \A i \in DOMAIN toolCalls' :
             toolCalls'[i] = [server |-> CfgServer, tool |-> auths[i + Unrecorded].tool]
      <3> SUFFICES ASSUME NEW i \in DOMAIN toolCalls'
                   PROVE  toolCalls'[i] = [server |-> CfgServer,
                                           tool |-> auths[i + Unrecorded].tool]
        OBVIOUS
      <3>1. CASE i \in 1 .. Len(toolCalls)
        BY <1>2, <2>2, <3>1 DEF HistoryInv
      <3>2. CASE i = Len(toolCalls) + 1
        BY <2>1, <2>2, <2>5, <3>2
      <3> QED
        BY <1>2, <2>2, <3>1, <3>2
    <2>7. Len(auths) = Unrecorded + Len(toolCalls')
      BY <1>2, <1>3, <2>2, <2>3
    <2> QED
      BY <1>1, <1>2, <1>3, <1>4, <2>2, <2>6, <2>7 DEF HistoryInv
  <1>5. CASE slot = "handshake"
    BY <1>1, <1>3, <1>5 DEF HistoryInv, Uncommitted
  <1> QED
    BY <1>2, <1>4, <1>5

LEMMA HistoryStep ==
    ASSUME TypeOK, NumberInv, HistoryInv, [Next]_vars
    PROVE  HistoryInv'
  <1>1. CASE Outside
    <2>1. \A k \in DOMAIN auths' : auths'[k].gen \in Generations'
      BY <1>1, LoadedKept DEF Outside, HistoryInv
    <2>2. UNCHANGED <<pc, slot, cur, toolCalls, auths>> /\ Unrecorded' = Unrecorded
          /\ Tool' = Tool
      BY <1>1 DEF Outside, Unrecorded, Tool
    <2> QED
      BY <2>1, <2>2 DEF HistoryInv
  <1>2. CASE Ends
    <2>1. Generations' = Generations /\ Unrecorded' = Unrecorded
      BY <1>2 DEF Ends, Generations, Unrecorded
    <2>2. /\ UNCHANGED <<toolCalls, auths>> /\ pc # "record" /\ pc' \in {"ready", "closed"}
          /\ slot' = "handshake" => slot = "handshake" /\ pc' = "closed"
      BY <1>2 DEF Ends
    <2> QED
      BY <2>1, <2>2 DEF HistoryInv, Uncommitted
  <1>3. CASE Moves
    <2>1. CASE RecordCall
      BY <2>1, HistoryRecord
    <2>2. CASE ~RecordCall
      <3>1. /\ pc \in Uncommitted \cup {"ready"} /\ pc' \in Uncommitted
            /\ UNCHANGED <<slot, loaded, auths, toolCalls>>
        BY <1>3, <2>2, MovesPc, MovesFrame
      <3>2. Generations' = Generations /\ Unrecorded' = Unrecorded
        BY <3>1 DEF Generations, Unrecorded
      <3> QED
        BY <3>1, <3>2 DEF HistoryInv, Uncommitted
    <2> QED
      BY <2>1, <2>2
  <1>4. CASE CommitAllow
    BY <1>4, HistoryCommit
  <1> QED
    BY <1>1, <1>2, <1>3, <1>4, StepShape

-----------------------------------------------------------------------------
(***************************************************************************)
(* The call in hand.                                                       *)
(***************************************************************************)
\* How the call in hand moves: what it pinned at the start stays pinned.
LEMMA MovesCur ==
    ASSUME TypeOK, NumberInv, BarrierInv, Moves
    PROVE  \/ pc' \in {"gates", "encode"}
           \/ /\ cur'.gen = cur.gen /\ cur'.req = cur.req
              /\ InHand
              /\ \/ Gates /\ pc = "gates" /\ pc' = "decide" /\ UNCHANGED cur
                 \/ Decide /\ pc = "decide" /\ pc' \in {"deny", "approval", "commit"}
                 \/ AskApproval /\ pc = "approval" /\ pc' = "waiting" /\ UNCHANGED cur
                 \/ Approve /\ pc = "waiting" /\ pc' = "recheck"
                 \/ /\ Reserve /\ pc = "recheck" /\ pc' = "verify"
                    /\ cur'.via = "human" /\ cur'.stale = cur.stale
                    /\ OwnershipHolds(Snapshot, Tool, expired)
                 \/ /\ Verify /\ pc = "verify" /\ pc' = "commit"
                    /\ cur.via = "human" /\ UNCHANGED cur
                    /\ ~RecheckFails
  <1>0. cur \in Pinnings
    BY DEF TypeOK
  <1>1. CASE (\E req \in Requests : Begin(req)) \/ RecordCall
    BY <1>1 DEF Moves, Begin, RecordCall, AfterDeny
  <1>2. CASE Gates
    BY <1>2 DEF Moves, Gates, DenyCall, AfterDeny, InHand
  <1>3. CASE Decide
    BY <1>3, DecideFacts DEF InHand
  <1>4. CASE AskApproval
    BY <1>4 DEF Moves, AskApproval, DenyCall, AfterDeny, InHand
  <1>5. CASE Approve
    BY <1>0, <1>5 DEF Approve, InHand, Pinnings
  <1>6. CASE Reserve
    <2>1. /\ cur' = [cur EXCEPT !.reserved = Tool \in Snapshot.delegates]
          /\ pc = "recheck" /\ pc' = "verify" /\ OwnershipHolds(Snapshot, Tool, expired)
      BY <1>6 DEF Reserve, DenyCall, AfterDeny, Moves
    <2>2. cur.via = "human"
      BY <2>1 DEF BarrierInv
    <2> QED
      BY <1>0, <1>6, <2>1, <2>2 DEF InHand, Pinnings
  <1>7. CASE Verify
    <2>1. pc = "verify" /\ pc' = "commit" /\ UNCHANGED cur /\ ~RecheckFails
      BY <1>7 DEF Verify, DenyCall, AfterDeny, Moves
    <2>2. cur.via = "human"
      BY <2>1 DEF BarrierInv
    <2> QED
      BY <1>7, <2>1, <2>2 DEF InHand
  <1> QED
    BY <1>1, <1>2, <1>3, <1>4, <1>5, <1>6, <1>7 DEF Moves

LEMMA NoncesGrow ==
    ASSUME TypeOK, NumberInv, [Next]_vars
    PROVE  usedNonces \subseteq usedNonces'
  <1>1. Gates => usedNonces \subseteq usedNonces'
    BY DEF Gates
  <1> QED
    BY <1>1, StepShape, MovesFrame DEF Outside, Ends, CommitAllow

\* What the gates of the call in hand have established.
Gated ==
    /\ Snapshot.pin \in {"", launched}
    /\ Snapshot.sessionMaxTools > 0 => Len(toolCalls) < Snapshot.sessionMaxTools
    /\ Snapshot.assertions =>
          /\ cur.req.nonce \in usedNonces
          /\ \A k \in DOMAIN auths :
                Pinned(k).assertions => auths[k].nonce # cur.req.nonce

LEMMA GatesEstablish ==
    ASSUME TypeOK, NumberInv, BarrierInv, HistoryInv, GateInv, Gates, pc' = "decide",
           UNCHANGED cur
    PROVE  Gated'
  <1> DEFINE early == IdentityGate \/ LimitsExceeded(Live, Len(toolCalls),
                                                     cur.req.oversize)
             spent == ~early /\ loaded[cur.red].assertions /\ ~AssertionFails
  <1>1. /\ pc = "gates" /\ UNCHANGED <<loaded, launched, toolCalls, auths>>
        /\ usedNonces' = IF spent THEN usedNonces \cup {cur.req.nonce} ELSE usedNonces
        /\ ~early /\ ~AssertionFails
    BY DEF Gates, DenyCall, AfterDeny, policyVars
  <1>2. Live = Snapshot /\ loaded[cur.red] = Snapshot /\ InHand
    BY <1>1 DEF BarrierInv, Uncommitted, Live, Snapshot, InHand
  <1>3. Snapshot' = Snapshot
    BY <1>1 DEF Snapshot
  <1>4. Snapshot.sessionMaxTools \in Nat /\ Snapshot.assertions \in BOOLEAN
        /\ Len(toolCalls) \in Nat
    BY <1>2, CurTyped, PolicyAssumption DEF PolicyFields, TypeOK
  <1>5. Snapshot.pin \in {"", launched}
    BY <1>1 DEF IdentityGate, IdentityFails
  <1>6. Snapshot.sessionMaxTools > 0 => Len(toolCalls) < Snapshot.sessionMaxTools
    BY <1>1, <1>2, <1>4 DEF LimitsExceeded
  <1> HIDE DEF early
  <1>7. Snapshot.assertions => /\ cur.req.nonce \in usedNonces'
                               /\ cur.req.nonce \notin usedNonces
    BY <1>1, <1>2 DEF AssertionFails
  <1>8. \A k \in DOMAIN auths :
           Snapshot.assertions /\ Pinned(k).assertions
              => auths[k].nonce # cur.req.nonce
    BY <1>7 DEF GateInv
  <1>9. \A k \in DOMAIN auths : Pinned(k)' = Pinned(k)
    BY <1>1 DEF Pinned
  <1> QED
    BY <1>1, <1>3, <1>5, <1>6, <1>7, <1>8, <1>9 DEF Gated

LEMMA GateStep ==
    ASSUME TypeOK, NumberInv, BarrierInv, HistoryInv, GateInv, [Next]_vars
    PROVE  GateInv'
  <1>1. ASSUME NEW k \in DOMAIN auths', Pinned(k)'.assertions
        PROVE  auths'[k].nonce \in usedNonces'
    <2>1. CASE k \in DOMAIN auths
      <3>1. Pinned(k).assertions /\ auths'[k].nonce = auths[k].nonce
        BY <1>1, <2>1, Kept
      <3> QED
        BY <2>1, <3>1, NoncesGrow DEF GateInv
    <2>2. CASE CommitAllow /\ k = Len(auths) + 1
      <3>1. /\ pc = "commit" /\ Pinned(k)' = Snapshot
            /\ auths'[k].nonce = cur.req.nonce
        BY <2>2, CommitFacts
      <3>2. cur.req.nonce \in usedNonces
        BY <1>1, <3>1 DEF GateInv, Uncommitted
      <3> QED
        BY <3>1, <3>2, NoncesGrow
    <2> QED
      BY <1>1, <2>1, <2>2, NewOrOld
  <1>2. ASSUME pc' \in Uncommitted \ {"gates"}
        PROVE  Gated'
    <2>1. ASSUME pc \in Uncommitted \ {"gates"}, cur'.gen = cur.gen, cur'.req = cur.req,
                 UNCHANGED <<toolCalls, auths>>
          PROVE  Gated'
      <3>1. Gated
        BY <2>1 DEF GateInv, Gated
      <3>2. Snapshot' = Snapshot /\ launched' = launched
        BY <2>1, SnapshotKept, LoadedKept
      <3>3. \A k \in DOMAIN auths : Pinned(k)' = Pinned(k)
        BY Kept
      <3> QED
        BY <2>1, <3>1, <3>2, <3>3, NoncesGrow DEF Gated
    <2>2. CASE Outside
      BY <1>2, <2>1, <2>2 DEF Outside
    <2>3. CASE Ends
      BY <1>2, <2>3 DEF Ends, Uncommitted
    <2>4. CASE Moves
      <3>1. UNCHANGED <<toolCalls, auths>>
        BY <1>2, <2>4, MovesFrame, MovesPc DEF Uncommitted
      <3>2. CASE Gates /\ pc' = "decide" /\ UNCHANGED cur
        BY <3>2, GatesEstablish
      <3> QED
        BY <1>2, <2>1, <2>4, <3>1, <3>2, MovesCur DEF Uncommitted
    <2>5. CASE CommitAllow
      BY <1>2, <2>5 DEF CommitAllow, Uncommitted
    <2> QED
      BY <2>2, <2>3, <2>4, <2>5, StepShape
  <1> QED
    BY <1>1, <1>2 DEF GateInv, Gated

\* What the decision about the call in hand has established.
Decided(via) ==
    /\ StagesPass(Snapshot, Tool, via)
    /\ EgressPasses(Snapshot, taints, Tool, via)
    /\ HitsPass(Snapshot, ChainMatches(Snapshot, toolCalls, Tool), via)

LEMMA TaintStep ==
    ASSUME TypeOK, NumberInv, HistoryInv, taints = TaintsBefore(Len(auths) + 1),
           [Next]_vars
    PROVE  taints' = (TaintsBefore(Len(auths) + 1))'
  <1>1. PICK K : K = Len(auths) + 1
    OBVIOUS
  <1>2. Len(auths) \in Nat /\ K \in 1 .. Len(auths) + 1
    BY <1>1, Kept
  <1>3. TaintsBefore(K)' = taints
    BY <1>1, <1>2, TaintsKept
  <1>4. CASE UNCHANGED auths
    <2>1. UNCHANGED taints
      BY <1>4, StepShape, MovesFrame, <1>1, CommitFacts DEF Outside, Ends
    <2>2. (Len(auths) + 1)' = K
      BY <1>1, <1>4
    <2> QED
      BY <1>3, <2>1, <2>2
  <1>5. CASE CommitAllow
    <2>1. /\ Len(auths') = K /\ Pinned(K)' = Snapshot /\ auths'[K].tool = Tool
          /\ taints' = taints \cup Snapshot.taints[Tool]
      BY <1>1, <1>5, CommitFacts
    <2>2. 1 .. (K + 1) - 1 = (1 .. K - 1) \cup {K}
      BY <1>1, <1>2
    <2>3. PICK M : M = K + 1
      OBVIOUS
    <2>4. TaintsBefore(M)' = TaintsBefore(K)' \cup Snapshot.taints[Tool]
      BY <2>1, <2>2, <2>3 DEF TaintsBefore
    <2>5. (Len(auths) + 1)' = M
      BY <2>1, <2>3
    <2> QED
      BY <1>3, <2>1, <2>4, <2>5
  <1> QED
    BY <1>4, <1>5, AuthsShape

LEMMA VerdictStep ==
    ASSUME TypeOK, NumberInv, BarrierInv, HistoryInv, VerdictInv, [Next]_vars
    PROVE  VerdictInv'
  <1>1. taints' = (TaintsBefore(Len(auths) + 1))'
    BY TaintStep DEF VerdictInv
  <1>2. ASSUME pc' \in {"approval", "waiting", "recheck", "verify", "commit"}
        PROVE  Decided(Approver)'
    <2>1. ASSUME NEW v, Decided(v), cur'.gen = cur.gen, cur'.req = cur.req, Approver' = v,
                 UNCHANGED <<taints, toolCalls>>
          PROVE  Decided(Approver)'
      <3>1. Snapshot' = Snapshot /\ Tool' = Tool
        BY <2>1, SnapshotKept DEF Tool
      <3> QED
        BY <2>1, <3>1 DEF Decided
    <2>2. pc \in {"approval", "waiting", "recheck", "verify", "commit"} => Decided(Approver)
      BY DEF VerdictInv, Decided
    <2>3. CASE Outside
      <3>1. Approver' = Approver /\ pc' = pc /\ UNCHANGED <<cur, taints, toolCalls>>
        BY <2>3 DEF Outside, Approver
      <3> QED
        BY <1>2, <2>1, <2>2, <3>1
    <2>4. CASE Ends
      BY <1>2, <2>4 DEF Ends
    <2>5. CASE CommitAllow
      BY <1>2, <2>5 DEF CommitAllow
    <2>6. CASE Moves
      <3>1. UNCHANGED <<taints, toolCalls>> /\ cur'.gen = cur.gen /\ cur'.req = cur.req
        BY <1>2, <2>6, MovesFrame, MovesPc, MovesCur
      <3>2. CASE Decide
        <4>1. PICK v : v = Approver'
          OBVIOUS
        <4>2. /\ pc = "decide" /\ v \in {"policy", "human"}
              /\ \E pause \in BOOLEAN :
                    \/ Verdict(pause) = "allow"
                    \/ Verdict(pause) # "deny" /\ v = "human"
          BY <1>2, <3>2, <4>1, DecideFacts DEF Approver
        <4>3. Decided(v)
          BY <4>2, VerdictFacts DEF Decided
        <4> QED
          BY <2>1, <3>1, <4>1, <4>3
      <3>3. CASE ~Decide
        <4>1. /\ pc \in {"approval", "waiting", "recheck", "verify"}
              /\ pc' = "commit" => cur'.via = "human"
          BY <1>2, <2>6, <3>3, MovesCur
        <4>2. Approver = "human" /\ Approver' = "human"
          BY <4>1 DEF Approver
        <4> QED
          BY <2>1, <2>2, <3>1, <4>1, <4>2
      <3> QED
        BY <3>2, <3>3
    <2> QED
      BY <2>3, <2>4, <2>5, <2>6, StepShape
  <1> QED
    BY <1>1, <1>2 DEF VerdictInv, Decided

LEMMA FreshInvStep ==
    ASSUME TypeOK, NumberInv, BarrierInv, FreshInv, [Next]_vars
    PROVE  FreshInv'
  <1>0. cur \in Pinnings /\ expired \subseteq Credentials /\ "session" \notin Credentials
    BY PolicyAssumption DEF TypeOK, CredentialKinds
  <1>1. CASE Outside
    <2>1. /\ UNCHANGED <<pc, cur>> /\ expired \subseteq expired' /\ (revoked => revoked')
      BY <1>1 DEF Outside
    <2>2. Snapshot' = Snapshot /\ Tool' = Tool
      BY <2>1, SnapshotKept DEF Tool
    <2> QED
      BY <2>1, <2>2 DEF FreshInv
  <1>2. CASE Ends \/ CommitAllow
    BY <1>2 DEF Ends, CommitAllow, FreshInv
  <1>3. CASE Moves
    <2>1. CASE pc' \notin {"recheck", "verify", "commit"}
      BY <2>1 DEF FreshInv
    <2>2. CASE pc' = "recheck"
      <3>1. Approve /\ UNCHANGED <<expired, revoked>>
        BY <1>3, <2>2, MovesCur, MovesFrame
      <3>2. cur'.stale = expired \cup IF revoked THEN {"session"} ELSE {}
        BY <1>0, <3>1 DEF Approve, Pinnings
      <3> QED
        BY <2>2, <3>1, <3>2 DEF FreshInv
    <2>3. CASE pc' = "commit" /\ cur'.via = "human"
      <3>1. /\ pc = "verify" /\ ~RecheckFails /\ cur'.stale = cur.stale
            /\ cur'.gen = cur.gen /\ cur'.req = cur.req
        BY <1>3, <2>3, MovesCur, DecideFacts
      <3>2. Snapshot' = Snapshot /\ Tool' = Tool
        BY <3>1, SnapshotKept DEF Tool
      <3>3. /\ cur.stale \subseteq expired /\ (Snapshot.needs[Tool] \ {"ownership"}) \cap expired = {}
            /\ "ownership" \in Snapshot.needs[Tool] => "ownership" \notin cur.stale
        BY <3>1 DEF FreshInv, RecheckFails
      <3>4. cur'.stale \cap (Snapshot'.needs[Tool'] \cup {"session"}) = {}
        BY <1>0, <3>1, <3>2, <3>3
      <3> QED
        BY <2>3, <3>4 DEF FreshInv
    <2>4. CASE pc' = "commit" /\ cur'.via # "human"
      BY <2>4 DEF FreshInv
    <2>5. CASE pc' = "verify"
      <3>1. /\ pc = "recheck" /\ cur'.stale = cur.stale /\ cur'.gen = cur.gen /\ cur'.req = cur.req
            /\ OwnershipHolds(Snapshot, Tool, expired) /\ UNCHANGED <<expired, revoked>>
        BY <1>3, <2>5, MovesCur, MovesFrame
      <3>2. Snapshot' = Snapshot /\ Tool' = Tool
        BY <3>1, SnapshotKept DEF Tool
      <3>3. /\ cur.stale \subseteq expired \cup IF revoked THEN {"session"} ELSE {}
            /\ "ownership" \in Snapshot.needs[Tool] => "ownership" \notin expired
        BY <3>1 DEF FreshInv, OwnershipHolds
      <3>4. "ownership" \in Snapshot.needs[Tool] => "ownership" \notin cur.stale
        BY <3>3
      <3> QED
        BY <2>5, <3>1, <3>2, <3>3, <3>4 DEF FreshInv
    <2> QED
      BY <2>1, <2>2, <2>3, <2>4, <2>5
  <1> QED
    BY <1>1, <1>2, <1>3, StepShape

-----------------------------------------------------------------------------
(***************************************************************************)
(* The session limit and the chain rules, which count the calls the relay  *)
(* loop has authorized.                                                    *)
(***************************************************************************)
LEMMA LoopCallsInterval ==
    ASSUME TypeOK, HistoryInv, NEW i \in Nat, Unrecorded <= i
    PROVE  LoopCalls(i, Len(auths) + 1) = i + 1 .. Len(auths)
  <1>1. Len(auths) \in Nat /\ DOMAIN auths = 1 .. Len(auths)
        /\ auths \in Seq(AuthRecords)
    BY DEF TypeOK
  <1>2. ASSUME NEW j \in i + 1 .. Len(auths) PROVE auths[j].slot = "loop"
    <2>1. j \in DOMAIN auths
      BY <1>1
    <2>2. CASE j > 1
      BY <2>1, <2>2 DEF HistoryInv
    <2>3. CASE j = 1
      <3>1. Unrecorded = 0 /\ auths # <<>>
        BY <1>1, <2>1, <2>3 DEF Unrecorded
      <3>2. auths[1] \in AuthRecords
        BY <1>1, <2>1, <2>3
      <3> QED
        BY <2>3, <3>1, <3>2 DEF Unrecorded, AuthRecords
    <2> QED
      BY <1>1, <2>1, <2>2, <2>3
  <1>3. (Len(auths) + 1) - 1 = Len(auths)
    BY <1>1
  <1> QED
    BY <1>2, <1>3 DEF LoopCalls

LEMMA LoopCallsBefore ==
    ASSUME TypeOK, HistoryInv
    PROVE  LoopCalls(0, Len(auths) + 1) = Unrecorded + 1 .. Len(auths)
  <1>1. Len(auths) \in Nat
    BY DEF TypeOK
  <1>2. CASE Unrecorded = 0
    BY <1>2, LoopCallsInterval
  <1>3. CASE Unrecorded = 1
    <2>1. auths[1].slot = "handshake"
      BY <1>3 DEF Unrecorded
    <2>2. LoopCalls(1, Len(auths) + 1) = 2 .. Len(auths)
      BY <1>3, LoopCallsInterval
    <2>3. \A j : j \in LoopCalls(0, Len(auths) + 1)
                  <=> j \in LoopCalls(1, Len(auths) + 1)
      BY <1>1, <2>1 DEF LoopCalls
    <2>4. LoopCalls(0, Len(auths) + 1) = LoopCalls(1, Len(auths) + 1)
      BY <2>3, Zenon
    <2> QED
      BY <1>3, <2>2, <2>4
  <1> QED
    BY <1>2, <1>3 DEF Unrecorded

\* Outside the step from commit to record, the recorded calls are the loop's
\* authorizations.
LEMMA RecordedCalls ==
    ASSUME TypeOK, HistoryInv, pc = "commit"
    PROVE  /\ Len(toolCalls) \in Nat /\ Len(auths) \in Nat /\ Unrecorded \in {0, 1}
           /\ Len(auths) = Unrecorded + Len(toolCalls)
           /\ DOMAIN toolCalls = 1 .. Len(toolCalls)
  BY DEF TypeOK, HistoryInv, Unrecorded

LEMMA LimitStep ==
    ASSUME TypeOK, NumberInv, HistoryInv, GateInv, SessionLimitRespected, [Next]_vars
    PROVE  SessionLimitRespected'
  <1> SUFFICES ASSUME NEW k \in DOMAIN auths', auths'[k].slot = "loop",
                      Pinned(k)'.sessionMaxTools > 0
               PROVE  Cardinality(LoopCalls(0, k)') < Pinned(k)'.sessionMaxTools
    BY DEF SessionLimitRespected
  <1>0. Len(auths) \in Nat /\ DOMAIN auths = 1 .. Len(auths)
    BY Kept
  <1>1. CASE k \in DOMAIN auths
    <2>1. k \in 1 .. Len(auths) + 1
      BY <1>0, <1>1
    <2>2. LoopCalls(0, k)' = LoopCalls(0, k)
      BY <2>1, LoopCallsKept
    <2> QED
      BY <1>1, <2>2, Kept DEF SessionLimitRespected
  <1>2. CASE CommitAllow /\ k = Len(auths) + 1
    <2>1. pc = "commit" /\ Pinned(k)' = Snapshot
      BY <1>2, CommitFacts
    <2>2. LoopCalls(0, k)' = Unrecorded + 1 .. Len(auths)
      BY <1>0, <1>2, LoopCallsKept, LoopCallsBefore
    <2>3. Cardinality(Unrecorded + 1 .. Len(auths)) = Len(toolCalls)
      <3>1. /\ Unrecorded + 1 \in Int /\ Len(auths) \in Int /\ Len(toolCalls) \in Nat
            /\ Unrecorded \in {0, 1} /\ Len(auths) = Unrecorded + Len(toolCalls)
        BY <2>1, RecordedCalls
      <3>2. Cardinality(Unrecorded + 1 .. Len(auths))
              = IF Unrecorded + 1 > Len(auths) THEN 0
                ELSE Len(auths) - (Unrecorded + 1) + 1
        BY <3>1, FS_Interval
      <3> QED
        BY <3>1, <3>2
    <2> QED
      BY <2>1, <2>2, <2>3 DEF GateInv, Uncommitted
  <1> QED
    BY <1>1, <1>2, NewOrOld

\* Where the windows narrow, cutting the history rule by rule leaves each rule
\* the window the policy reference gives it.
LEMMA WindowsAgree ==
    ASSUME NEW p \in Policies, NarrowingWindows(p), NEW r \in DOMAIN p.chains,
           NEW h \in Seq([server : {CfgServer}, tool : Tools]), NEW i \in DOMAIN h
    PROVE  InChainWindow(p, h, r, i) <=> DocumentedWindow(p, r, Len(h) - i)
  <1>1. p.chains \in Seq([server : Servers \cup {"*"}, sources : SUBSET Tools,
                          sinks : SUBSET Tools, within : Nat,
                          action : Actions \cup {"other"}])
    BY PolicyAssumption DEF PolicyFields
  <1>2. \A j \in DOMAIN p.chains : p.chains[j].within \in Nat
    <2> SUFFICES ASSUME NEW j \in DOMAIN p.chains PROVE p.chains[j].within \in Nat
      OBVIOUS
    <2>1. p.chains[j] \in [server : Servers \cup {"*"}, sources : SUBSET Tools,
                           sinks : SUBSET Tools, within : Nat,
                           action : Actions \cup {"other"}]
      BY <1>1, SeqElement
    <2> QED
      BY <2>1
  <1>3. DOMAIN p.chains = 1 .. Len(p.chains) /\ Len(p.chains) \in Nat
    BY <1>1
  <1>4. \A j \in 1 .. r : j \in DOMAIN p.chains /\ (j = r \/ j < r)
    BY <1>3
  <1>5. Len(h) \in Nat /\ i \in Nat
    OBVIOUS
  <1>6. ASSUME NEW j \in 1 .. r, p.chains[j].within > 0,
               DocumentedWindow(p, r, Len(h) - i)
        PROVE  Len(h) - i < p.chains[j].within
    <2>1. CASE j = r
      BY <1>6, <2>1 DEF DocumentedWindow
    <2>2. CASE j < r
      <3>1. p.chains[r].within \in 1 .. p.chains[j].within
        BY <1>4, <1>6, <2>2 DEF NarrowingWindows
      <3>2. Len(h) - i < p.chains[r].within
        BY <1>2, <1>4, <1>6, <3>1 DEF DocumentedWindow
      <3> QED
        BY <1>2, <1>4, <1>5, <3>1, <3>2
    <2> QED
      BY <1>4, <2>1, <2>2
  <1>7. r \in 1 .. r
    BY <1>3
  <1> QED
    BY <1>6, <1>7 DEF InChainWindow, DocumentedWindow

\* At the commit, the rules that EvaluateChain met in the recorded calls are
\* the rules that the loop's authorizations meet.
LEMMA HitsAgree ==
    ASSUME TypeOK, NumberInv, HistoryInv, CommitAllow, NarrowingWindows(Snapshot),
           [Next]_vars, NEW K, K = Len(auths) + 1
    PROVE  DocumentedHits(K)' = ChainMatches(Snapshot, toolCalls, Tool)
  <1> DEFINE p == Snapshot
             call(i) == [server |-> CfgServer, tool |-> auths[i].tool]
  <1>1. /\ pc = "commit" /\ InHand /\ Pinned(K)' = Snapshot /\ auths'[K].tool = Tool
        /\ \A k \in 1 .. Len(auths) : auths'[k] = auths[k]
    BY CommitFacts
  <1>2. /\ Len(toolCalls) \in Nat /\ Len(auths) \in Nat /\ Unrecorded \in {0, 1}
        /\ Len(auths) = Unrecorded + Len(toolCalls)
        /\ DOMAIN toolCalls = 1 .. Len(toolCalls)
    BY <1>1, RecordedCalls
  <1>3. Snapshot \in Policies /\ toolCalls \in Seq([server : {CfgServer}, tool : Tools])
    BY <1>1, CurTyped DEF TypeOK
  <1>4. LoopCalls(0, K)' = Unrecorded + 1 .. Len(auths)
    BY <1>2, LoopCallsKept, LoopCallsBefore
  <1>5. ASSUME NEW j \in 1 .. Len(toolCalls), NEW i, i = j + Unrecorded
        PROVE  /\ i \in Unrecorded + 1 .. Len(auths)
               /\ Cardinality(LoopCalls(i, K)') = Len(toolCalls) - j
               /\ toolCalls[j] = call(i)
    <2>1. i \in Nat /\ Unrecorded <= i /\ i \in Unrecorded + 1 .. Len(auths)
      BY <1>2, <1>5
    <2>2. LoopCalls(i, K)' = i + 1 .. Len(auths)
      BY <1>2, <2>1, LoopCallsKept, LoopCallsInterval
    <2>3. i + 1 \in Int /\ Len(auths) \in Int
      BY <1>2, <2>1
    <2>4. Cardinality(i + 1 .. Len(auths)) = IF i + 1 > Len(auths) THEN 0
                                            ELSE Len(auths) - (i + 1) + 1
      BY <2>3, FS_Interval
    <2>5. Cardinality(i + 1 .. Len(auths)) = Len(toolCalls) - j
      BY <1>2, <1>5, <2>4
    <2>6. toolCalls[j] = call(i)
      BY <1>2, <1>5 DEF HistoryInv
    <2> QED
      BY <2>1, <2>2, <2>5, <2>6
  <1>6. \A i \in Unrecorded + 1 .. Len(auths) :
           \E j \in 1 .. Len(toolCalls) : i = j + Unrecorded
    <2> SUFFICES ASSUME NEW i \in Unrecorded + 1 .. Len(auths)
                 PROVE  \E j \in 1 .. Len(toolCalls) : i = j + Unrecorded
      OBVIOUS
    <2>1. i - Unrecorded \in 1 .. Len(toolCalls) /\ i = (i - Unrecorded) + Unrecorded
      BY <1>2
    <2> QED
      BY <2>1
  <1>7. ASSUME NEW r \in DOMAIN p.chains
        PROVE  (\E i \in LoopCalls(0, K)' :
                   /\ DocumentedWindow(p, r, Cardinality(LoopCalls(i, K)'))
                   /\ SourceMatches(p.chains[r], [server |-> CfgServer,
                                                 tool |-> auths'[i].tool]))
               <=> (\E j \in DOMAIN toolCalls :
                       /\ InChainWindow(p, toolCalls, r, j)
                       /\ SourceMatches(p.chains[r], toolCalls[j]))
    <2>1. ASSUME NEW j \in 1 .. Len(toolCalls)
          PROVE  InChainWindow(p, toolCalls, r, j)
                   <=> DocumentedWindow(p, r, Len(toolCalls) - j)
      BY <1>2, <1>3, <1>7, <2>1, WindowsAgree
    <2>2. \A i \in Unrecorded + 1 .. Len(auths) : auths'[i] = auths[i]
      BY <1>1, <1>2
    <2>3. ASSUME NEW j \in 1 .. Len(toolCalls), NEW i, i = j + Unrecorded
          PROVE  /\ i \in LoopCalls(0, K)'
                 /\ DocumentedWindow(p, r, Cardinality(LoopCalls(i, K)'))
                      <=> InChainWindow(p, toolCalls, r, j)
                 /\ SourceMatches(p.chains[r], [server |-> CfgServer,
                                               tool |-> auths'[i].tool])
                      <=> SourceMatches(p.chains[r], toolCalls[j])
      BY <1>4, <1>5, <2>1, <2>2, <2>3
    <2> DEFINE meets(i) == /\ DocumentedWindow(p, r, Cardinality(LoopCalls(i, K)'))
                           /\ SourceMatches(p.chains[r], [server |-> CfgServer,
                                                         tool |-> auths'[i].tool])
               found(j) == /\ InChainWindow(p, toolCalls, r, j)
                           /\ SourceMatches(p.chains[r], toolCalls[j])
    <2>4. \A j \in 1 .. Len(toolCalls) : \A i : i = j + Unrecorded
             => i \in LoopCalls(0, K)' /\ (meets(i) <=> found(j))
      BY <2>3
    <2> HIDE DEF meets, found
    <2>5. \A i \in LoopCalls(0, K)' : \E j \in 1 .. Len(toolCalls) : i = j + Unrecorded
      BY <1>4, <1>6
    <2>6. (\E i \in LoopCalls(0, K)' : meets(i)) => \E j \in 1 .. Len(toolCalls) : found(j)
      BY <2>4, <2>5, Zenon
    <2>7. (\E j \in 1 .. Len(toolCalls) : found(j)) => \E i \in LoopCalls(0, K)' : meets(i)
      BY <2>4, Zenon
    <2>8. (\E i \in LoopCalls(0, K)' : meets(i)) <=> \E j \in DOMAIN toolCalls : found(j)
      BY <1>2, <2>6, <2>7, Zenon
    <2> QED
      BY <2>8, Zenon DEF meets, found
  <1>8. DocumentedHits(K)'
          = {r \in DOMAIN p.chains :
               /\ Tool \in p.chains[r].sinks
               /\ \E i \in LoopCalls(0, K)' :
                     /\ DocumentedWindow(p, r, Cardinality(LoopCalls(i, K)'))
                     /\ SourceMatches(p.chains[r], [server |-> CfgServer,
                                                   tool |-> auths'[i].tool])}
    BY <1>1 DEF DocumentedHits
  <1> QED
    BY <1>7, <1>8 DEF ChainMatches

LEMMA HitsKept ==
    ASSUME TypeOK, NumberInv, HistoryInv, [Next]_vars, NEW k \in DOMAIN auths
    PROVE  DocumentedHits(k)' = DocumentedHits(k)
  <1>1. /\ Len(auths) \in Nat /\ k \in 1 .. Len(auths) /\ Pinned(k)' = Pinned(k)
        /\ auths'[k] = auths[k] /\ \A i \in 1 .. Len(auths) : auths'[i] = auths[i]
    BY Kept
  <1>2. LoopCalls(0, k)' = LoopCalls(0, k)
    BY <1>1, LoopCallsKept
  <1>3. \A i \in LoopCalls(0, k) : i \in Nat /\ i \in 1 .. Len(auths)
    BY <1>1 DEF LoopCalls
  <1>4. \A i \in LoopCalls(0, k) : LoopCalls(i, k)' = LoopCalls(i, k)
    BY <1>1, <1>3, LoopCallsKept
  <1> QED
    BY <1>1, <1>2, <1>3, <1>4 DEF DocumentedHits

LEMMA ChainStep ==
    ASSUME TypeOK, NumberInv, HistoryInv, VerdictInv, ChainsHonouredInLoop, [Next]_vars
    PROVE  ChainsHonouredInLoop'
  <1> SUFFICES ASSUME NEW k \in DOMAIN auths', auths'[k].slot = "loop",
                      NarrowingWindows(Pinned(k)')
               PROVE  HitsPass(Pinned(k)', DocumentedHits(k)', auths'[k].via)
    BY DEF ChainsHonouredInLoop
  <1>1. CASE k \in DOMAIN auths
    BY <1>1, Kept, HitsKept DEF ChainsHonouredInLoop
  <1>2. CASE CommitAllow /\ k = Len(auths) + 1
    <2>1. pc = "commit" /\ Pinned(k)' = Snapshot /\ auths'[k].via = cur.via
      BY <1>2, CommitFacts
    <2>2. DocumentedHits(k)' = ChainMatches(Snapshot, toolCalls, Tool)
      BY <1>2, <2>1, HitsAgree
    <2>3. HitsPass(Snapshot, ChainMatches(Snapshot, toolCalls, Tool), cur.via)
      BY <2>1 DEF VerdictInv, Approver
    <2> QED
      BY <2>1, <2>2, <2>3
  <1> QED
    BY <1>1, <1>2, NewOrOld

-----------------------------------------------------------------------------
(***************************************************************************)
(* The theorems.                                                           *)
(***************************************************************************)
LEMMA SessionInit == Init => SessionInv
  <1> SUFFICES ASSUME Init PROVE SessionInv
    OBVIOUS
  <1>1. /\ pc = "ready" /\ slot = "handshake" /\ cur = Idle /\ toolCalls = <<>>
        /\ taints = {} /\ spawnDepth = 0 /\ auths = <<>>
    BY DEF Init
  <1>2. DOMAIN auths = {} /\ Len(auths) = 0 /\ Len(toolCalls) = 0 /\ DOMAIN toolCalls = {}
    BY <1>1
  <1>3. ~cur.reserved
    BY <1>1 DEF Idle
  <1>4. Units = {} /\ Cardinality({}) = 0
    BY <1>2, FS_EmptySet DEF Units
  <1>5. DelegationExact
    BY <1>1, <1>2, <1>3, <1>4 DEF DelegationExact, Units
  <1>6. HistoryInv
    BY <1>1, <1>2 DEF HistoryInv, Unrecorded
  <1>7. TaintsBefore(Len(auths) + 1) = {}
    BY <1>2 DEF TaintsBefore
  <1>8. GateInv /\ VerdictInv /\ FreshInv /\ UnitInv
    BY <1>1, <1>2, <1>3, <1>7 DEF GateInv, VerdictInv, FreshInv, UnitInv, Uncommitted
  <1>9. PinnedPolicyPermits /\ EgressRespected /\ ChainsHonouredInLoop
        /\ SessionLimitRespected /\ NonceUsedOnce /\ GrantIsFresh
    BY <1>2 DEF PinnedPolicyPermits, EgressRespected, ChainsHonouredInLoop,
                SessionLimitRespected, NonceUsedOnce, GrantIsFresh
  <1> QED
    BY <1>5, <1>6, <1>8, <1>9 DEF SessionInv

LEMMA SessionStep == IndInv /\ SessionInv /\ [Next]_vars => SessionInv'
  BY HistoryStep, GateStep, VerdictStep, FreshInvStep, UnitStep, PermitsStep, EgressStep,
     ChainStep, LimitStep, NonceStep, FreshStep, DelegationStep DEF IndInv, SessionInv

LEMMA SessionInvariance == Spec => []SessionInv
  BY Invariance, SessionInit, SessionStep, PTL DEF Spec

\* Every authorization is one that the policy it was decided under permits:
\* the identity, the Evaluate stages and the egress controls over the taints
\* of all calls authorized before, however reloads and approvals interleave.
THEOREM PolicyIsRespected == Spec => []PolicyRespected
  <1>1. SessionInv => PolicyRespected
    BY DEF SessionInv, PolicyRespected
  <1> QED
    BY <1>1, SessionInvariance, PTL

\* A call that a human approved is relayed only if what it needs was still
\* valid, and the session not revoked, when the human answered.
THEOREM GrantsAreFresh == Spec => []GrantIsFresh
  <1>1. SessionInv => GrantIsFresh
    BY DEF SessionInv
  <1> QED
    BY <1>1, SessionInvariance, PTL

\* The session's delegation counter is exact and within every policy's ceiling.
THEOREM DelegationIsExact == Spec => []DelegationExact
  <1>1. SessionInv => DelegationExact
    BY DEF SessionInv
  <1> QED
    BY <1>1, SessionInvariance, PTL

\* Chain rules, session_max_tools and one-use nonces hold over the session.
THEOREM SessionRulesAreKept == Spec => []SessionRulesHold
  <1>1. SessionInv => SessionRulesHold
    BY DEF SessionInv, SessionRulesHold
  <1> QED
    BY <1>1, SessionInvariance, PTL
=============================================================================
