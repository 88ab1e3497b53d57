---------------------------- MODULE RecordProofs ----------------------------
(***************************************************************************)
(* Proofs about the two records that outlive a process: the audit log, and  *)
(* the evidence of a supervised workflow.                                   *)
(***************************************************************************)
EXTENDS AuditLog, Workflow, FiniteSetTheorems, WellFoundedInduction, TLAPS

\* What one complete line appended by a healthy file logger does.
LEMMA AppendLine ==
    ASSUME IndInv, mode = "file", ~poisoned,
           NEW kind \in Kinds, NEW call \in Calls \cup {NoCall},
           file' = Append(file, PrepareRecord(kind, call))
    PROVE  /\ PrepareRecord(kind, call) \in Records
           /\ file' \in Seq(Records)
           /\ Len(file') = Len(file) + 1
           /\ \A i \in 1 .. Len(file) : file'[i] = file[i]
           /\ file'[Len(file) + 1] = PrepareRecord(kind, call)
           /\ RecoveredHash(file') = nextHash
           /\ RecoveredIndex(file') = chainIndex + 1
           /\ ChainIntact'
  <1> DEFINE r == PrepareRecord(kind, call)
  <1>1. r \in Records
    BY DEF PrepareRecord, Records, IndInv, TypeOK
  <1>2. file \in Seq(Records)
    BY DEF IndInv, TypeOK
  <1>3. /\ file' \in Seq(Records)
        /\ Len(file') = Len(file) + 1
        /\ \A i \in 1 .. Len(file) : file'[i] = file[i]
        /\ file'[Len(file) + 1] = r
    BY <1>1, <1>2
  <1>4. /\ r.hash = nextHash /\ r.prev = prevHash /\ r.index = chainIndex
    BY DEF PrepareRecord
  <1>5. nextHash \in Nat \ {0} /\ chainIndex \in Nat
    BY DEF IndInv, TypeOK
  <1>6. file' # <<>> /\ Len(file) \in Nat
    BY <1>2, <1>3
  <1>7. RecoveredHash(file') = nextHash
    BY <1>3, <1>4, <1>6 DEF RecoveredHash
  <1>8. RecoveredIndex(file') = chainIndex + 1
    BY <1>3, <1>4, <1>5, <1>6 DEF RecoveredIndex
  <1>9. prevHash = RecoveredHash(file) /\ chainIndex = RecoveredIndex(file)
    BY DEF IndInv, TipAgrees
  <1>10. file' # <<>> => file'[1].prev = 0 /\ file'[1].index = 0
    <2>1. CASE file = <<>>
      BY <2>1, <1>3, <1>4, <1>9 DEF RecoveredHash, RecoveredIndex
    <2>2. CASE file # <<>>
      <3>1. 1 \in 1 .. Len(file)
        BY <2>2, <1>2
      <3> QED
        BY <2>2, <3>1, <1>3 DEF IndInv, ChainIntact
    <2> QED
      BY <2>1, <2>2
  <1>11. ASSUME NEW i \in 2 .. Len(file')
         PROVE  Linked(file'[i - 1], file'[i])
    <2>1. CASE i <= Len(file)
      <3>1. i \in 1 .. Len(file) /\ i - 1 \in 1 .. Len(file) /\ i \in 2 .. Len(file)
        BY <2>1, <1>6, <1>11
      <3> QED
        BY <3>1, <1>3 DEF IndInv, ChainIntact
    <2>2. CASE i = Len(file) + 1
      <3>1. i - 1 = Len(file) /\ Len(file) \in 1 .. Len(file) /\ file # <<>>
        BY <2>2, <1>2, <1>6, <1>11
      <3>2. file'[i - 1] = file[Len(file)] /\ file'[i] = r
        BY <3>1, <2>2, <1>3
      <3> QED
        BY <3>1, <3>2, <1>4, <1>9 DEF Linked, RecoveredHash, RecoveredIndex
    <2> QED
      BY <2>1, <2>2, <1>3, <1>6, <1>11
  <1> QED
    BY <1>1, <1>3, <1>7, <1>8, <1>10, <1>11 DEF ChainIntact

LEMMA InitInv == Init => IndInv
  <1> SUFFICES ASSUME Init PROVE IndInv
    OBVIOUS
  <1>1. LegacyRecord \in Records
    BY DEF LegacyRecord, Records, Kinds
  <1>2. file \in {<<>>, <<LegacyRecord>>}
    BY DEF Init
  <1>3. file \in Seq(Records) /\ (file # <<>> => file[1] = LegacyRecord)
        /\ Len(file) \in {0, 1}
    <2>1. CASE file = <<>>
      BY <2>1
    <2>2. CASE file = <<LegacyRecord>>
      BY <1>1, <2>2
    <2> QED
      BY <1>2, <2>1, <2>2
  <1>4. entry \in BOOLEAN /\ poisoned \in BOOLEAN /\ (file # <<>> => entry)
    BY Zenon DEF Init
  <1>5. ChainIntact
    BY <1>3 DEF ChainIntact, LegacyRecord
  <1>6. /\ tail = "clean" /\ synced = Len(file) /\ mode = "down"
        /\ prevHash = 0 /\ chainIndex = 0 /\ nextHash = 1 /\ granted = {}
    BY DEF Init
  <1>7. TypeOK
    BY <1>3, <1>4, <1>6 DEF TypeOK
  <1> QED
    BY <1>4, <1>5, <1>6, <1>7
    DEF IndInv, GrantedIsDurable, TipAgrees, EntryBeforeLines

\* A step that leaves the lines, the count of synced ones and the grants alone
\* keeps what the invariant says of them.
LEMMA DiskUnchanged ==
    ASSUME IndInv, UNCHANGED <<file, synced, granted>>, entry => entry'
    PROVE  ChainIntact' /\ GrantedIsDurable'
  BY DEF IndInv, GrantedIsDurable, ChainIntact, Linked

\* Appending a line keeps every granted call durable.
LEMMA AppendKeepsDurable ==
    ASSUME IndInv, UNCHANGED <<synced, granted, entry>>,
           \A i \in 1 .. Len(file) : file'[i] = file[i]
    PROVE  GrantedIsDurable'
  <1>1. \A i \in 1 .. synced : file'[i] = file[i]
    BY DEF IndInv, TypeOK
  <1> QED
    BY <1>1 DEF IndInv, GrantedIsDurable

LEMMA WriteFailsInv == IndInv /\ WriteFails => IndInv'
  BY DiskUnchanged DEF WriteFails, IndInv, TypeOK, TipAgrees, EntryBeforeLines

LEMMA LogInv == IndInv /\ Log => IndInv'
  <1> SUFFICES ASSUME IndInv, Log PROVE IndInv'
    OBVIOUS
  <1> DEFINE r == PrepareRecord("logged", NoCall)
  <1>1. CASE WriteFails
    BY <1>1, WriteFailsInv
  <1>2. CASE WriteLine(r) /\ Advance(r) /\ UNCHANGED <<synced, granted>>
    <2>1. CASE mode = "file"
      <3>1. file' = Append(file, r) /\ ~poisoned
        BY <1>2, <2>1 DEF WriteLine, Log, Healthy
      <3>2. /\ file' \in Seq(Records)
            /\ Len(file') = Len(file) + 1
            /\ \A i \in 1 .. Len(file) : file'[i] = file[i]
            /\ RecoveredHash(file') = nextHash
            /\ RecoveredIndex(file') = chainIndex + 1
            /\ ChainIntact'
        BY <2>1, <3>1, AppendLine DEF Kinds
      <3>3. GrantedIsDurable'
        BY <1>2, <3>2, AppendKeepsDurable DEF WriteLine
      <3>4. r.hash = nextHash
        BY DEF PrepareRecord
      <3>5. TypeOK'
        BY <1>2, <3>2, <3>4 DEF IndInv, TypeOK, WriteLine, Advance
      <3>6. TipAgrees'
        BY <1>2, <2>1, <3>1, <3>2, <3>4 DEF IndInv, TipAgrees, WriteLine, Advance
      <3>7. EntryBeforeLines'
        BY <1>2, <2>1 DEF IndInv, EntryBeforeLines, WriteLine
      <3> QED
        BY <3>2, <3>3, <3>5, <3>6, <3>7 DEF IndInv
    <2>2. CASE mode # "file"
      <3>1. UNCHANGED <<file, synced, granted, entry, mode, tail>>
        BY <1>2, <2>2 DEF WriteLine
      <3>2. r.hash = nextHash
        BY DEF PrepareRecord
      <3>3. TypeOK'
        BY <1>2, <3>1, <3>2 DEF IndInv, TypeOK, WriteLine, Advance
      <3> QED
        BY <2>2, <3>1, <3>3, DiskUnchanged DEF IndInv, TipAgrees, EntryBeforeLines
    <2> QED
      BY <2>1, <2>2
  <1> QED
    BY <1>1, <1>2 DEF Log

LEMMA CommitInv ==
    ASSUME IndInv, NEW kind \in Kinds, NEW call \in Calls \cup {NoCall},
           kind = "allowed" => call \in Calls, Commit(kind, call)
    PROVE  IndInv'
  <1> DEFINE r == PrepareRecord(kind, call)
  <1>1. CASE mode = "stderr"
    <2>1. UNCHANGED <<file, tail, synced, entry, mode, prevHash, chainIndex,
                      nextHash, granted>> /\ poisoned' = TRUE
      BY <1>1 DEF Commit, WriteFails
    <2> QED
      BY <2>1, DiskUnchanged DEF IndInv, TypeOK, TipAgrees, EntryBeforeLines
  <1>2. CASE mode = "file" /\ WriteFails
    BY <1>2, WriteFailsInv
  <1>3. CASE mode = "file" /\ WriteLine(r)
    <2>1. file' = Append(file, r) /\ ~poisoned
      BY <1>3 DEF WriteLine, Commit, Healthy
    <2>2. /\ r \in Records
          /\ file' \in Seq(Records)
          /\ Len(file') = Len(file) + 1
          /\ \A i \in 1 .. Len(file) : file'[i] = file[i]
          /\ file'[Len(file) + 1] = r
          /\ RecoveredHash(file') = nextHash
          /\ RecoveredIndex(file') = chainIndex + 1
          /\ ChainIntact'
      BY <1>3, <2>1, AppendLine
    <2>3. r.hash = nextHash /\ r.kind = kind /\ r.call = call
      BY DEF PrepareRecord
    <2>4. EntryBeforeLines' /\ entry'
      BY <1>3 DEF IndInv, EntryBeforeLines, WriteLine
    <2>5. CASE poisoned' = TRUE /\ UNCHANGED <<synced, prevHash, chainIndex, granted>>
      <3>1. GrantedIsDurable'
        BY <1>3, <2>2, <2>5, AppendKeepsDurable DEF WriteLine
      <3>2. TypeOK'
        BY <1>3, <2>2, <2>5 DEF IndInv, TypeOK, WriteLine
      <3> QED
        BY <2>2, <2>4, <2>5, <3>1, <3>2 DEF IndInv, TipAgrees
    <2>6. CASE /\ Advance(r)
               /\ synced' = Len(file')
               /\ granted' = IF kind = "allowed" THEN granted \cup {call}
                                                 ELSE granted
      <3>1. TypeOK'
        BY <1>3, <2>2, <2>3, <2>6 DEF IndInv, TypeOK, WriteLine, Advance
      <3>2. TipAgrees'
        BY <1>3, <2>1, <2>2, <2>3, <2>6 DEF IndInv, TipAgrees, WriteLine, Advance
      <3>3. ASSUME NEW c \in granted'
            PROVE  \E i \in 1 .. synced' :
                      file'[i].kind = "allowed" /\ file'[i].call = c
        <4>0. Len(file) \in Nat /\ synced \in 0 .. Len(file)
              /\ synced' = Len(file) + 1
          BY <2>2, <2>6 DEF IndInv, TypeOK
        <4>1. CASE c \in granted
          <5>1. PICK i \in 1 .. synced : file[i].kind = "allowed" /\ file[i].call = c
            BY <4>1 DEF IndInv, GrantedIsDurable
          <5>2. i \in 1 .. Len(file) /\ i \in 1 .. synced'
            BY <4>0, <5>1
          <5> QED
            BY <5>1, <5>2, <2>2
        <4>2. CASE c \notin granted
          <5>1. kind = "allowed" /\ c = call
            BY <4>2, <3>3, <2>6
          <5>2. Len(file) + 1 \in 1 .. synced'
            BY <4>0
          <5> QED
            BY <5>1, <5>2, <2>2, <2>3
        <4> QED
          BY <4>1, <4>2
      <3>4. GrantedIsDurable'
        BY <2>4, <3>3 DEF GrantedIsDurable
      <3> QED
        BY <2>2, <2>4, <3>1, <3>2, <3>4 DEF IndInv
    <2> QED
      BY <1>3, <2>1, <2>2, <2>5, <2>6 DEF Commit, WriteFails
  <1> QED
    BY <1>1, <1>2, <1>3 DEF Commit

\* A crash keeps a prefix that holds every synced line, so that nothing
\* granted is lost and the chain is cut, never broken.
LEMMA CrashInv == IndInv /\ Crash => IndInv'
  <1> SUFFICES ASSUME IndInv, Crash PROVE IndInv'
    OBVIOUS
  <1>0. file \in Seq(Records) /\ Len(file) \in Nat /\ synced \in 0 .. Len(file)
    BY DEF IndInv, TypeOK
  <1>1. ASSUME NEW k \in synced .. Len(file), file' = SubSeq(file, 1, k),
               tail' \in {"clean", "torn", "corrupt"}, synced' = k
        PROVE  IndInv'
    <2>1. /\ k \in Nat /\ file' \in Seq(Records) /\ Len(file') = k
          /\ \A i \in 1 .. k : file'[i] = file[i]
      BY <1>0, <1>1
    <2>2. UNCHANGED <<entry, poisoned, prevHash, chainIndex, nextHash, granted>>
          /\ mode' = "down"
      BY DEF Crash
    <2>3. TypeOK'
      BY <1>1, <2>1, <2>2 DEF IndInv, TypeOK
    <2>4. GrantedIsDurable'
      <3>1. \A i \in 1 .. synced : i \in 1 .. synced' /\ file'[i] = file[i]
        BY <1>0, <1>1, <2>1
      <3> QED
        BY <2>2, <3>1 DEF IndInv, GrantedIsDurable
    <2>5. ChainIntact'
      <3>1. file' # <<>> => k >= 1 /\ file # <<>>
        BY <1>0, <1>1, <2>1
      <3>2. file' # <<>> => file'[1].prev = 0 /\ file'[1].index = 0
        BY <2>1, <3>1 DEF IndInv, ChainIntact
      <3>3. \A i \in 2 .. Len(file') :
               /\ i \in 2 .. Len(file)
               /\ file'[i] = file[i] /\ file'[i - 1] = file[i - 1]
        BY <1>0, <1>1, <2>1
      <3>4. \A i \in 2 .. Len(file') : Linked(file'[i - 1], file'[i])
        BY <3>3 DEF IndInv, ChainIntact
      <3> QED
        BY <3>2, <3>4 DEF ChainIntact
    <2>6. EntryBeforeLines'
      <3>1. file' # <<>> => file # <<>>
        BY <1>0, <1>1, <2>1
      <3> QED
        BY <2>2, <3>1 DEF IndInv, EntryBeforeLines
    <2> QED
      BY <2>2, <2>3, <2>4, <2>5, <2>6 DEF IndInv, TipAgrees
  <1>2. ASSUME ~entry, file' = <<>>, tail' = "clean", synced' = 0
        PROVE  IndInv'
    <2>1. UNCHANGED <<entry, poisoned, prevHash, chainIndex, nextHash, granted>>
          /\ mode' = "down"
      BY DEF Crash
    <2>2. file' \in Seq(Records) /\ Len(file') = 0
      BY <1>2
    <2>3. TypeOK'
      BY <1>2, <2>1, <2>2 DEF IndInv, TypeOK
    <2>4. granted' = {}
      BY <1>2, <2>1 DEF IndInv, GrantedIsDurable
    <2>5. ChainIntact'
      BY <1>2, <2>2 DEF ChainIntact
    <2> QED
      BY <1>2, <2>1, <2>3, <2>4, <2>5
      DEF IndInv, GrantedIsDurable, TipAgrees, EntryBeforeLines
  <1> QED
    BY <1>1, <1>2 DEF Crash

LEMMA StepInv == IndInv /\ [Next]_vars => IndInv'
  <1> SUFFICES ASSUME IndInv, [Next]_vars PROVE IndInv'
    OBVIOUS
  <1>1. CASE NewLogger
    <2>1. RecoveredHash(file) \in Nat /\ RecoveredIndex(file) \in Nat
      <3>1. file # <<>> => Len(file) \in 1 .. Len(file) /\ file[Len(file)] \in Records
        BY DEF IndInv, TypeOK
      <3> QED
        BY <3>1 DEF RecoveredHash, RecoveredIndex, Records
    <2>2. TypeOK'
      BY <1>1, <2>1 DEF NewLogger, IndInv, TypeOK
    <2> QED
      BY <1>1, <2>2, DiskUnchanged DEF NewLogger, IndInv, TipAgrees, EntryBeforeLines
  <1>2. CASE RefuseToStart
    BY <1>2, DiskUnchanged DEF RefuseToStart, IndInv, TypeOK, TipAgrees, EntryBeforeLines
  <1>3. CASE FallBackToStderr
    BY <1>3, DiskUnchanged DEF FallBackToStderr, IndInv, TypeOK, TipAgrees, EntryBeforeLines
  <1>4. CASE Log
    BY <1>4, LogInv
  <1>5. ASSUME NEW call \in Calls, CommitAuthorization(call) PROVE IndInv'
    BY <1>5, CommitInv DEF CommitAuthorization, Kinds
  <1>6. CASE CommitKineticStop
    BY <1>6, CommitInv DEF CommitKineticStop, Kinds
  <1>7. CASE Close
    BY <1>7, DiskUnchanged DEF Close, IndInv, TypeOK, TipAgrees, EntryBeforeLines
  <1>8. CASE Crash
    BY <1>8, CrashInv
  <1>9. CASE UNCHANGED vars
    BY <1>9, DiskUnchanged DEF vars, IndInv, TypeOK, TipAgrees, EntryBeforeLines
  <1> QED
    BY <1>1, <1>2, <1>3, <1>4, <1>5, <1>6, <1>7, <1>8, <1>9 DEF Next

\* The inductive invariant holds in every reachable state of the log.
LEMMA Invariance == Spec => []IndInv
  BY InitInv, StepInv, PTL DEF Spec

\* Types of the log hold in every reachable state.
THEOREM TypeCorrect == Spec => []TypeOK
  <1>1. IndInv => TypeOK
    BY DEF IndInv
  <1> QED
    BY <1>1, Invariance, PTL

\* CommitAuthorization returns nil only for records that no later failure of
\* the writer, of the process or of the machine removes.
THEOREM DurabilityHolds == Spec => []GrantedIsDurable
  <1>1. IndInv => GrantedIsDurable
    BY DEF IndInv
  <1> QED
    BY <1>1, Invariance, PTL

\* The file is one hash chain, whatever NewLogger, Log, the commits and crashes
\* did to it, and a healthy logger stands at its end.
THEOREM ChainHolds == Spec => []ChainIntact /\ []TipAgrees
  <1>1. IndInv => ChainIntact /\ TipAgrees
    BY DEF IndInv
  <1> QED
    BY <1>1, Invariance, PTL

-----------------------------------------------------------------------------
(***************************************************************************)
(* What a step may do to the lines of the file.                            *)
(***************************************************************************)
\* A step appends one line to an undamaged file, or adds none.
LEMMA StepShape ==
    ASSUME IndInv, [Next]_vars
    PROVE  \/ UNCHANGED <<file, synced>>
           \/ /\ mode = "file" /\ ~poisoned
              /\ \E kind \in Kinds, call \in Calls \cup {NoCall} :
                    /\ file' = Append(file, PrepareRecord(kind, call))
                    /\ kind = "allowed" => call \in Calls
              /\ synced' \in {synced, Len(file')}
           \/ \E k \in synced .. Len(file) : file' = SubSeq(file, 1, k) /\ synced' = k
           \/ ~entry /\ file' = <<>> /\ synced' = 0
  <1> DEFINE Appends ==
                /\ mode = "file" /\ ~poisoned
                /\ \E kind \in Kinds, call \in Calls \cup {NoCall} :
                      /\ file' = Append(file, PrepareRecord(kind, call))
                      /\ kind = "allowed" => call \in Calls
                /\ synced' \in {synced, Len(file')}
  <1>1. CASE NewLogger \/ RefuseToStart \/ FallBackToStderr \/ Close \/ UNCHANGED vars
    BY <1>1 DEF NewLogger, RefuseToStart, FallBackToStderr, Close, vars
  <1>2. CASE Log
    BY <1>2 DEF Log, WriteFails, WriteLine, Healthy, Kinds
  <1>3. ASSUME NEW kind \in Kinds, NEW call \in Calls \cup {NoCall},
               kind = "allowed" => call \in Calls, Commit(kind, call)
        PROVE  UNCHANGED <<file, synced>> \/ Appends
    BY <1>3 DEF Commit, WriteFails, WriteLine, Healthy
  <1>4. ASSUME NEW call \in Calls, CommitAuthorization(call)
        PROVE  UNCHANGED <<file, synced>> \/ Appends
    BY <1>3, <1>4 DEF CommitAuthorization, Kinds
  <1>5. CASE CommitKineticStop
    BY <1>3, <1>5 DEF CommitKineticStop, Kinds
  <1>6. CASE Crash
    BY <1>6 DEF Crash
  <1> QED
    BY <1>1, <1>2, <1>4, <1>5, <1>6 DEF Next

\* A step keeps the synced lines of a file whose directory entry is durable.
LEMMA SyncedKept ==
    ASSUME IndInv, [Next]_vars, entry
    PROVE  synced' >= synced /\ \A i \in 1 .. synced : file'[i] = file[i]
  <1>0. file \in Seq(Records) /\ Len(file) \in Nat /\ synced \in 0 .. Len(file)
    BY DEF IndInv, TypeOK
  <1>1. CASE UNCHANGED <<file, synced>>
    BY <1>0, <1>1
  <1>2. ASSUME NEW kind \in Kinds, NEW call \in Calls \cup {NoCall},
               file' = Append(file, PrepareRecord(kind, call)),
               mode = "file", ~poisoned, synced' \in {synced, Len(file')}
        PROVE  synced' >= synced /\ \A i \in 1 .. synced : file'[i] = file[i]
    <2>1. Len(file') = Len(file) + 1 /\ \A i \in 1 .. Len(file) : file'[i] = file[i]
      BY <1>2, AppendLine
    <2> QED
      BY <1>0, <1>2, <2>1
  <1>3. ASSUME NEW k \in synced .. Len(file), file' = SubSeq(file, 1, k), synced' = k
        PROVE  synced' >= synced /\ \A i \in 1 .. synced : file'[i] = file[i]
    BY <1>0, <1>3
  <1> QED
    BY <1>1, <1>2, <1>3, StepShape

\* Lines that CommitAuthorization synced stay, in place, for good: no append,
\* reopening or crash removes or rewrites one.
THEOREM SyncedLinesHold == Spec => SyncedLinesStay
  <1>1. IndInv /\ [Next]_vars
          => (entry => /\ synced' >= synced
                       /\ \A i \in 1 .. synced : file'[i] = file[i])
    BY SyncedKept
  <1> QED
    BY <1>1, Invariance, PTL DEF Spec, SyncedLinesStay

\* A poisoned logger and a logger started on a damaged file append nothing.
THEOREM DamageIsLast == Spec => NothingAfterDamage
  <1>1. IndInv /\ [Next]_vars => (tail # "clean" => Len(file') <= Len(file))
    <2> SUFFICES ASSUME IndInv, [Next]_vars, tail # "clean"
                 PROVE  Len(file') <= Len(file)
      OBVIOUS
    <2>0. file \in Seq(Records) /\ Len(file) \in Nat /\ synced \in 0 .. Len(file)
      BY DEF IndInv, TypeOK
    <2>1. CASE UNCHANGED <<file, synced>>
      BY <2>0, <2>1
    <2>2. ~(mode = "file" /\ ~poisoned)
      BY DEF IndInv, TipAgrees
    <2>3. ASSUME NEW k \in synced .. Len(file), file' = SubSeq(file, 1, k)
          PROVE  Len(file') <= Len(file)
      BY <2>0, <2>3
    <2>4. CASE file' = <<>>
      BY <2>0, <2>4
    <2> QED
      BY <2>1, <2>2, <2>3, <2>4, StepShape
  <1> QED
    BY <1>1, Invariance, PTL DEF Spec, NothingAfterDamage

-----------------------------------------------------------------------------
(***************************************************************************)
(* The log implements AuthorizationLedger.                                 *)
(***************************************************************************)
\* Allow records are about calls.  With this the durable calls are calls.
AllowNamesCall ==
    \A i \in DOMAIN file : file[i].kind = "allowed" => file[i].call \in Calls

LEMMA AllowNamesCallInv == Spec => []AllowNamesCall
  <1>1. Init => AllowNamesCall
    <2> SUFFICES ASSUME Init PROVE AllowNamesCall
      OBVIOUS
    <2>1. CASE file = <<>>
      BY <2>1 DEF AllowNamesCall
    <2>2. CASE file = <<LegacyRecord>>
      BY <2>2 DEF AllowNamesCall, LegacyRecord
    <2> QED
      BY <2>1, <2>2 DEF Init
  <1>2. IndInv /\ AllowNamesCall /\ [Next]_vars => AllowNamesCall'
    <2> SUFFICES ASSUME IndInv, AllowNamesCall, [Next]_vars PROVE AllowNamesCall'
      OBVIOUS
    <2>0. file \in Seq(Records) /\ Len(file) \in Nat /\ synced \in 0 .. Len(file)
      BY DEF IndInv, TypeOK
    <2>1. CASE UNCHANGED <<file, synced>>
      BY <2>1 DEF AllowNamesCall
    <2>2. ASSUME NEW kind \in Kinds, NEW call \in Calls \cup {NoCall},
                 file' = Append(file, PrepareRecord(kind, call)),
                 kind = "allowed" => call \in Calls, mode = "file", ~poisoned
          PROVE  AllowNamesCall'
      <3>1. /\ file' \in Seq(Records) /\ Len(file') = Len(file) + 1
            /\ \A i \in 1 .. Len(file) : file'[i] = file[i]
            /\ file'[Len(file) + 1] = PrepareRecord(kind, call)
        BY <2>2, AppendLine
      <3>2. PrepareRecord(kind, call).kind = kind /\ PrepareRecord(kind, call).call = call
        BY DEF PrepareRecord
      <3>3. \A i \in DOMAIN file' : i \in 1 .. Len(file) \/ i = Len(file) + 1
        BY <2>0, <3>1
      <3>4. \A i \in 1 .. Len(file) : i \in DOMAIN file
        BY <2>0
      <3> QED
        BY <2>2, <3>1, <3>2, <3>3, <3>4 DEF AllowNamesCall
    <2>3. ASSUME NEW k \in synced .. Len(file), file' = SubSeq(file, 1, k)
          PROVE  AllowNamesCall'
      <3>1. \A i \in DOMAIN file' : i \in DOMAIN file /\ file'[i] = file[i]
        BY <2>0, <2>3
      <3> QED
        BY <3>1 DEF AllowNamesCall
    <2>4. CASE file' = <<>>
      BY <2>4 DEF AllowNamesCall
    <2> QED
      BY <2>1, <2>2, <2>3, <2>4, StepShape
  <1> QED
    BY <1>1, <1>2, Invariance, PTL DEF Spec

\* Durable calls are never taken away.
LEMMA DurableGrows ==
    ASSUME IndInv, [Next]_vars, AllowNamesCall'
    PROVE  DurableCalls \subseteq DurableCalls' /\ DurableCalls' \subseteq Calls
  <1>1. IndInv'
    BY StepInv
  <1>2. entry => entry'
    BY DEF Next, vars, NewLogger, RefuseToStart, FallBackToStderr, Log, WriteFails,
           WriteLine, Advance, CommitAuthorization, CommitKineticStop, Commit, Close, Crash
  <1>3. DurableCalls' \subseteq Calls
    <2>1. file' \in Seq(Records) /\ synced' \in 0 .. Len(file')
      BY <1>1 DEF IndInv, TypeOK
    <2>2. \A i \in 1 .. synced' : i \in DOMAIN file'
      BY <2>1
    <2> QED
      BY <2>2 DEF DurableCalls, AllowNamesCall
  <1>4. CASE ~entry
    BY <1>3, <1>4 DEF DurableCalls
  <1>5. CASE entry
    <2>0. file \in Seq(Records) /\ Len(file) \in Nat /\ synced \in 0 .. Len(file)
          /\ synced' \in Nat
      BY <1>1 DEF IndInv, TypeOK
    <2>1. synced' >= synced /\ \A i \in 1 .. synced : file'[i] = file[i]
      BY <1>5, SyncedKept
    <2>2. \A i \in 1 .. synced : i \in 1 .. synced' /\ file'[i] = file[i]
      BY <2>0, <2>1
    <2> QED
      BY <1>2, <1>3, <1>5, <2>2 DEF DurableCalls
  <1> QED
    BY <1>4, <1>5

\* A grant is always of one call, and of one whose record is durable.
LEMMA GrantStep ==
    ASSUME IndInv, [Next]_vars
    PROVE  UNCHANGED granted \/ \E call \in Calls : granted' = granted \cup {call}
  BY DEF Next, vars, NewLogger, RefuseToStart, FallBackToStderr, Log, WriteFails,
         WriteLine, Advance, CommitAuthorization, CommitKineticStop, Commit, Close, Crash

\* AuditLog implements AuthorizationLedger: every step of the log maps to a
\* step of the ledger or leaves it alone.
THEOREM LogImplementsLedger == Spec => ImplementsLedger
  <1>1. Init => Ledger!Init
    <2> SUFFICES ASSUME Init PROVE DurableCalls = {} /\ granted = {}
      BY DEF Ledger!Init
    <2>1. CASE file = <<>>
      BY <2>1 DEF Init, DurableCalls
    <2>2. CASE file = <<LegacyRecord>>
      <3>1. synced = 1 /\ file[1].kind = "legacy"
        BY <2>2 DEF Init, LegacyRecord
      <3> QED
        BY <3>1 DEF Init, DurableCalls
    <2> QED
      BY <2>1, <2>2 DEF Init
  <1>2. IndInv /\ AllowNamesCall' /\ [Next]_vars
          => [Ledger!Next]_<<DurableCalls, granted>>
    <2> SUFFICES ASSUME IndInv, AllowNamesCall', [Next]_vars
                 PROVE  Ledger!Next
      OBVIOUS
    <2>1. DurableCalls \subseteq DurableCalls' /\ DurableCalls' \subseteq Calls
      BY DurableGrows
    <2>2. Ledger!Persist
      <3>1. DurableCalls' = DurableCalls \cup DurableCalls' /\ DurableCalls' \in SUBSET Calls
        BY <2>1
      <3> QED
        BY <3>1 DEF Ledger!Persist
    <2>3. CASE UNCHANGED granted
      BY <2>2, <2>3 DEF Ledger!Next
    <2>4. ASSUME NEW call \in Calls, granted' = granted \cup {call}
          PROVE  Ledger!Next
      <3>1. IndInv'
        BY StepInv
      <3>2. entry' /\ \E i \in 1 .. synced' :
                          file'[i].kind = "allowed" /\ file'[i].call = call
        BY <2>4, <3>1 DEF IndInv, GrantedIsDurable
      <3>3. call \in DurableCalls'
        BY <3>2 DEF DurableCalls
      <3> QED
        BY <2>2, <2>4, <3>3 DEF Ledger!Next, Ledger!Grant
    <2> QED
      BY <2>3, <2>4, GrantStep
  <1> QED
    BY <1>1, <1>2, Invariance, AllowNamesCallInv, PTL DEF Spec, ImplementsLedger, Ledger!Spec

-----------------------------------------------------------------------------
(***************************************************************************)
(* The workflow engine.                                                    *)
(***************************************************************************)

\* A run in progress, and what the process that builds a report knows.
Runs == [pc : {"running"}, name : Names, argv : Nat, snap : Snapshots,
         specSeq : 0 .. MaxReviews, steady : BOOLEAN]

Snapped == [pc : {"snapped"}, task : Contracts, snap : Snapshots, since : Nat, steady : BOOLEAN]
Scoped == [pc : {"scoped"}, task : Contracts, snap : Snapshots, since : Nat, steady : BOOLEAN,
           inScope : BOOLEAN]
Loaded == [pc : {"loaded"}, task : Contracts, snap : Snapshots, since : Nat, steady : BOOLEAN,
           inScope : BOOLEAN, cmds : Seq(RecordType)]

Reports ==
    {Idle, [pc |-> "failed"]}
    \cup Snapped \cup Scoped \cup Loaded
    \cup [pc : {"done"}, task : Contracts, snap : Snapshots, since : Nat, steady : BOOLEAN,
          cmds : Seq(RecordType), status : Statuses]

ProcessInv ==
    /\ run \in [Runners -> {Idle} \cup Runs] /\ report \in Reports
    /\ budget \in [runners : SUBSET Runners, runs : Nat, trees : SUBSET Versions, reports : BOOLEAN]

\* A review that a run or a record names had no gap before it when the run began:
\* what is added to the journal later is another review.
CycleInv ==
    /\ \A i \in DOMAIN commands : 1 .. commands[i].specSeq \subseteq DOMAIN journal
    /\ \A r \in Runners : run[r] # Idle => 1 .. run[r].specSeq \subseteq DOMAIN journal

\* A report under way: a tree that stayed the same is the one of the snapshot, and the
\* records it has read are a beginning of the file that was not shorter at its start.
BuildInv ==
    /\ report.pc \in {"snapped", "scoped"} => report.since <= Len(commands)
    /\ report.pc = "snapped" /\ report.steady => report.snap.digest[1] = tree
    /\ report.pc \in {"scoped", "loaded"} /\ report.steady /\ report.inScope =>
          CheckScope(report.task, report.snap.digest[1], report.snap.base) = {}
    /\ report.pc = "loaded" => /\ Len(report.cmds) \in report.since .. Len(commands)
                               /\ \A i \in DOMAIN report.cmds : report.cmds[i] = commands[i]

WorkflowInv == WorkflowTypeOK /\ ProcessInv /\ CycleInv /\ BuildInv /\ ReportIsBacked

-----------------------------------------------------------------------------
\* A set of naturals has a least element, and a greatest one if it is bounded.
LEMMA LeastExists ==
    ASSUME NEW S \in SUBSET Nat, S # {}
    PROVE  \E i \in S : \A j \in S : i <= j
  <1>1. PICK i \in S : \A j \in S : ~(<<j, i>> \in OpToRel(<, Nat))
    BY WFMin, NatLessThanWellFounded
  <1>2. \A j \in S : ~(j < i)
    BY <1>1 DEF OpToRel
  <1> QED
    BY <1>2

LEMMA GreatestExists ==
    ASSUME NEW n \in Nat, NEW S \in SUBSET (0 .. n), S # {}
    PROVE  \E i \in S : \A j \in S : i >= j
  <1> DEFINE T == {n - i : i \in S}
  <1>0. \A i \in S : i \in 0 .. n /\ n - i \in Nat
    OBVIOUS
  <1>1. T \in SUBSET Nat /\ T # {} /\ \A i \in S : n - i \in T
    BY <1>0
  <1>2. \A t \in T : \E i \in S : t = n - i
    OBVIOUS
  <1> HIDE DEF T
  <1>3. PICK t \in T : \A u \in T : t <= u
    BY <1>1, LeastExists
  <1>4. PICK i \in S : t = n - i
    BY <1>2
  <1>5. \A j \in S : n - i <= n - j
    BY <1>1, <1>3, <1>4
  <1> QED
    BY <1>5

LEMMA MinIs ==
    ASSUME NEW S \in SUBSET Nat, S # {}
    PROVE  Min(S) \in S
  BY LeastExists, Zenon DEF Min

LEMMA MaxIs ==
    ASSUME NEW n \in Nat, NEW S \in SUBSET (0 .. n), S # {}
    PROVE  Max(S) \in S /\ \A j \in S : j <= Max(S)
  <1>1. \E i \in S : \A j \in S : i >= j
    BY GreatestExists
  <1>2. Max(S) \in S /\ \A j \in S : Max(S) >= j
    BY <1>1, Zenon DEF Max
  <1> QED
    BY <1>2

\* With or without 0 the greatest of some positions is the same.
LEMMA MaxOfPositions ==
    ASSUME NEW n \in Nat, NEW S \in SUBSET (1 .. n), S # {}
    PROVE  Max({0} \cup S) = Max(S) /\ Max(S) \in S
  <1>1. Max(S) \in S /\ \A j \in S : j <= Max(S)
    BY MaxIs
  <1>2. /\ Max({0} \cup S) \in {0} \cup S
        /\ \A j \in {0} \cup S : j <= Max({0} \cup S)
    <2>1. {0} \cup S \in SUBSET (0 .. n) /\ {0} \cup S # {}
      OBVIOUS
    <2> QED
      BY <2>1, MaxIs
  <1> DEFINE a == Max(S)
             b == Max({0} \cup S)
  <1>3. a \in 1 .. n /\ b \in {0} \cup S /\ a <= b /\ 0 <= b /\ \A j \in S : j <= a
    BY <1>1, <1>2
  <1> HIDE DEF a, b
  <1>4. a = b
    BY <1>3
  <1> QED
    BY <1>1, <1>4 DEF a, b

-----------------------------------------------------------------------------
(***************************************************************************)
(* What a status says.                                                     *)
(***************************************************************************)
LEMMA StatusIsOne ==
    ASSUME NEW c, NEW cmds, NEW inScope, NEW j, NEW snap
    PROVE  DeriveStatus(c, cmds, inScope, j, snap) \in Statuses
  <1> DEFINE blocked == \/ \E i \in DOMAIN cmds : cmds[i].name \in DOMAIN Task[c].cmds /\ ~ArgvMatches(cmds[i], c)
                        \/ countTargetAttempts(cmds, c) > Task[c].max
  <1>1. CASE ~ValidateTask(c)
    BY <1>1 DEF DeriveStatus, Statuses
  <1>2. CASE ValidateTask(c) /\ blocked
    BY <1>2 DEF DeriveStatus, Statuses
  <1>3. CASE ValidateTask(c) /\ ~blocked
    BY <1>3 DEF DeriveStatus, Statuses
  <1> QED
    BY <1>1, <1>2, <1>3

\* The spec pass a status is derived under.
PassOf(c, j) == IF specRegime(c) THEN currentSpecPass(j, c) ELSE 0

\* A status of TARGET_VERIFIED or higher has its records and its targets in order.
LEMMA HighStatus ==
    ASSUME NEW c, NEW cmds, NEW inScope, NEW j, NEW snap,
           StatusRank(DeriveStatus(c, cmds, inScope, j, snap)) >= 4
    PROVE  /\ \A i \in DOMAIN cmds : cmds[i].name \in DOMAIN Task[c].cmds => ArgvMatches(cmds[i], c)
           /\ TargetsVerified(cmds, c, inScope, RedIndex(cmds, c, PassOf(c, j)), snap)
           /\ specRegime(c) => currentSpecPass(j, c) # 0
  <1> DEFINE status == DeriveStatus(c, cmds, inScope, j, snap)
             blocked == \/ \E i \in DOMAIN cmds : cmds[i].name \in DOMAIN Task[c].cmds /\ ~ArgvMatches(cmds[i], c)
                        \/ countTargetAttempts(cmds, c) > Task[c].max
             pass == PassOf(c, j)
             verified == TargetsVerified(cmds, c, inScope, RedIndex(cmds, c, pass), snap)
  <1>1. status \notin {"UNSPECIFIED", "BLOCKED", "SPECIFIED", "SPEC_REVIEWED", "FAILURE_REPRODUCED"}
    <2> HIDE DEF status
    <2> QED
      BY DEF StatusRank, status
  <1>2. ~ValidateTask(c) => status = "UNSPECIFIED"
    BY DEF DeriveStatus
  <1>3. ValidateTask(c) /\ blocked => status = "BLOCKED"
    BY DEF DeriveStatus
  <1>4. ValidateTask(c) /\ ~blocked /\ specRegime(c) /\ pass = 0 => status = "SPECIFIED"
    BY DEF DeriveStatus, PassOf
  <1>5. ValidateTask(c) /\ ~blocked /\ ~(specRegime(c) /\ pass = 0) /\ ~verified
           => status \in {"SPECIFIED", "SPEC_REVIEWED", "FAILURE_REPRODUCED"}
    BY DEF DeriveStatus, PassOf
  <1> HIDE DEF status, verified
  <1>6. ~blocked /\ verified /\ ~(specRegime(c) /\ pass = 0)
    BY <1>1, <1>2, <1>3, <1>4, <1>5
  <1> QED
    BY <1>6 DEF verified, PassOf

\* RedIndex is the position of a fresh failure, or 0.
LEMMA RedIsNat ==
    ASSUME NEW c, NEW cmds \in Seq(RecordType), NEW pass
    PROVE  /\ RedIndex(cmds, c, pass) \in Nat
           /\ RedIndex(cmds, c, pass) > 0 => FreshRed(cmds[RedIndex(cmds, c, pass)], c, pass)
  <1> DEFINE fresh == {i \in DOMAIN cmds : FreshRed(cmds[i], c, pass)}
  <1>1. fresh \in SUBSET Nat
    OBVIOUS
  <1>2. RedIndex(cmds, c, pass) = IF Task[c].sensitive /\ fresh # {} THEN Min(fresh) ELSE 0
    BY DEF RedIndex
  <1>4. \A i \in fresh : FreshRed(cmds[i], c, pass)
    OBVIOUS
  <1> HIDE DEF fresh
  <1>3. fresh # {} => Min(fresh) \in fresh /\ Min(fresh) \in Nat
    BY <1>1, MinIs
  <1> QED
    BY <1>2, <1>3, <1>4

\* The positions of the records of a command.
Positions(cmds, n) == {i \in DOMAIN cmds : cmds[i].name = n}

\* A status of TARGET_VERIFIED or higher rests on the last record of every target.
LEMMA HighIsTested ==
    ASSUME NEW c, NEW cmds \in Seq(RecordType), NEW inScope, NEW j, NEW snap,
           StatusRank(DeriveStatus(c, cmds, inScope, j, snap)) >= 4,
           NEW n \in Targets(c)
    PROVE  LET i == Max({0} \cup Positions(cmds, n))
           IN  /\ i > 0 /\ cmds[i].exit = 0 /\ cmds[i].snap = snap
               /\ Task[c].sensitive => \E k \in 1 .. i - 1 : FreshRed(cmds[k], c, PassOf(c, j))
  <1> DEFINE P == Positions(cmds, n)
             same == {i \in DOMAIN cmds : cmds[i].name = n /\ ArgvMatches(cmds[i], c)}
             red == RedIndex(cmds, c, PassOf(c, j))
             i == lastMatching(cmds, c, n)
  <1>1. n \in DOMAIN Task[c].cmds
    BY DEF Targets
  <1>2. P = same
    BY <1>1, HighStatus DEF Positions
  <1>3. i > red /\ cmds[i].snap = snap
    BY HighStatus DEF TargetsVerified, Bound
  <1>4. red \in Nat /\ (red > 0 => FreshRed(cmds[red], c, PassOf(c, j)))
    BY RedIsNat
  <1>10. Task[c].sensitive => red > 0
    BY HighStatus DEF TargetsVerified
  <1>5. i = IF P # {} /\ cmds[Max(P)].exit = 0 THEN Max(P) ELSE 0
    BY <1>2 DEF lastMatching
  <1>6. P \in SUBSET (1 .. Len(cmds)) /\ Len(cmds) \in Nat
    BY DEF Positions
  <1> HIDE DEF P, red, i
  <1>7. i # 0
    BY <1>3, <1>4
  <1>8. P # {} /\ cmds[Max(P)].exit = 0 /\ i = Max(P)
    BY <1>5, <1>7
  <1>9. Max({0} \cup P) = i /\ i \in 1 .. Len(cmds)
    BY <1>6, <1>8, MaxOfPositions
  <1>11. Task[c].sensitive => red \in 1 .. i - 1
    BY <1>3, <1>4, <1>9, <1>10
  <1>12. Task[c].sensitive => \E k \in 1 .. i - 1 : FreshRed(cmds[k], c, PassOf(c, j))
    BY <1>4, <1>10, <1>11
  <1>13. i > 0 /\ cmds[i].exit = 0 /\ cmds[i].snap = snap
    BY <1>3, <1>6, <1>8, <1>9
  <1>14. Max({0} \cup Positions(cmds, n)) = i
    BY <1>9 DEF P
  <1> QED
    BY <1>12, <1>13, <1>14

\* A set of positions is finite, and has at most as many members as there are.
LEMMA SomePositions ==
    ASSUME NEW n \in Nat, NEW S \in SUBSET (1 .. n)
    PROVE  IsFiniteSet(S) /\ Cardinality(S) \in 0 .. n
  <1>1. IsFiniteSet(1 .. n) /\ Cardinality(1 .. n) = IF 1 > n THEN 0 ELSE n - 1 + 1
    BY FS_Interval
  <1>2. Cardinality(1 .. n) = n
    BY <1>1
  <1>3. IsFiniteSet(S) /\ Cardinality(S) <= Cardinality(1 .. n)
    BY <1>1, FS_Subset, Zenon
  <1>4. Cardinality(S) \in Nat
    BY <1>3, FS_CardinalityType
  <1> QED
    BY <1>2, <1>3, <1>4

\* The attempts at a target are at most as many as the records.
LEMMA AttemptsBlock ==
    ASSUME NEW c \in Contracts, NEW cmds \in Seq(RecordType), NEW inScope, NEW j, NEW snap,
           NEW n \in Targets(c), Cardinality(Positions(cmds, n)) > Task[c].max
    PROVE  DeriveStatus(c, cmds, inScope, j, snap) \in {"UNSPECIFIED", "BLOCKED"}
  <1> DEFINE counts == {Cardinality({i \in DOMAIN cmds : cmds[i].name = m}) : m \in Targets(c)}
             x == Cardinality(Positions(cmds, n))
  <1>1. Len(cmds) \in Nat /\ DOMAIN cmds = 1 .. Len(cmds) /\ Task[c].max \in Int
    BY WorkflowConstants
  <1>2. \A S \in SUBSET (1 .. Len(cmds)) : Cardinality(S) \in 0 .. Len(cmds)
    BY <1>1, SomePositions
  <1>3. counts \in SUBSET (0 .. Len(cmds)) /\ x \in counts
    BY <1>1, <1>2 DEF Positions
  <1>4. countTargetAttempts(cmds, c) = Max({0} \cup counts)
    BY DEF countTargetAttempts
  <1> HIDE DEF counts
  <1>5. {0} \cup counts \in SUBSET (0 .. Len(cmds)) /\ {0} \cup counts # {}
    BY <1>1, <1>3
  <1>6. Max({0} \cup counts) \in 0 .. Len(cmds) /\ x <= Max({0} \cup counts) /\ x \in 0 .. Len(cmds)
    BY <1>1, <1>3, <1>5, MaxIs
  <1> HIDE DEF x
  <1>7. countTargetAttempts(cmds, c) > Task[c].max
    BY <1>1, <1>4, <1>6 DEF x
  <1> QED
    BY <1>7 DEF DeriveStatus

\* The spec pass is the latest review of the live spec, or there is none.
LEMMA PassIsLatest ==
    ASSUME NEW j, DOMAIN j \subseteq 1 .. MaxReviews, NEW c
    PROVE  /\ currentSpecPass(j, c) \in {0} \cup SpecReviews(j, c)
           /\ currentSpecPass(j, c) \in 0 .. MaxReviews
           /\ currentSpecPass(j, c) # 0 =>
                 /\ currentSpecPass(j, c) = LatestSpecReview(j, c)
                 /\ \A n \in SpecReviews(j, c) : n <= currentSpecPass(j, c)
  <1> DEFINE S == SpecReviews(j, c)
  <1>1. S \in SUBSET (1 .. MaxReviews) /\ S \in SUBSET (0 .. MaxReviews) /\ MaxReviews \in Nat
    BY WorkflowConstants DEF SpecReviews
  <1>2. currentSpecPass(j, c) = IF LatestSpecReview(j, c) > 0 /\ j[LatestSpecReview(j, c)].passed
                                THEN LatestSpecReview(j, c) ELSE 0
    BY DEF currentSpecPass
  <1>3. LatestSpecReview(j, c) = IF S = {} THEN 0 ELSE Max(S)
    BY DEF LatestSpecReview
  <1> HIDE DEF S
  <1>4. S # {} => Max(S) \in S /\ \A n \in S : n <= Max(S)
    BY <1>1, MaxIs
  <1>5. /\ currentSpecPass(j, c) \in {0} \cup S
        /\ currentSpecPass(j, c) # 0 => /\ currentSpecPass(j, c) = LatestSpecReview(j, c)
                                        /\ \A n \in S : n <= currentSpecPass(j, c)
    BY <1>2, <1>3, <1>4
  <1> QED
    BY <1>1, <1>5 DEF S

-----------------------------------------------------------------------------
(***************************************************************************)
(* WorkflowInv is inductive.                                               *)
(***************************************************************************)
LEMMA WorkflowInitInv == WorkflowInit => WorkflowInv
  <1> SUFFICES ASSUME WorkflowInit PROVE WorkflowInv
    OBVIOUS
  <1> USE DEF WorkflowInit
  <1>0. Start[1] \in Contracts /\ Start[2] \in Versions /\ Start[3] \in Bases
    BY WorkflowConstants
  <1>1. PICK b \in Budgets : acts = b.acts /\ budget = [runners |-> b.runners, runs |-> b.runs, trees |-> b.trees,
                                                    reports |-> b.reports]
    OBVIOUS
  <1>2. b \in [runners : SUBSET Runners, runs : Nat, acts : Nat, trees : SUBSET Versions, reports : BOOLEAN]
    BY WorkflowConstants
  <1>3. acts \in Nat /\ budget \in [runners : SUBSET Runners, runs : Nat, trees : SUBSET Versions, reports : BOOLEAN]
    BY <1>1, <1>2
  <1>4. \A r \in Runners : run[r] = Idle /\ run[r].pc = "idle"
    BY DEF Idle
  <1>5. report.pc = "idle"
    BY DEF Idle
  <1>6. WorkflowTypeOK
    <2>1. commands \in Seq(RecordType)
      OBVIOUS
    <2>4. torn \in BOOLEAN
      BY Zenon
    <2>2. DOMAIN journal = {}
      OBVIOUS
    <2>3. contract \in Contracts /\ tree \in Versions /\ base \in Bases
      BY <1>0
    <2> QED
      BY <1>3, <1>4, <1>5, <2>1, <2>2, <2>3, <2>4 DEF WorkflowTypeOK
  <1>7. ProcessInv
    <2>1. run \in [Runners -> {Idle} \cup Runs] /\ report \in Reports
      BY DEF Reports
    <2> QED
      BY <1>3, <2>1 DEF ProcessInv
  <1>8. CycleInv
    BY <1>4 DEF CycleInv
  <1>9. ReportIsBacked
    BY <1>5 DEF ReportIsBacked
  <1>10. BuildInv
    BY <1>5 DEF BuildInv
  <1> QED
    BY <1>6, <1>7, <1>8, <1>9, <1>10 DEF WorkflowInv

\* The fields of a report in progress.
LEMMA ReportFields ==
    ASSUME ProcessInv
    PROVE  /\ report.pc = "snapped" => report \in Snapped
           /\ report.pc = "scoped" => report \in Scoped
           /\ report.pc = "loaded" => report \in Loaded
  BY DEF ProcessInv, Reports, Snapped, Scoped, Loaded, Idle

\* The first three steps of a report.
LEMMA ReadInv ==
    ASSUME WorkflowInv, ReportSnap \/ ReportScope \/ ReportCommands
    PROVE  WorkflowInv'
  <1> USE DEF repository, evidence
  <1>0. UNCHANGED <<contract, tree, base, commands, torn, journal, run, acts, budget>>
    BY DEF ReportSnap, ReportScope, ReportCommands
  <1>1. commands \in Seq(RecordType) /\ Len(commands) \in Nat
    BY DEF WorkflowInv, WorkflowTypeOK
  <1>2. /\ report' \in {[pc |-> "failed"]} \cup Snapped \cup Scoped \cup Loaded
        /\ BuildInv'
    <2>1. CASE ReportSnap
      <3>1. contract \in Contracts /\ CurrentSnapshot(contract, tree, base) \in Snapshots
            /\ CurrentSnapshot(contract, tree, base).digest[1] = tree
        BY DEF WorkflowInv, WorkflowTypeOK, Snapshots, CurrentSnapshot
      <3>2. /\ report' \in Snapped /\ report'.pc = "snapped" /\ report'.since = Len(commands)
            /\ report'.snap = CurrentSnapshot(contract, tree, base)
        BY <1>1, <2>1, <3>1 DEF ReportSnap, Snapped
      <3> QED
        BY <1>0, <1>1, <3>1, <3>2 DEF BuildInv
    <2>2. CASE ReportScope
      <3>1. report \in Snapped /\ report.pc = "snapped"
        BY <2>2, ReportFields DEF ReportScope, WorkflowInv
      <3> DEFINE in == CheckScope(report.task, tree, report.snap.base) = {}
      <3>2. report' = [pc |-> "scoped", task |-> report.task, snap |-> report.snap,
                       since |-> report.since, steady |-> report.steady, inScope |-> in]
        BY <2>2 DEF ReportScope
      <3>3. in \in BOOLEAN
        OBVIOUS
      <3>4. report.steady /\ in => CheckScope(report.task, report.snap.digest[1], report.snap.base) = {}
        BY <3>1 DEF WorkflowInv, BuildInv
      <3>5. report.since <= Len(commands)
        BY <3>1 DEF WorkflowInv, BuildInv
      <3> HIDE DEF in
      <3>6. /\ report' \in Scoped /\ report'.pc = "scoped" /\ report'.since = report.since
            /\ report'.task = report.task /\ report'.snap = report.snap
            /\ report'.steady = report.steady /\ report'.inScope = in
        BY <3>1, <3>2, <3>3 DEF Snapped, Scoped
      <3>7. CheckScope(report'.task, report'.snap.digest[1], report'.snap.base)
              = CheckScope(report.task, report.snap.digest[1], report.snap.base)
        BY <3>6
      <3> QED
        BY <1>0, <3>4, <3>5, <3>6, <3>7 DEF BuildInv
    <2>3. CASE ReportCommands
      <3>1. report \in Scoped /\ report.pc = "scoped"
        BY <2>3, ReportFields DEF ReportCommands, WorkflowInv
      <3>2. CASE torn
        <4>1. report' = [pc |-> "failed"]
          BY <2>3, <3>2 DEF ReportCommands
        <4>2. report'.pc = "failed"
          BY <4>1
        <4> QED
          BY <4>1, <4>2 DEF BuildInv
      <3>3. CASE ~torn
        <4>1. report' = [pc |-> "loaded", task |-> report.task, snap |-> report.snap,
                         since |-> report.since, steady |-> report.steady,
                         inScope |-> report.inScope, cmds |-> commands]
          BY <2>3, <3>3 DEF ReportCommands
        <4>2. /\ report' \in Loaded /\ report'.pc = "loaded" /\ report'.since = report.since
              /\ report'.task = report.task /\ report'.snap = report.snap /\ report'.cmds = commands
              /\ report'.steady = report.steady /\ report'.inScope = report.inScope
          BY <1>1, <3>1, <4>1 DEF Scoped, Loaded
        <4>3. report.steady /\ report.inScope =>
                 CheckScope(report.task, report.snap.digest[1], report.snap.base) = {}
          BY <3>1 DEF WorkflowInv, BuildInv
        <4>4. report.since \in Nat /\ report.since <= Len(commands)
          BY <3>1 DEF WorkflowInv, BuildInv, Scoped
        <4>5. CheckScope(report'.task, report'.snap.digest[1], report'.snap.base)
                = CheckScope(report.task, report.snap.digest[1], report.snap.base)
          BY <4>2
        <4>6. Len(commands) \in report.since .. Len(commands)
          BY <1>1, <4>4
        <4> QED
          BY <1>0, <4>2, <4>3, <4>5, <4>6 DEF BuildInv
      <3> QED
        BY <3>2, <3>3
    <2> QED
      BY <2>1, <2>2, <2>3
  <1>3. report' \in Reports /\ report'.pc \in {"snapped", "scoped", "loaded", "failed"}
    BY <1>2 DEF Reports, Snapped, Scoped, Loaded
  <1>4. WorkflowTypeOK'
    BY <1>0, <1>3 DEF WorkflowInv, WorkflowTypeOK
  <1>5. ProcessInv'
    BY <1>0, <1>3 DEF WorkflowInv, ProcessInv
  <1>6. CycleInv'
    BY <1>0 DEF WorkflowInv, CycleInv
  <1>7. ReportIsBacked'
    BY <1>3 DEF ReportIsBacked
  <1> QED
    BY <1>2, <1>4, <1>5, <1>6, <1>7 DEF WorkflowInv

\* The last step: what the status of the report rests on.
LEMMA DoneInv ==
    ASSUME WorkflowInv, ReportDone
    PROVE  WorkflowInv'
  <1> USE DEF repository, evidence
  <1>0. UNCHANGED <<contract, tree, base, commands, torn, journal, run, acts, budget>>
    BY DEF ReportDone
  <1>1. report \in Loaded /\ report.pc = "loaded"
    BY ReportFields DEF ReportDone, WorkflowInv
  <1> DEFINE c == report.task
             cmds == report.cmds
             derived == DeriveStatus(report.task, report.cmds, report.inScope, journal, report.snap)
             st == IF JournalLoads(report.task) THEN derived ELSE "BLOCKED"
  <1>2. st \in Statuses
    BY StatusIsOne DEF Statuses
  <1>3. report' = [pc |-> "done", task |-> report.task, snap |-> report.snap,
                   since |-> report.since, steady |-> report.steady, cmds |-> report.cmds, status |-> st]
    BY DEF ReportDone
  <1>4. StatusRank(st) >= 4 => StatusRank(derived) >= 4
    <2>1. StatusRank("BLOCKED") = 0
      BY DEF StatusRank
    <2> HIDE DEF derived
    <2> QED
      BY <2>1
  <1> HIDE DEF st
  <1>5. /\ report' \in Reports /\ report'.pc = "done" /\ report'.task = report.task /\ report'.snap = report.snap
        /\ report'.since = report.since /\ report'.steady = report.steady
        /\ report'.cmds = report.cmds /\ report'.status = st
    <2>1. report' \in [pc : {"done"}, task : Contracts, snap : Snapshots, since : Nat, steady : BOOLEAN,
                       cmds : Seq(RecordType), status : Statuses]
      BY <1>1, <1>2, <1>3 DEF Loaded
    <2>2. /\ report'.pc = "done" /\ report'.task = report.task /\ report'.snap = report.snap
          /\ report'.since = report.since /\ report'.steady = report.steady
          /\ report'.cmds = report.cmds /\ report'.status = st
      BY <1>3
    <2> QED
      BY <2>1, <2>2 DEF Reports
  <1>6. WorkflowTypeOK'
    BY <1>0, <1>2, <1>5 DEF WorkflowInv, WorkflowTypeOK
  <1>7. ProcessInv'
    BY <1>0, <1>5 DEF WorkflowInv, ProcessInv
  <1>8. CycleInv' /\ BuildInv'
    BY <1>0, <1>5 DEF WorkflowInv, CycleInv, BuildInv
  <1>9. ReportIsBacked'
    <2> SUFFICES ASSUME StatusRank(derived) >= 4
                 PROVE  /\ Len(cmds) \in report.since .. Len(commands)
                        /\ \A i \in DOMAIN cmds : cmds[i] = commands[i]
                        /\ report.steady => CheckScope(c, report.snap.digest[1], report.snap.base) = {}
                        /\ \A n \in Targets(c) :
                              LET i == LastRun(cmds, n)
                              IN  /\ i > 0 /\ cmds[i].exit = 0 /\ cmds[i].snap = report.snap
                                  /\ Task[c].sensitive => \E k \in 1 .. i - 1 : FailsAsReviewed(cmds[k], c)
      BY <1>0, <1>4, <1>5 DEF ReportIsBacked, FailsAsReviewed
    <2>1. /\ Len(cmds) \in report.since .. Len(commands)
          /\ \A i \in DOMAIN cmds : cmds[i] = commands[i]
      BY <1>1 DEF WorkflowInv, BuildInv
    <2>2. report.steady => CheckScope(c, report.snap.digest[1], report.snap.base) = {}
      <3>1. report.inScope
        BY HighStatus DEF TargetsVerified
      <3> QED
        BY <1>1, <3>1 DEF WorkflowInv, BuildInv
    <2>3. ASSUME NEW n \in Targets(c)
          PROVE  LET i == LastRun(cmds, n)
                 IN  /\ i > 0 /\ cmds[i].exit = 0 /\ cmds[i].snap = report.snap
                     /\ Task[c].sensitive => \E k \in 1 .. i - 1 : FailsAsReviewed(cmds[k], c)
      <3> DEFINE i == LastRun(cmds, n)
                 pass == PassOf(c, journal)
      <3>1. cmds \in Seq(RecordType)
        BY <1>1 DEF Loaded
      <3>2. i = Max({0} \cup Positions(cmds, n))
        BY DEF LastRun, Positions
      <3>3. /\ i > 0 /\ cmds[i].exit = 0 /\ cmds[i].snap = report.snap
            /\ Task[c].sensitive => \E k \in 1 .. i - 1 : FreshRed(cmds[k], c, pass)
        <4>1. LET x == Max({0} \cup Positions(cmds, n))
              IN  /\ x > 0 /\ cmds[x].exit = 0 /\ cmds[x].snap = report.snap
                  /\ Task[c].sensitive => \E k \in 1 .. x - 1 : FreshRed(cmds[k], c, PassOf(c, journal))
          BY <3>1, HighIsTested
        <4> HIDE DEF i, cmds, c
        <4> QED
          BY <3>2, <4>1
      <3>4. specRegime(c) => pass = LatestSpecReview(journal, c) /\ pass \in Nat /\ pass > 0
        <4>1. DOMAIN journal \subseteq 1 .. MaxReviews /\ MaxReviews \in Nat
          BY WorkflowConstants DEF WorkflowInv, WorkflowTypeOK
        <4>2. specRegime(c) => currentSpecPass(journal, c) # 0
          BY HighStatus
        <4>3. /\ currentSpecPass(journal, c) \in 0 .. MaxReviews
              /\ currentSpecPass(journal, c) # 0 => currentSpecPass(journal, c) = LatestSpecReview(journal, c)
          BY <4>1, PassIsLatest
        <4> DEFINE p == currentSpecPass(journal, c)
        <4>4. specRegime(c) => pass = p
          BY DEF PassOf
        <4> HIDE DEF p, pass
        <4>5. p \in 0 .. MaxReviews /\ (p # 0 => p = LatestSpecReview(journal, c)) /\ (specRegime(c) => p # 0)
          BY <4>2, <4>3 DEF p
        <4> QED
          BY <4>1, <4>4, <4>5
      <3>5. ASSUME NEW k, FreshRed(cmds[k], c, pass)
            PROVE  FailsAsReviewed(cmds[k], c)
        <4> HIDE DEF pass
        <4> QED
          BY <3>4, <3>5 DEF FreshRed, FailsAsReviewed
      <3> HIDE DEF i, pass
      <3>6. /\ i > 0 /\ cmds[i].exit = 0 /\ cmds[i].snap = report.snap
            /\ Task[c].sensitive => \E k \in 1 .. i - 1 : FailsAsReviewed(cmds[k], c)
        BY <3>3, <3>5
      <3> QED
        BY <3>6 DEF i
    <2> QED
      BY <2>1, <2>2, <2>3
  <1> QED
    BY <1>6, <1>7, <1>8, <1>9 DEF WorkflowInv

\* Until a report is made, nothing is reported, and what it has read stays true.
LEMMA NotReported ==
    ASSUME WorkflowInv, report.pc \notin {"done", "failed"}, UNCHANGED <<tree, report>>,
           commands' \in Seq(RecordType), Len(commands) <= Len(commands'),
           \A i \in DOMAIN commands : commands'[i] = commands[i]
    PROVE  BuildInv' /\ ReportIsBacked'
  <1>1. ReportIsBacked'
    BY DEF ReportIsBacked
  <1>2. /\ commands \in Seq(RecordType) /\ Len(commands) \in Nat /\ Len(commands') \in Nat
        /\ DOMAIN commands = 1 .. Len(commands)
    BY DEF WorkflowInv, WorkflowTypeOK
  <1>3. report.pc \in {"snapped", "scoped"} => report.since <= Len(commands')
    <2>1. report.pc \in {"snapped", "scoped"} => report.since \in Nat
      BY ReportFields DEF WorkflowInv, Snapped, Scoped
    <2> QED
      BY <1>2, <2>1 DEF WorkflowInv, BuildInv
  <1>4. report.pc = "loaded" => /\ Len(report.cmds) \in report.since .. Len(commands')
                                /\ \A i \in DOMAIN report.cmds : report.cmds[i] = commands'[i]
    <2> SUFFICES ASSUME report.pc = "loaded"
                 PROVE  /\ Len(report.cmds) \in report.since .. Len(commands')
                        /\ \A i \in DOMAIN report.cmds : report.cmds[i] = commands'[i]
      OBVIOUS
    <2>1. report.since \in Nat /\ report.cmds \in Seq(RecordType)
      BY ReportFields DEF WorkflowInv, Loaded
    <2>2. Len(report.cmds) \in report.since .. Len(commands) /\ \A i \in DOMAIN report.cmds : report.cmds[i] = commands[i]
      BY DEF WorkflowInv, BuildInv
    <2>3. DOMAIN report.cmds \subseteq DOMAIN commands
      BY <1>2, <2>1, <2>2
    <2> QED
      BY <1>2, <2>1, <2>2, <2>3
  <1>5. BuildInv'
    BY <1>3, <1>4 DEF WorkflowInv, BuildInv
  <1> QED
    BY <1>1, <1>5

LEMMA BeginInv ==
    ASSUME WorkflowInv, NEW r \in Runners, Begin(r), report.pc \notin {"done", "failed"}
    PROVE  WorkflowInv'
  <1> USE DEF repository, evidence
  <1>0. UNCHANGED <<contract, tree, base, commands, torn, journal, report, acts, budget>>
    BY DEF Begin
  <1> DEFINE pass == currentSpecPass(journal, contract)
             seq == SpecSequence(contract)
  <1>1. seq \in 0 .. MaxReviews /\ 1 .. seq \subseteq DOMAIN journal
    <2>1. DOMAIN journal \subseteq 1 .. MaxReviews
      BY DEF WorkflowInv, WorkflowTypeOK
    <2>2. pass \in {0} \cup SpecReviews(journal, contract) /\ pass \in 0 .. MaxReviews
      BY <2>1, PassIsLatest
    <2>3. SpecReviews(journal, contract) \subseteq DOMAIN journal
      BY DEF SpecReviews
    <2>4. CASE specRegime(contract)
      <3> DEFINE N == Cardinality(DOMAIN journal)
      <3>1. DOMAIN journal = 1 .. N /\ seq = pass /\ pass # 0
        <4>1. pass > 0
          BY <2>4 DEF Begin, GateOpen
        <4>2. pass # 0
          BY <2>2, <4>1
        <4> QED
          BY <2>4, <4>2 DEF Begin, GateOpen, JournalLoads, SpecSequence
      <3>2. pass \in DOMAIN journal
        BY <2>2, <2>3, <3>1
      <3>3. IsFiniteSet(DOMAIN journal)
        <4>1. IsFiniteSet(1 .. MaxReviews)
          BY FS_Interval, WorkflowConstants
        <4> QED
          BY <2>1, <4>1, FS_Subset
      <3>4. N \in Nat
        BY <3>3, FS_CardinalityType
      <3> HIDE DEF N, pass, seq
      <3> QED
        BY <3>1, <3>2, <3>4, <2>2
    <2>5. CASE ~specRegime(contract)
      <3>1. seq = 0
        BY <2>5 DEF SpecSequence
      <3> QED
        BY <3>1, WorkflowConstants
    <2> QED
      BY <2>4, <2>5
  <1>2. PICK n \in DOMAIN Task[contract].cmds :
          run' = [run EXCEPT ![r] =
             [pc |-> "running", name |-> n, argv |-> Task[contract].cmds[n].argv,
              snap |-> CurrentSnapshot(contract, tree, base),
              specSeq |-> seq, steady |-> TRUE]]
    BY DEF Begin
  <1> HIDE DEF seq
  <1> DEFINE new == [pc |-> "running", name |-> n, argv |-> Task[contract].cmds[n].argv,
                     snap |-> CurrentSnapshot(contract, tree, base),
                     specSeq |-> seq, steady |-> TRUE]
  <1>3. contract \in Contracts /\ CurrentSnapshot(contract, tree, base) \in Snapshots
    BY DEF WorkflowInv, WorkflowTypeOK, Snapshots, CurrentSnapshot
  <1>4. n \in Names /\ Task[contract].cmds[n].argv \in Nat
    BY <1>3, WorkflowConstants DEF Names
  <1>5. new \in Runs
    BY <1>1, <1>3, <1>4 DEF Runs
  <1>6. new.pc = "running" /\ new.specSeq = seq
    OBVIOUS
  <1>7. run' = [run EXCEPT ![r] = new] /\ run \in [Runners -> {Idle} \cup Runs]
    BY <1>2 DEF WorkflowInv, ProcessInv
  <1> HIDE DEF new
  <1>8. \A q \in Runners : run'[q] = IF q = r THEN new ELSE run[q]
    BY <1>7
  <1>9. WorkflowTypeOK'
    BY <1>0, <1>6, <1>8 DEF WorkflowInv, WorkflowTypeOK
  <1>10. ProcessInv'
    <2>1. run' \in [Runners -> {Idle} \cup Runs]
      BY <1>5, <1>7
    <2> QED
      BY <1>0, <2>1 DEF WorkflowInv, ProcessInv
  <1>11. CycleInv'
    BY <1>0, <1>1, <1>6, <1>8 DEF WorkflowInv, CycleInv
  <1>12. BuildInv' /\ ReportIsBacked'
    <2>1. commands \in Seq(RecordType) /\ Len(commands) \in Nat
      BY DEF WorkflowInv, WorkflowTypeOK
    <2> QED
      BY <1>0, <2>1, NotReported
  <1> QED
    BY <1>9, <1>10, <1>11, <1>12 DEF WorkflowInv

\* The record of a run keeps what the run knew.
LEMMA RecordInv ==
    ASSUME WorkflowInv, NEW r \in Runners, Record(r), report.pc \notin {"done", "failed"}
    PROVE  WorkflowInv'
  <1> USE DEF repository, evidence
  <1>0. UNCHANGED <<contract, tree, base, torn, journal, report, acts, budget>>
    BY DEF Record
  <1>1. PICK x \in {0, 1} :
          commands' = Append(commands, [name |-> run[r].name, argv |-> run[r].argv, snap |-> run[r].snap,
                                        specSeq |-> run[r].specSeq, steady |-> run[r].steady, exit |-> x])
    BY DEF Record
  <1> DEFINE new == [name |-> run[r].name, argv |-> run[r].argv, snap |-> run[r].snap,
                     specSeq |-> run[r].specSeq, steady |-> run[r].steady, exit |-> x]
  <1>2. run[r] \in Runs /\ 1 .. run[r].specSeq \subseteq DOMAIN journal
    BY DEF WorkflowInv, ProcessInv, CycleInv, Record
  <1>3. new \in RecordType /\ new.specSeq = run[r].specSeq
    BY <1>2 DEF Runs, RecordType
  <1>4. commands' = Append(commands, new) /\ commands \in Seq(RecordType)
    BY <1>1 DEF WorkflowInv, WorkflowTypeOK
  <1> HIDE DEF new
  <1>5. commands' \in Seq(RecordType) /\ DOMAIN commands' = 1 .. Len(commands) + 1
    BY <1>3, <1>4
  <1>6. \A i \in DOMAIN commands' : IF i \in DOMAIN commands THEN commands'[i] = commands[i] ELSE commands'[i] = new
    BY <1>3, <1>4
  <1>7. run' = [run EXCEPT ![r] = Idle] /\ run \in [Runners -> {Idle} \cup Runs]
    BY DEF Record, WorkflowInv, ProcessInv
  <1>8. \A q \in Runners : run'[q] = IF q = r THEN Idle ELSE run[q]
    BY <1>7
  <1>9. WorkflowTypeOK'
    <2>1. Idle.pc = "idle"
      BY DEF Idle
    <2> QED
      BY <1>0, <1>5, <1>8, <2>1 DEF WorkflowInv, WorkflowTypeOK
  <1>10. ProcessInv'
    <2>1. run' \in [Runners -> {Idle} \cup Runs]
      BY <1>7
    <2> QED
      BY <1>0, <2>1 DEF WorkflowInv, ProcessInv
  <1>11. CycleInv'
    BY <1>0, <1>2, <1>3, <1>6, <1>8 DEF WorkflowInv, CycleInv
  <1>12. BuildInv' /\ ReportIsBacked'
    <2>1. Len(commands) \in Nat /\ Len(commands) <= Len(commands') /\ DOMAIN commands \subseteq DOMAIN commands'
      BY <1>3, <1>4
    <2> QED
      BY <1>0, <1>5, <1>6, <2>1, NotReported
  <1> QED
    BY <1>9, <1>10, <1>11, <1>12 DEF WorkflowInv

LEMMA AbortInv ==
    ASSUME WorkflowInv, NEW r \in Runners, Abort(r), report.pc \notin {"done", "failed"}
    PROVE  WorkflowInv'
  <1> USE DEF repository, evidence
  <1>0. UNCHANGED <<contract, tree, base, commands, journal, report, acts, budget>> /\ torn' \in BOOLEAN
    BY DEF Abort, WorkflowInv, WorkflowTypeOK
  <1>7. run' = [run EXCEPT ![r] = Idle] /\ run \in [Runners -> {Idle} \cup Runs]
    BY DEF Abort, WorkflowInv, ProcessInv
  <1>8. \A q \in Runners : run'[q] = IF q = r THEN Idle ELSE run[q]
    BY <1>7
  <1>9. WorkflowTypeOK'
    <2>1. Idle.pc = "idle"
      BY DEF Idle
    <2> QED
      BY <1>0, <1>8, <2>1 DEF WorkflowInv, WorkflowTypeOK
  <1>10. ProcessInv'
    <2>1. run' \in [Runners -> {Idle} \cup Runs]
      BY <1>7
    <2> QED
      BY <1>0, <2>1 DEF WorkflowInv, ProcessInv
  <1>11. CycleInv'
    BY <1>0, <1>8 DEF WorkflowInv, CycleInv
  <1>12. BuildInv' /\ ReportIsBacked'
    <2>1. commands \in Seq(RecordType) /\ Len(commands) \in Nat
      BY DEF WorkflowInv, WorkflowTypeOK
    <2> QED
      BY <1>0, <2>1, NotReported
  <1> QED
    BY <1>9, <1>10, <1>11, <1>12 DEF WorkflowInv

\* An edit of the tree marks the runs it disturbs, and changes nothing else of them.
LEMMA EditInv ==
    ASSUME WorkflowInv, NEW v \in budget.trees, Edit(v), report.pc \notin {"done", "failed"}
    PROVE  WorkflowInv'
  <1> USE DEF repository, evidence
  <1>0. UNCHANGED <<contract, base, commands, torn, journal, budget>> /\ acts' \in Nat /\ tree' \in Versions
    BY DEF Edit, Act, WorkflowInv, WorkflowTypeOK, ProcessInv
  <1>13. report' \in Reports /\ report'.pc = report.pc
    <2>1. CASE report.pc = "snapped"
      <3>1. report \in Snapped /\ report' = [report EXCEPT !.steady = FALSE]
        BY <2>1, ReportFields DEF Edit, WorkflowInv
      <3>2. report' \in Snapped /\ report'.pc = "snapped"
        BY <3>1, <2>1 DEF Snapped
      <3> QED
        BY <2>1, <3>2 DEF Reports
    <2>2. CASE report.pc # "snapped"
      BY <2>2 DEF Edit, WorkflowInv, ProcessInv
    <2> QED
      BY <2>1, <2>2
  <1>1. run' = [r \in Runners |-> IF run[r] # Idle THEN [run[r] EXCEPT !.steady = FALSE] ELSE run[r]]
    BY DEF Edit
  <1>2. \A q \in Runners : run[q] \in {Idle} \cup Runs
    BY DEF WorkflowInv, ProcessInv
  <1>3. \A x \in Runs : [x EXCEPT !.steady = FALSE] \in Runs /\ [x EXCEPT !.steady = FALSE].specSeq = x.specSeq
    BY DEF Runs
  <1>4. \A x \in Runs : x.pc = "running"
    BY DEF Runs
  <1>5. Idle.pc = "idle"
    BY DEF Idle
  <1>6. \A q \in Runners : /\ run'[q] \in {Idle} \cup Runs
                           /\ run'[q] # Idle => run[q] # Idle /\ run'[q].specSeq = run[q].specSeq
    BY <1>1, <1>2, <1>3
  <1>9. WorkflowTypeOK'
    BY <1>0, <1>4, <1>5, <1>6, <1>13 DEF WorkflowInv, WorkflowTypeOK
  <1>10. ProcessInv'
    <2>1. run' \in [Runners -> {Idle} \cup Runs]
      BY <1>1, <1>6
    <2> QED
      BY <1>0, <1>13, <2>1 DEF WorkflowInv, ProcessInv
  <1>11. CycleInv'
    BY <1>0, <1>6 DEF WorkflowInv, CycleInv
  <1>12. BuildInv' /\ ReportIsBacked'
    <2>1. CASE report.pc = "snapped"
      <3>1. report \in Snapped /\ report' = [report EXCEPT !.steady = FALSE]
        BY <2>1, ReportFields DEF Edit, WorkflowInv
      <3>2. report'.pc = "snapped" /\ ~report'.steady /\ report'.since = report.since
        BY <3>1, <2>1 DEF Snapped
      <3>3. report.since <= Len(commands)
        BY <2>1 DEF WorkflowInv, BuildInv
      <3> QED
        BY <1>0, <3>2, <3>3 DEF BuildInv, ReportIsBacked
    <2>2. CASE report.pc # "snapped"
      <3>1. report' = report
        BY <2>2 DEF Edit
      <3> QED
        BY <1>0, <2>2, <3>1 DEF WorkflowInv, BuildInv, ReportIsBacked
    <2> QED
      BY <2>1, <2>2
  <1> QED
    BY <1>9, <1>10, <1>11, <1>12 DEF WorkflowInv

\* Base, contract and journal: the runs go on, and the journal only grows.
LEMMA PeopleInv ==
    ASSUME WorkflowInv, report.pc \notin {"done", "failed"},
           \/ \E b \in Bases : Rebase(b)
           \/ \E c \in Contracts : EditContract(c)
           \/ \E n \in 1 .. MaxReviews, rev \in ReviewPool : Review(n, rev)
    PROVE  WorkflowInv'
  <1> USE DEF repository, evidence
  <1>0. UNCHANGED <<tree, commands, torn, run, report, budget>> /\ Act
    BY DEF Rebase, EditContract, Review, Act
  <1>1. acts' \in Nat
    BY <1>0 DEF Act, WorkflowInv, WorkflowTypeOK
  <1>2. /\ contract' \in Contracts /\ base' \in Bases
        /\ \/ journal' = journal
           \/ \E n \in 1 .. MaxReviews, rev \in ReviewPool :
                 journal' = [m \in DOMAIN journal \cup {n} |-> IF m = n THEN rev ELSE journal[m]]
    BY DEF Rebase, EditContract, Review, WorkflowInv, WorkflowTypeOK
  <1>3. DOMAIN journal \subseteq 1 .. MaxReviews /\ \A n \in DOMAIN journal : journal[n] \in ReviewPool
    BY DEF WorkflowInv, WorkflowTypeOK
  <1>4. /\ DOMAIN journal \subseteq DOMAIN journal' /\ DOMAIN journal' \subseteq 1 .. MaxReviews
        /\ \A n \in DOMAIN journal' : journal'[n] \in ReviewPool
    BY <1>2, <1>3
  <1>9. WorkflowTypeOK'
    BY <1>0, <1>1, <1>2, <1>4 DEF WorkflowInv, WorkflowTypeOK
  <1>10. ProcessInv'
    BY <1>0 DEF WorkflowInv, ProcessInv
  <1>11. CycleInv'
    BY <1>0, <1>4 DEF WorkflowInv, CycleInv
  <1>12. BuildInv' /\ ReportIsBacked'
    <2>1. commands \in Seq(RecordType) /\ Len(commands) \in Nat
      BY DEF WorkflowInv, WorkflowTypeOK
    <2> QED
      BY <1>0, <2>1, NotReported
  <1> QED
    BY <1>9, <1>10, <1>11, <1>12 DEF WorkflowInv

LEMMA WorkflowStepInv == WorkflowInv /\ [WorkflowNext]_workflowVars => WorkflowInv'
  <1> SUFFICES ASSUME WorkflowInv, [WorkflowNext]_workflowVars PROVE WorkflowInv'
    OBVIOUS
  <1>1. CASE ReportSnap \/ ReportScope \/ ReportCommands \/ ReportDone
    BY <1>1, ReadInv, DoneInv
  <1>2. CASE /\ report.pc \notin {"done", "failed"}
             /\ \E r \in Runners : Begin(r) \/ Record(r) \/ Abort(r)
    BY <1>2, BeginInv, RecordInv, AbortInv
  <1>3. CASE report.pc \notin {"done", "failed"} /\ \E v \in budget.trees : Edit(v)
    BY <1>3, EditInv
  <1>4. CASE /\ report.pc \notin {"done", "failed"}
             /\ \/ \E b \in Bases : Rebase(b)
                \/ \E c \in Contracts : EditContract(c)
                \/ \E n \in 1 .. MaxReviews, rev \in ReviewPool : Review(n, rev)
    BY <1>4, PeopleInv
  <1>5. CASE UNCHANGED workflowVars
    <2>1. UNCHANGED <<contract, tree, base, commands, torn, journal, run, report, acts, budget>>
      BY <1>5 DEF workflowVars
    <2>2. WorkflowTypeOK' /\ ProcessInv'
      BY <2>1 DEF WorkflowInv, WorkflowTypeOK, ProcessInv
    <2>3. CycleInv'
      BY <2>1 DEF WorkflowInv, CycleInv
    <2>4. BuildInv' /\ ReportIsBacked'
      BY <2>1 DEF WorkflowInv, BuildInv, ReportIsBacked, FailsAsReviewed
    <2> QED
      BY <2>2, <2>3, <2>4 DEF WorkflowInv
  <1> QED
    BY <1>1, <1>2, <1>3, <1>4, <1>5 DEF WorkflowNext

LEMMA WorkflowInvariance == WorkflowSpec => []WorkflowInv
  BY WorkflowInitInv, WorkflowStepInv, PTL DEF WorkflowSpec

-----------------------------------------------------------------------------
(***************************************************************************)
(* What the invariant says about a status.                                 *)
(***************************************************************************)
LEMMA SecurityStatus ==
    ASSUME NEW c, NEW cmds, NEW inScope, NEW j, NEW snap,
           DeriveStatus(c, cmds, inScope, j, snap) = "SECURITY_REVIEWED"
    PROVE  LET rev == latestJournalReview(j, c)
           IN  rev > 0 /\ Promotes(j[rev], snap) /\ (specRegime(c) => currentSpecPass(j, c) # 0)
  <1> DEFINE blocked == \/ \E i \in DOMAIN cmds : cmds[i].name \in DOMAIN Task[c].cmds /\ ~ArgvMatches(cmds[i], c)
                        \/ countTargetAttempts(cmds, c) > Task[c].max
  <1>1. ValidateTask(c) /\ ~blocked
    BY DEF DeriveStatus
  <1>2. specRegime(c) => currentSpecPass(j, c) # 0
    BY <1>1 DEF DeriveStatus
  <1>3. latestJournalReview(j, c) > 0 /\ Promotes(j[latestJournalReview(j, c)], snap)
    BY <1>1, <1>2 DEF DeriveStatus
  <1> QED
    BY <1>2, <1>3

\* Under spec cycles a status above SPEC_REVIEWED needs a failure reproduced in
\* the current one.
LEMMA AboveSpecReviewed ==
    ASSUME NEW c, NEW cmds, NEW inScope, NEW j, NEW snap, specRegime(c),
           ~(StatusRank(DeriveStatus(c, cmds, inScope, j, snap)) <= 2)
    PROVE  currentSpecPass(j, c) # 0 /\ RedIndex(cmds, c, currentSpecPass(j, c)) > 0
  <1> DEFINE status == DeriveStatus(c, cmds, inScope, j, snap)
             blocked == \/ \E i \in DOMAIN cmds : cmds[i].name \in DOMAIN Task[c].cmds /\ ~ArgvMatches(cmds[i], c)
                        \/ countTargetAttempts(cmds, c) > Task[c].max
             pass == currentSpecPass(j, c)
             red == RedIndex(cmds, c, pass)
             verified == TargetsVerified(cmds, c, inScope, red, snap)
  <1>1. status \notin {"UNSPECIFIED", "BLOCKED", "SPECIFIED", "SPEC_REVIEWED"}
    <2> HIDE DEF status
    <2> QED
      BY DEF StatusRank, status
  <1>2. ValidateTask(c) /\ ~blocked
    <2>1. ~ValidateTask(c) => status = "UNSPECIFIED"
      BY DEF DeriveStatus
    <2>2. ValidateTask(c) /\ blocked => status = "BLOCKED"
      BY DEF DeriveStatus
    <2> HIDE DEF status
    <2> QED
      BY <1>1, <2>1, <2>2
  <1>3. pass = 0 => status = "SPECIFIED"
    BY <1>2 DEF DeriveStatus
  <1>4. pass # 0 /\ ~verified /\ ~(red > 0) => status \in {"SPECIFIED", "SPEC_REVIEWED"}
    BY <1>2 DEF DeriveStatus
  <1>5. verified => red > 0
    BY DEF TargetsVerified, specRegime
  <1> HIDE DEF status, verified, red
  <1> QED
    BY <1>1, <1>3, <1>4, <1>5 DEF red

LEMMA EvidenceFromInv == WorkflowInv => EvidenceHolds
  <1> SUFFICES ASSUME WorkflowInv PROVE VerifiedTreeWasTested
    BY DEF WorkflowInv, EvidenceHolds
  <1> SUFFICES ASSUME Rank >= 4
               PROVE  /\ CheckScope(contract, tree, base) = {}
                      /\ \A n \in Targets(contract) :
                            /\ LastRun(commands, n) > 0 /\ commands[LastRun(commands, n)].exit = 0
                            /\ commands[LastRun(commands, n)].snap.digest = <<tree, contract>>
    BY DEF VerifiedTreeWasTested
  <1> DEFINE inScope == CheckScope(contract, tree, base) = {}
             snap == CurrentSnapshot(contract, tree, base)
  <1>1. StatusRank("BLOCKED") = 0
    BY DEF StatusRank
  <1>2. StatusRank(DeriveStatus(contract, commands, inScope, journal, snap)) >= 4
    BY <1>1 DEF Rank, Status
  <1>3. commands \in Seq(RecordType)
    BY DEF WorkflowInv, WorkflowTypeOK
  <1>4. inScope
    <2>1. TargetsVerified(commands, contract, inScope, RedIndex(commands, contract, PassOf(contract, journal)), snap)
      <3> HIDE DEF inScope, snap
      <3> QED
        BY <1>2, HighStatus
    <2> QED
      BY <2>1 DEF TargetsVerified
  <1>5. ASSUME NEW n \in Targets(contract)
        PROVE  LastRun(commands, n) > 0 /\ commands[LastRun(commands, n)].exit = 0 /\ commands[LastRun(commands, n)].snap = snap
    <2>1. LET i == Max({0} \cup Positions(commands, n))
          IN  i > 0 /\ commands[i].exit = 0 /\ commands[i].snap = snap
      <3> HIDE DEF inScope, snap
      <3> QED
        BY <1>2, <1>3, HighIsTested
    <2> QED
      BY <2>1 DEF LastRun, Positions
  <1>6. snap.digest = <<tree, contract>>
    BY DEF CurrentSnapshot
  <1> QED
    BY <1>4, <1>5, <1>6

LEMMA ReviewsFromInv == WorkflowInv => ReviewsHold
  <1> SUFFICES ASSUME WorkflowInv PROVE ReviewedIsCurrent /\ AttemptsNeverForgotten
    BY DEF ReviewsHold
  <1> DEFINE inScope == CheckScope(contract, tree, base) = {}
             snap == CurrentSnapshot(contract, tree, base)
  <1>0. /\ commands \in Seq(RecordType) /\ contract \in Contracts
        /\ DOMAIN journal \subseteq 1 .. MaxReviews /\ \A n \in DOMAIN journal : journal[n] \in ReviewPool
    BY DEF WorkflowInv, WorkflowTypeOK
  <1>1. ReviewedIsCurrent
    <2> SUFFICES ASSUME Status = "SECURITY_REVIEWED"
                 PROVE  \E n \in DOMAIN journal :
                           /\ journal[n].phase = "implementation" /\ journal[n].passed
                           /\ journal[n].snap = snap
                           /\ \A m \in DOMAIN journal :
                                 m > n /\ IsLive(journal[m], contract) =>
                                    IF journal[m].phase = "spec" THEN ~specRegime(contract) ELSE journal[m].passed
      BY DEF ReviewedIsCurrent
    <2> DEFINE rev == latestJournalReview(journal, contract)
               pass == currentSpecPass(journal, contract)
               floor == IF specRegime(contract) THEN pass ELSE 0
               eligible == {n \in DOMAIN journal :
                              /\ journal[n].phase # "spec"
                              /\ specRegime(contract) => journal[n].digest = contract
                                                         /\ journal[n].revision = Task[contract].revision
                              /\ n > floor}
    <2>1. DeriveStatus(contract, commands, inScope, journal, snap) = "SECURITY_REVIEWED"
      BY DEF Status
    <2>2. rev > 0 /\ Promotes(journal[rev], snap) /\ (specRegime(contract) => pass # 0)
      <3> HIDE DEF inScope, snap
      <3> QED
        BY <2>1, SecurityStatus
    <2>3. rev = IF eligible = {} THEN 0 ELSE Max(eligible)
      BY DEF latestJournalReview
    <2>4. eligible \in SUBSET (0 .. MaxReviews) /\ MaxReviews \in Nat
      BY <1>0, WorkflowConstants
    <2>5. /\ pass \in 0 .. MaxReviews
          /\ pass # 0 => \A n \in SpecReviews(journal, contract) : n <= pass
      BY <1>0, PassIsLatest
    <2>6. rev \in eligible /\ \A m \in eligible : m <= rev
      <3> HIDE DEF eligible, rev
      <3>1. eligible # {} /\ rev = Max(eligible)
        BY <2>2, <2>3
      <3> QED
        BY <3>1, <2>4, MaxIs
    <2>7. rev \in DOMAIN journal /\ journal[rev].phase # "spec" /\ rev > floor
      BY <2>6
    <2>8. journal[rev].phase = "implementation"
      BY <1>0, <2>7, WorkflowConstants
    <2>9. journal[rev].passed /\ journal[rev].snap = snap
      BY <2>2 DEF Promotes
    <2>10. ASSUME NEW m \in DOMAIN journal, m > rev, IsLive(journal[m], contract)
           PROVE  IF journal[m].phase = "spec" THEN ~specRegime(contract) ELSE journal[m].passed
      <3>1. m \in 1 .. MaxReviews /\ rev \in 1 .. MaxReviews /\ floor \in 0 .. MaxReviews
        BY <1>0, <2>5, <2>7, WorkflowConstants
      <3>2. CASE journal[m].phase = "spec" /\ specRegime(contract)
        <4>1. m \in SpecReviews(journal, contract)
          BY <2>10, <3>2 DEF SpecReviews, IsLive
        <4>2. m <= pass /\ floor = pass
          BY <2>2, <2>5, <3>2, <4>1
        <4> HIDE DEF rev, pass, floor
        <4> QED
          BY <2>5, <2>7, <2>10, <3>1, <4>2
      <3>3. CASE journal[m].phase # "spec"
        <4>1. m > floor
          <5> HIDE DEF rev, floor
          <5> QED
            BY <2>7, <2>10, <3>1
        <4>2. m \in eligible
          BY <2>10, <3>3, <4>1 DEF IsLive
        <4>3. m <= rev
          BY <2>6, <4>2
        <4> HIDE DEF rev
        <4> QED
          BY <2>10, <3>1, <4>3
      <3> QED
        BY <3>2, <3>3
    <2> HIDE DEF rev, snap
    <2> QED
      BY <2>7, <2>8, <2>9, <2>10
  <1>2. AttemptsNeverForgotten
    <2> SUFFICES ASSUME NEW n \in Targets(contract),
                        Cardinality({i \in DOMAIN commands : commands[i].name = n}) > Task[contract].max
                 PROVE  StatusRank(Status) = 0
      BY DEF AttemptsNeverForgotten
    <2>1. Cardinality(Positions(commands, n)) > Task[contract].max
      BY DEF Positions
    <2>2. DeriveStatus(contract, commands, inScope, journal, snap) \in {"UNSPECIFIED", "BLOCKED"}
      <3> HIDE DEF inScope, snap
      <3> QED
        BY <1>0, <2>1, AttemptsBlock
    <2>3. Status \in {"UNSPECIFIED", "BLOCKED"}
      BY <2>2 DEF Status
    <2> HIDE DEF inScope, snap
    <2> QED
      BY <2>3 DEF StatusRank
  <1> QED
    BY <1>1, <1>2

\* No record of a review that was not there: a red run counts for a review that
\* the journal already had, so a new one leaves nothing red.
LEMMA StartsOverStep ==
    ASSUME WorkflowInv, WorkflowInv', [WorkflowNext]_workflowVars,
           NEW n \in DOMAIN journal' \ DOMAIN journal,
           specRegime(contract), journal'[n].phase = "spec", IsLive(journal'[n], contract)
    PROVE  StatusRank(Status') <= 2
  <1>1. \E k \in 1 .. MaxReviews, rev \in ReviewPool : Review(k, rev)
    BY DEF WorkflowNext, workflowVars, ReportSnap, ReportScope, ReportCommands, ReportDone, Begin, Record, Abort,
           Edit, Rebase, EditContract, evidence
  <1>2. UNCHANGED <<contract, tree, base, commands>>
    BY <1>1 DEF Review, repository
  <1> DEFINE inScope == (CheckScope(contract, tree, base) = {})'
             snap == CurrentSnapshot(contract, tree, base)'
             pass == currentSpecPass(journal', contract)
  <1>3. StatusRank("BLOCKED") = 0
    BY DEF StatusRank
  <1>4. Status' \in {"BLOCKED", DeriveStatus(contract, commands, inScope, journal', snap)}
    BY <1>2 DEF Status
  <1>5. ASSUME ~(StatusRank(DeriveStatus(contract, commands, inScope, journal', snap)) <= 2)
        PROVE  FALSE
    <2> HIDE DEF inScope, snap
    <2>1. pass # 0 /\ RedIndex(commands, contract, pass) > 0
      BY <1>5, AboveSpecReviewed
    <2>2. DOMAIN journal' \subseteq 1 .. MaxReviews
      BY DEF WorkflowInv, WorkflowTypeOK
    <2>3. pass \in 0 .. MaxReviews /\ \A k \in SpecReviews(journal', contract) : k <= pass
      BY <2>1, <2>2, PassIsLatest
    <2>4. n \in SpecReviews(journal', contract)
      BY DEF SpecReviews, IsLive
    <2>5. n \in 1 .. pass
      <3> HIDE DEF pass
      <3> QED
        BY <2>2, <2>3, <2>4
    <2> DEFINE fresh == {i \in DOMAIN commands : FreshRed(commands[i], contract, pass)}
    <2>6. fresh # {}
      <3>1. RedIndex(commands, contract, pass) = IF Task[contract].sensitive /\ fresh # {} THEN Min(fresh) ELSE 0
        BY DEF RedIndex
      <3> HIDE DEF fresh
      <3> QED
        BY <2>1, <3>1
    <2>7. PICK i \in DOMAIN commands : FreshRed(commands[i], contract, pass)
      BY <2>6
    <2>8. commands[i].specSeq = pass
      <3>1. pass > 0
        <4> HIDE DEF pass
        <4> QED
          BY <2>1, <2>3
      <3> QED
        BY <2>7, <3>1 DEF FreshRed
    <2>9. 1 .. pass \subseteq DOMAIN journal
      BY <2>8 DEF WorkflowInv, CycleInv
    <2> QED
      BY <2>5, <2>9
  <1> HIDE DEF inScope, snap
  <1> QED
    BY <1>3, <1>4, <1>5

\* What keeps the evidence of a task: a new record neither unblocks it nor hides the
\* failure that was reproduced.
LEMMA StaysAbove ==
    ASSUME NEW c \in Contracts, NEW old \in Seq(RecordType), NEW new \in Seq(RecordType),
           Len(old) <= Len(new), \A i \in DOMAIN old : new[i] = old[i],
           NEW inScope, NEW j, NEW snap, specRegime(c),
           currentSpecPass(j, c) \in Nat,
           ~(StatusRank(DeriveStatus(c, new, inScope, j, snap)) <= 2),
           NEW k \in DOMAIN old, FreshRed(old[k], c, currentSpecPass(j, c))
    PROVE  ~(StatusRank(DeriveStatus(c, old, inScope, j, snap)) <= 2)
  <1> DEFINE Blocked(cmds) ==
               \/ \E i \in DOMAIN cmds : cmds[i].name \in DOMAIN Task[c].cmds /\ ~ArgvMatches(cmds[i], c)
               \/ countTargetAttempts(cmds, c) > Task[c].max
             pass == currentSpecPass(j, c)
             now == DeriveStatus(c, new, inScope, j, snap)
             was == DeriveStatus(c, old, inScope, j, snap)
             verified == TargetsVerified(old, c, inScope, RedIndex(old, c, pass), snap)
  <1>1. Len(old) \in Nat /\ Len(new) \in Nat /\ DOMAIN old = 1 .. Len(old) /\ DOMAIN new = 1 .. Len(new)
    OBVIOUS
  <1>2. DOMAIN old \subseteq DOMAIN new
    BY <1>1
  <1>3. now \notin {"UNSPECIFIED", "BLOCKED", "SPECIFIED", "SPEC_REVIEWED"}
    <2> HIDE DEF now
    <2> QED
      BY DEF StatusRank, now
  <1>4. ValidateTask(c) /\ ~Blocked(new)
    <2>1. ~ValidateTask(c) => now = "UNSPECIFIED"
      BY DEF DeriveStatus
    <2>2. ValidateTask(c) /\ Blocked(new) => now = "BLOCKED"
      BY DEF DeriveStatus
    <2> HIDE DEF now, Blocked
    <2> QED
      BY <1>3, <2>1, <2>2
  <1>5. pass # 0
    BY AboveSpecReviewed
  <1>6. ~(countTargetAttempts(old, c) > Task[c].max)
    <2> SUFFICES ASSUME countTargetAttempts(old, c) > Task[c].max PROVE FALSE
      OBVIOUS
    <2> DEFINE counts == {Cardinality({i \in DOMAIN old : old[i].name = m}) : m \in Targets(c)}
    <2>1. Task[c].max \in Int /\ Task[c].max >= 1
      BY <1>4, WorkflowConstants DEF ValidateTask
    <2>2. countTargetAttempts(old, c) = Max({0} \cup counts)
      BY DEF countTargetAttempts
    <2>3. \A m \in Targets(c) : Cardinality(Positions(old, m)) \in 0 .. Len(old)
      BY <1>1, SomePositions DEF Positions
    <2>4. {0} \cup counts \in SUBSET (0 .. Len(old)) /\ {0} \cup counts # {}
      <3>1. counts = {Cardinality(Positions(old, m)) : m \in Targets(c)}
        BY DEF Positions
      <3> HIDE DEF counts
      <3>2. \A x \in counts : x \in 0 .. Len(old)
        BY <2>3, <3>1
      <3>3. 0 \in 0 .. Len(old)
        BY <1>1
      <3> QED
        BY <3>2, <3>3
    <2>5. countTargetAttempts(old, c) \in {0} \cup counts
      <3> HIDE DEF counts
      <3> QED
        BY <1>1, <2>2, <2>4, MaxIs
    <2>6. countTargetAttempts(old, c) # 0
      BY <2>1
    <2>7. PICK m \in Targets(c) : countTargetAttempts(old, c) = Cardinality(Positions(old, m))
      BY <2>5, <2>6 DEF Positions
    <2>8. Positions(old, m) \subseteq Positions(new, m) /\ Positions(new, m) \subseteq 1 .. Len(new)
      BY <1>1, <1>2 DEF Positions
    <2>9. /\ Cardinality(Positions(old, m)) <= Cardinality(Positions(new, m))
          /\ Cardinality(Positions(new, m)) \in 0 .. Len(new) /\ Cardinality(Positions(old, m)) \in 0 .. Len(old)
      <3>1. IsFiniteSet(Positions(new, m))
        BY <1>1, <2>8, SomePositions
      <3>2. Cardinality(Positions(old, m)) <= Cardinality(Positions(new, m))
        BY <3>1, <2>8, FS_Subset, Zenon
      <3> QED
        BY <1>1, <2>3, <2>8, <3>2, SomePositions
    <2>10. Cardinality(Positions(new, m)) > Task[c].max
      BY <1>1, <2>1, <2>7, <2>9
    <2>11. now \in {"UNSPECIFIED", "BLOCKED"}
      BY <2>10, AttemptsBlock
    <2> HIDE DEF now
    <2> QED
      BY <1>3, <2>11
  <1>7. ~Blocked(old)
    BY <1>2, <1>4, <1>6
  <1>8. RedIndex(old, c, pass) > 0
    <2> DEFINE fresh == {i \in DOMAIN old : FreshRed(old[i], c, pass)}
    <2>1. fresh \in SUBSET (Nat \ {0}) /\ fresh # {} /\ fresh \in SUBSET Nat
      BY <1>1
    <2>2. Task[c].sensitive
      BY DEF specRegime
    <2>3. RedIndex(old, c, pass) = IF Task[c].sensitive /\ fresh # {} THEN Min(fresh) ELSE 0
      BY DEF RedIndex
    <2> HIDE DEF fresh
    <2>4. Min(fresh) \in fresh
      BY <2>1, MinIs
    <2> QED
      BY <2>1, <2>2, <2>3, <2>4
  <1>9. was \in {"FAILURE_REPRODUCED", "TARGET_VERIFIED", "HARNESS_VERIFIED", "SECURITY_REVIEWED"}
    <2>1. ~verified => was = "FAILURE_REPRODUCED"
      BY <1>4, <1>5, <1>7, <1>8 DEF DeriveStatus
    <2>2. verified => was \in {"TARGET_VERIFIED", "HARNESS_VERIFIED", "SECURITY_REVIEWED"}
      BY <1>4, <1>5, <1>7 DEF DeriveStatus
    <2> HIDE DEF was, verified
    <2> QED
      BY <2>1, <2>2
  <1> HIDE DEF was
  <1>10. StatusRank(was) \in {3, 4, 5, 6}
    BY <1>9 DEF StatusRank
  <1> QED
    BY <1>10 DEF was

\* The record of a run of another cycle is no failure reproduced in this one.
LEMMA OtherCycleStep ==
    ASSUME WorkflowInv, WorkflowInv', [WorkflowNext]_workflowVars,
           NEW k \in DOMAIN commands' \ DOMAIN commands,
           specRegime(contract), commands'[k].specSeq # currentSpecPass(journal, contract), Rank <= 2
    PROVE  StatusRank(Status') <= 2
  <1>1. PICK r \in Runners : Record(r)
    BY DEF WorkflowNext, workflowVars, ReportSnap, ReportScope, ReportCommands, ReportDone, Begin, Abort,
           Edit, Rebase, EditContract, Review, evidence
  <1>2. UNCHANGED <<contract, tree, base, journal>>
    BY <1>1 DEF Record, repository
  <1>3. PICK rec : commands' = Append(commands, rec)
    BY <1>1 DEF Record
  <1>4. commands \in Seq(RecordType) /\ commands' \in Seq(RecordType) /\ contract \in Contracts
    BY DEF WorkflowInv, WorkflowTypeOK
  <1>5. /\ Len(commands) \in Nat /\ Len(commands') = Len(commands) + 1
        /\ DOMAIN commands = 1 .. Len(commands) /\ DOMAIN commands' = 1 .. Len(commands) + 1
        /\ \A i \in DOMAIN commands : commands'[i] = commands[i]
    BY <1>3, <1>4
  <1>6. k = Len(commands) + 1
    BY <1>5
  <1> DEFINE inScope == CheckScope(contract, tree, base) = {}
             snap == CurrentSnapshot(contract, tree, base)
             pass == currentSpecPass(journal, contract)
  <1>7. /\ Status = IF JournalLoads(contract) THEN DeriveStatus(contract, commands, inScope, journal, snap) ELSE "BLOCKED"
        /\ Status' = IF JournalLoads(contract) THEN DeriveStatus(contract, commands', inScope, journal, snap) ELSE "BLOCKED"
    BY <1>2 DEF Status, JournalLoads
  <1>8. StatusRank("BLOCKED") = 0
    BY DEF StatusRank
  <1>9. pass \in Nat
    <2>1. DOMAIN journal \subseteq 1 .. MaxReviews /\ MaxReviews \in Nat
      BY WorkflowConstants DEF WorkflowInv, WorkflowTypeOK
    <2>2. pass \in 0 .. MaxReviews
      BY <2>1, PassIsLatest
    <2> HIDE DEF pass
    <2> QED
      BY <2>1, <2>2
  <1> HIDE DEF inScope, snap
  <1>10. ASSUME JournalLoads(contract), ~(StatusRank(DeriveStatus(contract, commands', inScope, journal, snap)) <= 2)
         PROVE  FALSE
    <2>1. pass # 0 /\ RedIndex(commands', contract, pass) > 0
      BY <1>10, AboveSpecReviewed
    <2> DEFINE fresh == {i \in DOMAIN commands' : FreshRed(commands'[i], contract, pass)}
    <2>2. fresh # {}
      <3>1. RedIndex(commands', contract, pass) = IF Task[contract].sensitive /\ fresh # {} THEN Min(fresh) ELSE 0
        BY DEF RedIndex
      <3> HIDE DEF fresh
      <3> QED
        BY <2>1, <3>1
    <2>3. PICK i \in DOMAIN commands' : FreshRed(commands'[i], contract, pass)
      BY <2>2
    <2>4. commands'[i].specSeq = pass
      <3>1. pass > 0
        <4> HIDE DEF pass
        <4> QED
          BY <1>9, <2>1
      <3> QED
        BY <2>3, <3>1 DEF FreshRed
    <2>5. i \in DOMAIN commands /\ FreshRed(commands[i], contract, pass)
      <3>1. i # k
        BY <2>4
      <3>2. i \in DOMAIN commands
        BY <1>5, <1>6, <3>1
      <3> QED
        BY <1>5, <2>3, <3>2
    <2>6. ~(StatusRank(DeriveStatus(contract, commands, inScope, journal, snap)) <= 2)
      <3>1. Len(commands) <= Len(commands')
        BY <1>5
      <3> QED
        BY <1>4, <1>5, <1>9, <1>10, <2>5, <3>1, StaysAbove
    <2> QED
      BY <1>7, <1>10, <2>6 DEF Rank
  <1> QED
    BY <1>7, <1>8, <1>10

\* For any contracts, reviews and number of processes: a status of TARGET_VERIFIED
\* or higher rests on the last recorded run of every target, which passed on the tree
\* and the contract the status is about; a report of it rests on the records of one
\* moment after it began, in which every target last passed on its snapshot after a
\* failure reproduced under the spec review current when the report is made
\* (DeriveStatus, RunNamedCommand, BuildReport).
THEOREM EvidenceRestsOnRuns == WorkflowSpec => []EvidenceHolds
  BY WorkflowInvariance, EvidenceFromInv, PTL

\* SECURITY_REVIEWED rests on a passed review of this very snapshot that no later
\* live review contradicts, and attempts at a target are never forgotten
\* (latestJournalReview, countTargetAttempts).
THEOREM ReviewsBind == WorkflowSpec => []ReviewsHold
  BY WorkflowInvariance, ReviewsFromInv, PTL

\* A new spec review of the live contract leaves nothing above SPEC_REVIEWED, and no
\* run begun under another review lifts the status from there (DeriveStatus).
THEOREM SpecReviewStartsOver == WorkflowSpec => NewSpecReviewStartsOver
  <1>1. WorkflowInv /\ WorkflowInv' /\ [WorkflowNext]_workflowVars =>
          [/\ \A n \in DOMAIN journal' \ DOMAIN journal :
                 specRegime(contract) /\ journal'[n].phase = "spec" /\ IsLive(journal'[n], contract)
                    => StatusRank(Status') <= 2
           /\ \A i \in DOMAIN commands' \ DOMAIN commands :
                 specRegime(contract) /\ commands'[i].specSeq # currentSpecPass(journal, contract) /\ Rank <= 2
                    => StatusRank(Status') <= 2]_workflowVars
    BY StartsOverStep, OtherCycleStep
  <1> QED
    BY <1>1, WorkflowInvariance, PTL DEF WorkflowSpec, NewSpecReviewStartsOver
=============================================================================
