------------------------------ MODULE AuditLog ------------------------------
(***************************************************************************)
(* The hash-chained JSONL audit log of internal/audit/logger.go: opening   *)
(* and recovering the chain (NewLogger, MustLogger, recoverChainState),    *)
(* the unsynced append (Log), the synced append that must succeed before a *)
(* call may be relayed (CommitAuthorization, CommitKineticStop), the       *)
(* poison latch, and what a power failure may leave on the disk.           *)
(*                                                                         *)
(* A record keeps what the chain is made of.  Its hash is a token that no  *)
(* other record has (SHA-256 over a record that holds a nanosecond         *)
(* timestamp and the previous hash); 0 is the empty string of the code.    *)
(* One logger holds one mutex over every method, so a method is one step.  *)
(* A power failure between the append and the Sync of a commit leaves what *)
(* a failed Sync followed by Crash leaves.                                 *)
(***************************************************************************)
EXTENDS Naturals, Sequences

CONSTANTS
    Calls,      \* tools/call requests whose authorization may be committed
    NoCall,     \* the call field of a record that is about no call
    MaxRecords  \* bound on the records ever prepared

ASSUME AuditConstants == NoCall \notin Calls /\ MaxRecords \in Nat

VARIABLES
    file,       \* complete lines of the log file, in order
    tail,       \* what follows the last complete line
    synced,     \* number of lines known to be on stable storage
    entry,      \* the directory entry of the file is on stable storage
    mode,       \* where the running logger writes, or why there is none
    poisoned,   \* Logger.poisoned
    prevHash,   \* Logger.prevHash
    chainIndex, \* Logger.chainIndex
    nextHash,   \* the next unused hash token
    granted     \* calls for which CommitAuthorization returned nil

disk == <<file, tail, synced, entry>>
chain == <<prevHash, chainIndex>>
vars == <<file, tail, synced, entry, mode, poisoned, prevHash, chainIndex,
          nextHash, granted>>

Kinds == {"legacy", "logged", "allowed", "kinetic_stop"}

Records == [kind : Kinds, call : Calls \cup {NoCall}, hash : Nat,
            prev : Nat, index : Nat]

\* A line written by a release that had no hash chain yet.
LegacyRecord == [kind |-> "legacy", call |-> NoCall, hash |-> 0, prev |-> 0,
                 index |-> 0]

-----------------------------------------------------------------------------
\* The chain state that recoverChainState reads off the last complete line.
\* A line without a hash is a chain boundary.
RecoveredHash(f) == IF f = <<>> THEN 0 ELSE f[Len(f)].hash

RecoveredIndex(f) ==
    IF f = <<>> \/ f[Len(f)].hash = 0 THEN 0 ELSE f[Len(f)].index + 1

\* prepareRecord: link the event to the chain without advancing the chain.
PrepareRecord(kind, call) ==
    [kind |-> kind, call |-> call, hash |-> nextHash, prev |-> prevHash,
     index |-> chainIndex]

-----------------------------------------------------------------------------
(***************************************************************************)
(* Faulty variants of the steps below.  A run replaces a step by its       *)
(* variant to show that the property it is paired with can fail.           *)
(***************************************************************************)
\* The commit does not wait for Sync.
FaultyCommitNoSync(kind, call) ==
    /\ mode \in {"file", "stderr"} /\ ~poisoned /\ nextHash <= MaxRecords
    /\ mode = "file"
    /\ file' = Append(file, PrepareRecord(kind, call))
    /\ prevHash' = nextHash /\ chainIndex' = chainIndex + 1
    /\ nextHash' = nextHash + 1
    /\ granted' = IF kind = "allowed" THEN granted \cup {call} ELSE granted
    /\ UNCHANGED <<tail, synced, entry, mode, poisoned>>

\* A failed Sync is reported but does not poison the logger.
FaultyCommitKeepsGoing(kind, call) ==
    /\ mode = "file" /\ ~poisoned /\ nextHash <= MaxRecords
    /\ file' = Append(file, PrepareRecord(kind, call))
    /\ nextHash' = nextHash + 1
    /\ UNCHANGED <<tail, synced, entry, mode, poisoned, prevHash, chainIndex,
                   granted>>

\* A short write is reported but does not poison the logger.
FaultyWriteFails ==
    /\ tail' = IF mode = "file" THEN "torn" ELSE tail
    /\ UNCHANGED <<file, synced, entry, mode, poisoned, prevHash, chainIndex,
                   nextHash, granted>>

\* The log is opened with O_TRUNC in place of O_APPEND.
FaultyNewLogger ==
    /\ mode = "down" /\ tail = "clean"
    /\ file' = <<>> /\ synced' = 0 /\ entry' = TRUE
    /\ mode' = "file" /\ poisoned' = FALSE
    /\ prevHash' = 0 /\ chainIndex' = 0
    /\ UNCHANGED <<tail, nextHash, granted>>

-----------------------------------------------------------------------------
Init ==
    /\ file \in {<<>>, <<LegacyRecord>>}
    /\ tail = "clean"
    /\ synced = Len(file)
    /\ entry = (file # <<>>)
    /\ mode = "down"
    /\ poisoned = FALSE
    /\ prevHash = 0
    /\ chainIndex = 0
    /\ nextHash = 1
    /\ granted = {}

\* NewLogger succeeds: the tail is complete, the chain state is recovered
\* and the parent directory is synced.
NewLogger ==
    /\ mode = "down" /\ tail = "clean"
    /\ entry' = TRUE
    /\ mode' = "file" /\ poisoned' = FALSE
    /\ prevHash' = RecoveredHash(file) /\ chainIndex' = RecoveredIndex(file)
    /\ UNCHANGED <<file, tail, synced, nextHash, granted>>

\* MustLogger: an incomplete or corrupt last line stops the process.
RefuseToStart ==
    /\ mode = "down" /\ tail # "clean"
    /\ mode' = "refused"
    /\ UNCHANGED <<file, tail, synced, entry, poisoned, prevHash, chainIndex,
                   nextHash, granted>>

\* MustLogger: any other error of NewLogger falls back to stderr.
FallBackToStderr ==
    /\ mode = "down"
    /\ mode' = "stderr" /\ poisoned' = FALSE
    /\ prevHash' = 0 /\ chainIndex' = 0
    /\ UNCHANGED <<file, tail, synced, entry, nextHash, granted>>

\* The methods return ErrAuditSinkUnhealthy, and change nothing, once poisoned.
Healthy == mode \in {"file", "stderr"} /\ ~poisoned /\ nextHash <= MaxRecords

\* The whole line reaches the sink.
WriteLine(r) ==
    /\ file' = IF mode = "file" THEN Append(file, r) ELSE file
    /\ nextHash' = nextHash + 1
    /\ UNCHANGED <<tail, entry, mode>>

\* Marshal, write or short-write failure: nothing or a part of the line is
\* written, and the logger is poisoned.
WriteFails ==
    /\ poisoned' = TRUE
    /\ \/ tail' = tail
       \/ mode = "file" /\ tail' = "torn"
    /\ UNCHANGED <<file, synced, entry, mode, prevHash, chainIndex, nextHash,
                   granted>>

Advance(r) ==
    /\ prevHash' = r.hash
    /\ chainIndex' = chainIndex + 1
    /\ UNCHANGED poisoned

Log ==
    /\ Healthy
    /\ \/ WriteFails
       \/ LET r == PrepareRecord("logged", NoCall) IN
            /\ WriteLine(r) /\ Advance(r)
            /\ UNCHANGED <<synced, granted>>

\* The common body of CommitAuthorization and CommitKineticStop.
Commit(kind, call) ==
    /\ Healthy
    /\ \/ /\ mode = "stderr"
          /\ poisoned' = TRUE
          /\ UNCHANGED <<file, tail, synced, entry, mode, prevHash,
                         chainIndex, nextHash, granted>>
       \/ mode = "file" /\ WriteFails
       \/ /\ mode = "file"
          /\ WriteLine(PrepareRecord(kind, call))
          /\ poisoned' = TRUE                      \* Sync fails
          /\ UNCHANGED <<synced, prevHash, chainIndex, granted>>
       \/ LET r == PrepareRecord(kind, call) IN
            /\ mode = "file"
            /\ WriteLine(r) /\ Advance(r)
            /\ synced' = Len(file')
            /\ granted' = IF kind = "allowed" THEN granted \cup {call}
                                              ELSE granted

CommitAuthorization(call) == Commit("allowed", call)
CommitKineticStop == Commit("kinetic_stop", NoCall)

\* Close, or the process ends: what was written stays in the page cache.
Close ==
    /\ mode # "down"
    /\ mode' = "down"
    /\ UNCHANGED <<file, tail, synced, entry, poisoned, prevHash, chainIndex,
                   nextHash, granted>>

\* Power failure: the synced lines survive, and any prefix of the others,
\* possibly followed by a part of a line or by garbage.  A file whose
\* directory entry was never synced may be gone.
Crash ==
    /\ mode' = "down"
    /\ \/ \E k \in synced .. Len(file) :
            /\ file' = SubSeq(file, 1, k)
            /\ tail' \in IF k < Len(file) \/ tail # "clean"
                         THEN {"clean", "torn", "corrupt"} ELSE {"clean"}
            /\ synced' = k
       \/ /\ ~entry
          /\ file' = <<>> /\ tail' = "clean" /\ synced' = 0
    /\ UNCHANGED <<entry, poisoned, prevHash, chainIndex, nextHash, granted>>

Next ==
    \/ NewLogger \/ RefuseToStart \/ FallBackToStderr
    \/ Log
    \/ \E call \in Calls : CommitAuthorization(call)
    \/ CommitKineticStop
    \/ Close
    \/ Crash

Spec == Init /\ [][Next]_vars

-----------------------------------------------------------------------------
\* Types of the variables; the log never holds fewer lines than were synced.
TypeOK ==
    /\ file \in Seq(Records)
    /\ tail \in {"clean", "torn", "corrupt"}
    /\ synced \in 0 .. Len(file)
    /\ entry \in BOOLEAN
    /\ mode \in {"down", "file", "stderr", "refused"}
    /\ poisoned \in BOOLEAN
    /\ prevHash \in Nat /\ chainIndex \in Nat /\ nextHash \in Nat \ {0}
    /\ granted \subseteq Calls

\* Every call whose CommitAuthorization returned nil has its allow record
\* among the synced lines, whatever crashes and restarts came since: relay is
\* never ahead of the disk.
GrantedIsDurable ==
    \A call \in granted :
        /\ entry
        /\ \E i \in 1 .. synced :
              file[i].kind = "allowed" /\ file[i].call = call

\* Line b continues the chain after line a.
Linked(a, b) ==
    /\ b.prev = a.hash
    /\ b.index = IF a.hash = 0 THEN 0 ELSE a.index + 1

\* The file is one unbroken hash chain over failed writes, failed syncs,
\* crashes and reopenings; it starts at genesis or after a legacy line.
ChainIntact ==
    /\ file # <<>> => file[1].prev = 0 /\ file[1].index = 0
    /\ \A i \in 2 .. Len(file) : Linked(file[i - 1], file[i])

\* A healthy file logger continues the chain exactly where the file ends, so
\* that the in-memory state and a recovery of the file agree.
TipAgrees ==
    mode = "file" /\ ~poisoned =>
        /\ tail = "clean"
        /\ prevHash = RecoveredHash(file)
        /\ chainIndex = RecoveredIndex(file)

\* No line is ever appended after a partial or corrupt one: not by a poisoned
\* logger, and not by a logger that starts on the damaged file.
NothingAfterDamage ==
    [][tail # "clean" => Len(file') <= Len(file)]_vars

\* Lines that were synced are never lost or rewritten.
SyncedLinesStay ==
    [][entry => /\ synced' >= synced
                /\ \A i \in 1 .. synced : file'[i] = file[i]]_vars

\* The calls whose allow record is on stable storage.
DurableCalls ==
    IF entry THEN {file[i].call : i \in {j \in 1 .. synced : file[j].kind = "allowed"}}
             ELSE {}

Ledger == INSTANCE AuthorizationLedger WITH durable <- DurableCalls

\* The log implements the ledger the proxy relies on: a call that was granted
\* has its record on the disk, and no failure or restart takes one away.
ImplementsLedger == Ledger!Spec

\* What else an induction needs: lines are only ever written to a file whose
\* directory entry was synced when it was opened.
EntryBeforeLines == mode = "file" \/ file # <<>> => entry

IndInv == TypeOK /\ GrantedIsDurable /\ ChainIntact /\ TipAgrees
          /\ EntryBeforeLines
=============================================================================
