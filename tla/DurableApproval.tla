-------------------------- MODULE DurableApproval --------------------------
(***************************************************************************)
(* internal/approval/durable.go: approval requests are parked on disk, an  *)
(* operator answers each by a signed receipt, and receipts are cached by   *)
(* the identity of the request (server, tool, session, agent: a key).      *)
(* Requests, submissions, expiry, cleanup, failing file operations,        *)
(* crashes and loadState interleave.  RequestApproval looks at the cache,  *)
(* drops an expired entry, writes the request file and adds the request to *)
(* the map in four critical sections; the other methods hold the lock.     *)
(*                                                                         *)
(* Execution IDs are numbered in the order of their timestamps, which is   *)
(* the order in which loadState reads the files.  Signatures are genuine,  *)
(* but what a receipt says need not fit the request it names.              *)
(* A file torn by a failed write makes loadState refuse to start: those    *)
(* behaviours end there, and are prefixes of the modelled ones.            *)
(***************************************************************************)
EXTENDS Naturals, Sequences

CONSTANTS
    Keys,      \* request identities
    Callers,   \* goroutines that request approvals
    MaxExecs,  \* bound on the execution IDs
    MaxStarts  \* bound on the starts of the process

ASSUME DurableConstants == MaxExecs \in Nat /\ MaxStarts \in Nat

Execs == 1 .. MaxExecs

\* A receipt names an execution and an identity and carries a decision.  An
\* operator may sign several for one execution.
Receipts == [exec : Execs, key : Keys, decision : {"approve", "deny", "other"}]

NoReceipt == [exec |-> 0, key |-> "none", decision |-> "deny"]

Approves(r) == r.decision = "approve"

VARIABLES
    up,          \* the process runs
    starts,      \* starts so far
    live,        \* a live approval engine is configured
    key,         \* the key of each execution ID, in order
    pendingFile, \* executions with a pending file
    receiptFile, \* the receipt file of an execution, or NoReceipt
    pending,     \* DurableEngine.pending
    cache,       \* DurableEngine.receipts
    caller,      \* where each RequestApproval is: [pc, key, exec]
    expired,     \* receipts past their expiry
    lapsed,      \* requests past their ExpiresAt
    submitted,   \* receipts that reached the disk, or were made by a live approval
    accepted,    \* receipts SubmitReceipt has returned success for
    grants       \* approvals returned: [key, receipt, fresh, by]

disk == <<pendingFile, receiptFile>>
clock == <<expired, lapsed>>
durableVars == <<up, starts, live, key, pendingFile, receiptFile, pending, cache,
          caller, expired, lapsed, submitted, accepted, grants>>

Idle == [pc |-> "idle", key |-> "none", exec |-> 0]

Grant(k, r, by) ==
    [key |-> k, receipt |-> r, fresh |-> r \notin expired, by |-> by]

DurableInit ==
    /\ up = FALSE /\ starts = 0 /\ live = FALSE
    /\ key = <<>>
    /\ pendingFile = {} /\ receiptFile = [e \in Execs |-> NoReceipt]
    /\ pending = {} /\ cache = [k \in Keys |-> NoReceipt]
    /\ caller = [c \in Callers |-> Idle]
    /\ expired = {} /\ lapsed = {}
    /\ submitted = {} /\ accepted = {} /\ grants = {}

-----------------------------------------------------------------------------
(***************************************************************************)
(* NewDurableEngine and loadState.                                         *)
(***************************************************************************)
\* Executions whose receipt file is read and still valid.
Completed == {e \in Execs : receiptFile[e] # NoReceipt
                            /\ receiptFile[e] \notin expired}

\* receiptMatchesPending
ReceiptMatches(r) == r.key = key[r.exec]

DecisionIsKnown(r) == r.decision \in {"approve", "deny"}

\* What loadState refuses to start on, besides files it cannot read.
Sound ==
    \A e \in Completed :
        /\ DecisionIsKnown(receiptFile[e])
        /\ e \in pendingFile => ReceiptMatches(receiptFile[e])

\* The last file read for a key wins.
Loaded(k) ==
    LET own == {e \in Completed : receiptFile[e].key = k}
    IN  IF own = {} THEN NoReceipt
        ELSE receiptFile[CHOOSE e \in own : \A f \in own : f <= e]

Start(withEngine) ==
    /\ ~up /\ starts < MaxStarts /\ Sound
    /\ up' = TRUE /\ starts' = starts + 1
    /\ live' = withEngine
    /\ cache' = [k \in Keys |-> Loaded(k)]
    /\ pending' = pendingFile \ (Completed \cup lapsed)
    /\ pendingFile' = pendingFile \ Completed
    /\ UNCHANGED <<key, receiptFile, caller, clock, submitted, accepted, grants>>

Stopped ==
    /\ up' = FALSE
    /\ pending' = {} /\ cache' = [k \in Keys |-> NoReceipt]
    /\ caller' = [c \in Callers |-> Idle]

Crash ==
    /\ up /\ Stopped
    /\ UNCHANGED <<starts, live, key, disk, clock, submitted, accepted, grants>>

-----------------------------------------------------------------------------
(***************************************************************************)
(* RequestApproval.                                                        *)
(***************************************************************************)
Unusable(r) == r \in expired

\* The cache is read under the read lock.
Look(c, k) ==
    /\ up /\ caller[c].pc = "idle"
    /\ LET r == cache[k] IN
         /\ caller' = [caller EXCEPT ![c] =
              IF r = NoReceipt THEN [pc |-> "create", key |-> k, exec |-> 0]
              ELSE IF Unusable(r) THEN [pc |-> "purge", key |-> k, exec |-> 0]
              ELSE Idle]
         /\ grants' = IF r # NoReceipt /\ ~Unusable(r) /\ Approves(r)
                      THEN grants \cup {Grant(k, r, "request")} ELSE grants
    /\ UNCHANGED <<up, starts, live, key, disk, pending, cache, clock,
                   submitted, accepted>>

\* The expired entry is deleted under the write lock, taken anew.
Purge(c) ==
    /\ caller[c].pc = "purge"
    /\ cache' = [cache EXCEPT ![caller[c].key] = NoReceipt]
    /\ caller' = [caller EXCEPT ![c].pc = "create"]
    /\ UNCHANGED <<up, starts, live, key, disk, pending, clock, submitted,
                   accepted, grants>>

NewExec == Len(key) + 1

\* A live backend answers: an approval is cached, never written to disk.
LiveAnswer(c, yes) ==
    /\ caller[c].pc = "create" /\ live /\ Len(key) < MaxExecs
    /\ LET k == caller[c].key
           r == [exec |-> NewExec, key |-> k, decision |-> "approve"]
       IN  IF yes
           THEN /\ key' = Append(key, k)
                /\ cache' = [cache EXCEPT ![k] = r]
                /\ submitted' = submitted \cup {r}
                /\ grants' = grants \cup {Grant(k, r, "request")}
           ELSE UNCHANGED <<key, cache, submitted, grants>>
    /\ caller' = [caller EXCEPT ![c] = Idle]
    /\ UNCHANGED <<up, starts, live, disk, pending, clock, accepted>>

\* persistRequest
PersistRequest(c) ==
    /\ caller[c].pc = "create" /\ ~live /\ Len(key) < MaxExecs
    /\ key' = Append(key, caller[c].key)
    /\ pendingFile' = pendingFile \cup {NewExec}
    /\ caller' = [caller EXCEPT ![c].pc = "park", ![c].exec = NewExec]
    /\ UNCHANGED <<up, starts, live, receiptFile, pending, cache, clock,
                   submitted, accepted, grants>>

PersistFails(c) ==
    /\ caller[c].pc = "create" /\ ~live
    /\ caller' = [caller EXCEPT ![c] = Idle]
    /\ UNCHANGED <<up, starts, live, key, disk, pending, cache, clock,
                   submitted, accepted, grants>>

\* The request becomes visible, and its execution ID is returned.
Park(c) ==
    /\ caller[c].pc = "park"
    /\ pending' = pending \cup {caller[c].exec}
    /\ caller' = [caller EXCEPT ![c] = Idle]
    /\ UNCHANGED <<up, starts, live, key, disk, cache, clock, submitted,
                   accepted, grants>>

-----------------------------------------------------------------------------
(***************************************************************************)
(* SubmitReceipt, with a receipt that is verified and not expired.         *)
(***************************************************************************)
Submittable(r) == up /\ r.exec <= Len(key) /\ r \notin expired

\* Unknown execution: what is cached for the key in the receipt is returned.
SubmitUnknown(r) ==
    LET k == r.key IN
    /\ r.exec \notin pending /\ Approves(cache[k]) /\ Submittable(r)
    /\ grants' = grants \cup {Grant(k, cache[k], "submit")}
    /\ UNCHANGED <<up, starts, live, key, disk, pending, cache, caller, clock,
                   submitted, accepted>>

\* Faulty variant: the pending file is left behind.
FaultyRemovePending(e) == UNCHANGED pendingFile

RemovePending(e) == pendingFile' = pendingFile \ {e}

\* The receipt is for a request that is pending, and agrees with it.
Acceptable(r) ==
    r.exec \in pending /\ ReceiptMatches(r) /\ DecisionIsKnown(r) /\ Submittable(r)

\* persistReceipt, removePending, and the maps.
SubmitPending(r) ==
    /\ Acceptable(r)
    /\ receiptFile' = [receiptFile EXCEPT ![r.exec] = r]
    /\ submitted' = submitted \cup {r}
    /\ RemovePending(r.exec)
    /\ pending' = pending \ {r.exec}
    /\ cache' = [cache EXCEPT ![r.key] = r]
    /\ accepted' = accepted \cup {r}
    /\ grants' = IF Approves(r) THEN grants \cup {Grant(r.key, r, "submit")} ELSE grants
    /\ UNCHANGED <<up, starts, live, key, caller, clock>>

\* Faulty variant: the pending file is removed before the receipt is written.
FaultySubmitInterrupted(r) ==
    /\ Acceptable(r)
    /\ RemovePending(r.exec)
    /\ \/ UNCHANGED <<up, pending, cache, caller>>
       \/ Stopped
    /\ UNCHANGED <<starts, live, key, receiptFile, clock, submitted, accepted,
                   grants>>

\* The receipt is written and the pending file is not removed: an error is
\* returned, or the process dies there.
SubmitInterrupted(r) ==
    /\ Acceptable(r)
    /\ receiptFile' = [receiptFile EXCEPT ![r.exec] = r]
    /\ submitted' = submitted \cup {r}
    /\ \/ UNCHANGED <<up, pending, cache, caller>>
       \/ Stopped
    /\ UNCHANGED <<starts, live, key, pendingFile, clock, accepted, grants>>

-----------------------------------------------------------------------------
(***************************************************************************)
(* Expiry and cleanup.                                                     *)
(***************************************************************************)
\* GetPendingRequest of an expired request; the file may stay.
DropLapsed(e) ==
    /\ up /\ e \in pending \cap lapsed
    /\ pending' = pending \ {e}
    /\ pendingFile' \in {pendingFile, pendingFile \ {e}}
    /\ UNCHANGED <<up, starts, live, key, receiptFile, cache, caller, clock,
                   submitted, accepted, grants>>

Cleanup ==
    /\ up /\ (pending \cap lapsed # {} \/ \E k \in Keys : cache[k] \in expired)
    /\ pending' = pending \ lapsed
    /\ pendingFile' = pendingFile \ (pending \cap lapsed)
    /\ cache' = [k \in Keys |-> IF cache[k] \in expired THEN NoReceipt
                                                        ELSE cache[k]]
    /\ LET gone == {cache[k].exec : k \in {j \in Keys : cache[j] \in expired}}
       IN  receiptFile' = [e \in Execs |-> IF e \in gone THEN NoReceipt
                                                         ELSE receiptFile[e]]
    /\ UNCHANGED <<up, starts, live, key, caller, clock, submitted, accepted,
                   grants>>

ExpireReceipt(r) ==
    /\ r \in submitted \ expired
    /\ expired' = expired \cup {r}
    /\ UNCHANGED <<up, starts, live, key, disk, pending, cache, caller, lapsed,
                   submitted, accepted, grants>>

\* Only of a request that is on disk does anyone look at the expiry.
LapseRequest(e) ==
    /\ e \in pendingFile \ lapsed
    /\ lapsed' = lapsed \cup {e}
    /\ UNCHANGED <<up, starts, live, key, disk, pending, cache, caller,
                   expired, submitted, accepted, grants>>

DurableNext ==
    \/ \E withEngine \in BOOLEAN : Start(withEngine)
    \/ Crash
    \/ \E c \in Callers :
          \/ \E k \in Keys : Look(c, k)
          \/ \E yes \in BOOLEAN : LiveAnswer(c, yes)
          \/ Purge(c) \/ PersistRequest(c) \/ PersistFails(c) \/ Park(c)
    \/ \E r \in Receipts : SubmitUnknown(r) \/ SubmitPending(r)
                           \/ SubmitInterrupted(r)
    \/ \E r \in submitted : ExpireReceipt(r)
    \/ \E e \in Execs : DropLapsed(e) \/ LapseRequest(e)
    \/ Cleanup

DurableSpec == DurableInit /\ [][DurableNext]_durableVars

-----------------------------------------------------------------------------
MaybeReceipts == Receipts \cup {NoReceipt}

\* Types of the variables.
DurableTypeOK ==
    /\ up \in BOOLEAN /\ starts \in 0 .. MaxStarts /\ live \in BOOLEAN
    /\ key \in Seq(Keys) /\ Len(key) <= MaxExecs
    /\ pendingFile \subseteq Execs /\ receiptFile \in [Execs -> MaybeReceipts]
    /\ pending \subseteq Execs /\ cache \in [Keys -> MaybeReceipts]
    /\ caller \in [Callers -> [pc : {"idle", "purge", "create", "park"},
                               key : Keys \cup {"none"}, exec : 0 .. MaxExecs]]
    /\ expired \subseteq Receipts /\ lapsed \subseteq Execs
    /\ submitted \subseteq Receipts /\ accepted \subseteq Receipts
    /\ grants \subseteq [key : Keys, receipt : MaybeReceipts, fresh : BOOLEAN,
                         by : {"request", "submit"}]

\* A request whose receipt was accepted never comes back: not in memory, not
\* on disk, after no crash, failed remove or expiry.
CompletionIsFinal ==
    \A r \in accepted : r.exec \notin pending /\ r.exec \notin pendingFile

\* RequestApproval grants only on a receipt that approves a request with the
\* same identity, was given for it, and has not expired.
GrantIsBacked ==
    \A g \in grants :
        g.by = "request" =>
            /\ g.receipt \in submitted /\ Approves(g.receipt) /\ g.fresh
            /\ key[g.receipt.exec] = g.key

\* Every request the engine holds as pending is on disk, so that a crash loses
\* none, whichever file operation of SubmitReceipt failed before.
PendingSurvives == pending \subseteq pendingFile

\* The engine loses no request and invents no grant over crashes and failed
\* file operations.
RequestsAreKept == DurableTypeOK /\ GrantIsBacked /\ PendingSurvives
=============================================================================
