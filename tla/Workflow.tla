------------------------------ MODULE Workflow ------------------------------
(***************************************************************************)
(* The supervised workflow (internal/workflow, cmd/visor-workflow): named   *)
(* commands of a task contract are run and recorded, reviews are journaled, *)
(* and the status of the task is derived from this evidence and a snapshot  *)
(* of the workspace.  Runs, reviews, edits and reports are made by separate *)
(* processes that share nothing but the files.                              *)
(***************************************************************************)
EXTENDS Integers, Sequences, FiniteSets, FiniteSetsExt

CONSTANTS Contracts,    \* contents the task file may have; also their digests
          Task,         \* [Contracts -> task]: the fields of each contract
          Versions,     \* contents of the work tree, its HEAD included
          Changes,      \* [Versions \X Bases -> set of paths of the tree changed against the base]
          Escaping,     \* paths that are symbolic links out of the repository
          Start,        \* contract, tree and base of the first run
          Bases,        \* commits the base may resolve to
          Runners,      \* processes that execute `visor-workflow run`
          ReviewPool,   \* what reviewers may write
          MaxReviews,   \* bound on the numbers of the review files
          Budgets       \* bounds of a behaviour: [runners, runs, acts, trees, reports], where runs counts the
                        \* records, runs in progress included, and acts the edits of tree,
                        \* base and contract and the reviews together

Names == UNION {DOMAIN Task[c].cmds : c \in Contracts}

Statuses == {"UNSPECIFIED", "SPECIFIED", "SPEC_REVIEWED", "FAILURE_REPRODUCED",
             "TARGET_VERIFIED", "HARNESS_VERIFIED", "SECURITY_REVIEWED", "BLOCKED"}

Snapshots == [base : Bases, digest : Versions \X Contracts]

ASSUME WorkflowConstants ==
    /\ DOMAIN Task = Contracts /\ Start \in Contracts \X Versions \X Bases
    /\ \A c \in Contracts :
          /\ Task[c].sensitive \in BOOLEAN /\ Task[c].revision \in Nat /\ Task[c].max \in Int
          /\ \A n \in DOMAIN Task[c].cmds :
                Task[c].cmds[n].expect \in {"pass", "fail"} /\ Task[c].cmds[n].argv \in Nat
    /\ Changes \in [Versions \X Bases -> SUBSET STRING]
    /\ \A r \in ReviewPool : r.phase \in {"spec", "implementation"} /\ r.snap \in Snapshots
    /\ MaxReviews \in Nat
    /\ Budgets \subseteq
          [runners : SUBSET Runners, runs : Nat, acts : Nat, trees : SUBSET Versions,
           reports : BOOLEAN]

VARIABLES contract,     \* the task file
          tree, base,   \* the work tree and what the base resolves to
          commands,     \* commands.jsonl, in the order of its lines
          torn,         \* a line of it was written only in part
          journal,      \* reviews/<n>.json: file number -> review
          run,          \* the processes that execute a command
          report,       \* the process that builds a report, and its result
          acts,         \* how often the people may still change something
          budget        \* the runners, runs, trees and reports of this behaviour

workflowVars == <<contract, tree, base, commands, torn, journal, run, report, acts, budget>>
evidence == <<commands, torn, journal>>
repository == <<contract, tree, base>>

-----------------------------------------------------------------------------
(* The task contract.                                                       *)

specRegime(c) == Task[c].sensitive /\ Task[c].revision >= 1

\* A target is a required command, other than the harness, that must pass.
Targets(c) == {n \in DOMAIN Task[c].cmds : n # "harness" /\ Task[c].cmds[n].expect = "pass"}
Reds(c) == {n \in DOMAIN Task[c].cmds : Task[c].cmds[n].expect = "fail"}

ValidateTask(c) ==
    /\ Task[c].max >= 1
    /\ "harness" \in DOMAIN Task[c].cmds /\ Task[c].cmds["harness"].expect = "pass"
    /\ Targets(c) # {}
    /\ Task[c].sensitive => Reds(c) # {} /\ Task[c].revision >= 1
    /\ specRegime(c) => Task[c].classes # {} /\ Task[c].nonGoals

CurrentSnapshot(c, v, b) == [base |-> b, digest |-> <<v, c>>]

\* Changed paths outside allowed_paths, and links that leave the repository.
CheckScope(c, v, b) ==
    {p \in Changes[v, b] : p \notin Task[c].allowed \/ p \in Escaping}

-----------------------------------------------------------------------------
(* The review journal.                                                      *)

\* Historical reviews are not judged by the live taxonomy.
ValidateReviewArtifact(r, c) ==
    LET live == specRegime(c) /\ r.digest = c /\ r.revision = Task[c].revision
    IN  IF r.phase = "spec"
        THEN /\ r.revision >= 1
             /\ live => /\ r.covered \subseteq Task[c].classes
                        /\ r.passed => Task[c].classes \subseteq r.covered /\ r.counterexamples
        ELSE /\ specRegime(c) => r.revision >= 1
             /\ live => r.covered \subseteq Task[c].classes

\* The files must be numbered 1..N without a gap, and each must be valid.
JournalLoads(c) ==
    /\ DOMAIN journal = 1 .. Cardinality(DOMAIN journal)
    /\ \A n \in DOMAIN journal : ValidateReviewArtifact(journal[n], c)

SpecReviews(j, c) ==
    {n \in DOMAIN j : j[n].phase = "spec" /\ j[n].digest = c /\ j[n].revision = Task[c].revision}

LatestSpecReview(j, c) == IF SpecReviews(j, c) = {} THEN 0 ELSE Max(SpecReviews(j, c))

\* The number of the latest spec review if it passed; 0 stands for nil.
currentSpecPass(j, c) ==
    LET n == LatestSpecReview(j, c) IN IF n > 0 /\ j[n].passed THEN n ELSE 0

\* The latest implementation review that may promote the task; 0 for nil.
latestJournalReview(j, c) ==
    LET eligible == {n \in DOMAIN j :
                       /\ j[n].phase # "spec"
                       /\ specRegime(c) => j[n].digest = c /\ j[n].revision = Task[c].revision
                       /\ n > (IF specRegime(c) THEN currentSpecPass(j, c) ELSE 0)}
    IN  IF eligible = {} THEN 0 ELSE Max(eligible)

-----------------------------------------------------------------------------
(* Status from evidence.                                                    *)

ArgvMatches(rec, c) == rec.argv = Task[c].cmds[rec.name].argv

\* The index of the last record of a command, if that run passed; 0 for nil.
lastMatching(cmds, c, n) ==
    LET same == {i \in DOMAIN cmds : cmds[i].name = n /\ ArgvMatches(cmds[i], c)}
    IN  IF same # {} /\ cmds[Max(same)].exit = 0 THEN Max(same) ELSE 0

FaultyCountTargetAttempts(cmds, c) ==   \* counted from the current spec pass on
    Max({0} \cup {Cardinality({i \in DOMAIN cmds : cmds[i].name = n /\ cmds[i].specSeq = currentSpecPass(journal, c)}) :
                    n \in Targets(c)})

countTargetAttempts(cmds, c) ==
    Max({0} \cup {Cardinality({i \in DOMAIN cmds : cmds[i].name = n}) : n \in Targets(c)})

FaultyFreshRed(rec, c, pass) ==     \* red of an earlier spec cycle accepted
    rec.name \in Reds(c) /\ rec.exit # 0 /\ ArgvMatches(rec, c)

\* A record counts as the failure reproduced in the current spec cycle.
FreshRed(rec, c, pass) ==
    /\ rec.name \in Reds(c) /\ rec.exit # 0 /\ ArgvMatches(rec, c)
    /\ pass > 0 => rec.specSeq = pass

RedIndex(cmds, c, pass) ==
    LET fresh == {i \in DOMAIN cmds : FreshRed(cmds[i], c, pass)}
    IN  IF Task[c].sensitive /\ fresh # {} THEN Min(fresh) ELSE 0

FaultyBound(rec, snap) == rec.snap.base = snap.base

\* Evidence is bound to the workspace digest and the base of the snapshot.
Bound(rec, snap) == rec.snap = snap

TargetsVerified(cmds, c, inScope, red, snap) ==
    /\ inScope
    /\ Task[c].sensitive => red > 0
    /\ \A n \in Targets(c) : LET i == lastMatching(cmds, c, n)
                             IN  i > red /\ Bound(cmds[i], snap)

HarnessVerified(cmds, c, snap) ==
    LET h == lastMatching(cmds, c, "harness")
    IN  /\ h > 0 /\ Bound(cmds[h], snap)
        /\ \A n \in Targets(c) : h > lastMatching(cmds, c, n)

Promotes(r, snap) == r.passed /\ r.snap = snap

DeriveStatus(c, cmds, inScope, j, snap) ==
    LET pass == IF specRegime(c) THEN currentSpecPass(j, c) ELSE 0
        red  == RedIndex(cmds, c, pass)
        rev  == latestJournalReview(j, c)
    IN  CASE ~ValidateTask(c) -> "UNSPECIFIED"
          [] ValidateTask(c) /\
             \/ \E i \in DOMAIN cmds : cmds[i].name \in DOMAIN Task[c].cmds /\ ~ArgvMatches(cmds[i], c)
             \/ countTargetAttempts(cmds, c) > Task[c].max -> "BLOCKED"
          [] OTHER ->
             IF specRegime(c) /\ pass = 0 THEN "SPECIFIED"
             ELSE IF ~TargetsVerified(cmds, c, inScope, red, snap)
             THEN IF red > 0 THEN "FAILURE_REPRODUCED"
                  ELSE IF pass > 0 THEN "SPEC_REVIEWED" ELSE "SPECIFIED"
             ELSE IF ~HarnessVerified(cmds, c, snap) THEN "TARGET_VERIFIED"
             ELSE IF rev > 0 /\ Promotes(j[rev], snap) THEN "SECURITY_REVIEWED"
             ELSE "HARNESS_VERIFIED"

StatusRank(s) ==
    CASE s = "SPECIFIED" -> 1 [] s = "SPEC_REVIEWED" -> 2 [] s = "FAILURE_REPRODUCED" -> 3
      [] s = "TARGET_VERIFIED" -> 4 [] s = "HARNESS_VERIFIED" -> 5
      [] s = "SECURITY_REVIEWED" -> 6 [] OTHER -> 0

-----------------------------------------------------------------------------
(* `visor-workflow run`: RunNamedCommand in the steps between which other   *)
(* processes can change the files.                                          *)

Idle == [pc |-> "idle"]

WorkflowInit ==
    /\ contract = Start[1] /\ tree = Start[2] /\ base = Start[3]
    /\ commands = <<>> /\ torn = FALSE /\ journal = <<>>
    /\ run = [r \in Runners |-> Idle]
    /\ report = Idle
    /\ \E b \in Budgets : acts = b.acts /\ budget = [runners |-> b.runners, runs |-> b.runs, trees |-> b.trees,
                                                                      reports |-> b.reports]

\* Without a current spec pass nothing is executed.
GateOpen(c) == specRegime(c) => JournalLoads(c) /\ currentSpecPass(journal, c) > 0

SpecSequence(c) == IF specRegime(c) THEN currentSpecPass(journal, c) ELSE 0

\* LoadTask, LookupCommand, CurrentSnapshot and the gate.  They are one step, as
\* what happens between the snapshot and the gate could as well happen before
\* the one or after the other; then the command is executed.  The history field
\* steady says that the tree stays as it was in the snapshot until it ends.
Begin(r) ==
    /\ r \in budget.runners /\ run[r] = Idle
    /\ Len(commands) + Cardinality({q \in Runners : run[q] # Idle}) < budget.runs
    /\ ValidateTask(contract) /\ GateOpen(contract)
    /\ \E n \in DOMAIN Task[contract].cmds :
          run' = [run EXCEPT ![r] =
             [pc |-> "running", name |-> n, argv |-> Task[contract].cmds[n].argv,
              snap |-> CurrentSnapshot(contract, tree, base),
              specSeq |-> SpecSequence(contract), steady |-> TRUE]]
    /\ UNCHANGED <<repository, evidence, report, acts, budget>>

\* The command ends with an outcome of its own and a line is appended.
Record(r) ==
    /\ run[r] # Idle
    /\ \E x \in {0, 1} :
          commands' = Append(commands, [name |-> run[r].name, argv |-> run[r].argv, snap |-> run[r].snap,
                                        specSeq |-> run[r].specSeq, steady |-> run[r].steady, exit |-> x])
    /\ run' = [run EXCEPT ![r] = Idle]
    /\ UNCHANGED <<repository, torn, journal, report, acts, budget>>

\* Killed, or the log or the record file cannot be written: no record, or a
\* partial line that LoadCommands refuses from then on.
Abort(r) ==
    /\ run[r] # Idle
    /\ run' = [run EXCEPT ![r] = Idle]
    /\ torn' \in {torn, TRUE}
    /\ UNCHANGED <<repository, commands, journal, report, acts, budget>>

-----------------------------------------------------------------------------
(* `visor-workflow verify` and `report`: BuildReport reads the snapshot,    *)
(* the scope, the records and the journal one after the other.  History    *)
(* fields: since counts the records there were when it began, and steady   *)
(* says that the tree stayed the same between snapshot and scope.          *)

ReportSnap ==
    /\ budget.reports /\ report = Idle
    /\ ValidateTask(contract)
    /\ report' = [pc |-> "snapped", task |-> contract, snap |-> CurrentSnapshot(contract, tree, base),
                  since |-> Len(commands), steady |-> TRUE]
    /\ UNCHANGED <<repository, evidence, run, acts, budget>>

\* The scope is judged against the base of the snapshot, on the tree as it is now.
ReportScope ==
    /\ report.pc = "snapped"
    /\ report' = [pc |-> "scoped", task |-> report.task, snap |-> report.snap,
                  since |-> report.since, steady |-> report.steady,
                  inScope |-> CheckScope(report.task, tree, report.snap.base) = {}]
    /\ UNCHANGED <<repository, evidence, run, acts, budget>>

\* LoadCommands; a torn record file is an error.
ReportCommands ==
    /\ report.pc = "scoped"
    /\ report' = IF torn THEN [pc |-> "failed"]
                 ELSE [pc |-> "loaded", task |-> report.task, snap |-> report.snap,
                       since |-> report.since, steady |-> report.steady,
                       inScope |-> report.inScope, cmds |-> commands]
    /\ UNCHANGED <<repository, evidence, run, acts, budget>>

\* LoadReviewSequence and DeriveStatus; a journal that does not load blocks the task.
ReportDone ==
    /\ report.pc = "loaded"
    /\ report' = [pc |-> "done", task |-> report.task, snap |-> report.snap,
                  since |-> report.since, steady |-> report.steady, cmds |-> report.cmds,
                  status |-> IF JournalLoads(report.task)
                             THEN DeriveStatus(report.task, report.cmds, report.inScope, journal, report.snap)
                             ELSE "BLOCKED"]
    /\ UNCHANGED <<repository, evidence, run, acts, budget>>

-----------------------------------------------------------------------------
(* The people around it.                                                    *)

Act == acts > 0 /\ acts' = acts - 1 /\ UNCHANGED budget

\* A change of the tree is seen by every run that has its snapshot and has not ended,
\* and by a report between its snapshot and its scope.
Edit(v) ==
    /\ v # tree
    /\ tree' = v
    /\ run' = [r \in Runners |-> IF run[r] # Idle
                                 THEN [run[r] EXCEPT !.steady = FALSE] ELSE run[r]]
    /\ report' = IF report.pc = "snapped" THEN [report EXCEPT !.steady = FALSE] ELSE report
    /\ Act
    /\ UNCHANGED <<contract, base, evidence>>

Rebase(b) ==
    /\ b # base /\ base' = b
    /\ Act
    /\ UNCHANGED <<contract, tree, evidence, run, report>>

EditContract(c) ==
    /\ c # contract /\ contract' = c
    /\ Act
    /\ UNCHANGED <<tree, base, evidence, run, report>>

\* A reviewer adds a file under a number that is free, not always the next one.
Review(n, rev) ==
    /\ n \notin DOMAIN journal /\ n <= Cardinality(DOMAIN journal) + 2
    /\ journal' = [m \in DOMAIN journal \cup {n} |-> IF m = n THEN rev ELSE journal[m]]
    /\ Act
    /\ UNCHANGED <<repository, commands, torn, run, report>>

\* A behaviour ends with its report; once the record file is torn only the report
\* goes on.
WorkflowNext ==
    \/ ReportSnap \/ ReportScope \/ ReportCommands \/ ReportDone
    \/ /\ report.pc \notin {"done", "failed"} /\ ~torn
       /\ \/ \E r \in Runners : Begin(r) \/ Record(r) \/ Abort(r)
          \/ \E v \in budget.trees : Edit(v)
          \/ \E b \in Bases : Rebase(b)
          \/ \E c \in Contracts : EditContract(c)
          \/ \E n \in 1 .. MaxReviews, rev \in ReviewPool : Review(n, rev)

WorkflowSpec == WorkflowInit /\ [][WorkflowNext]_workflowVars

-----------------------------------------------------------------------------
(* Properties.                                                              *)

\* What a report made now, with nothing changing under it, would say.
Status ==
    IF JournalLoads(contract)
    THEN DeriveStatus(contract, commands, CheckScope(contract, tree, base) = {}, journal,
                      CurrentSnapshot(contract, tree, base))
    ELSE "BLOCKED"

Rank == StatusRank(Status)

RecordType == [name : Names, argv : Nat, snap : Snapshots, specSeq : 0 .. MaxReviews,
               steady : BOOLEAN, exit : {0, 1}]

WorkflowTypeOK ==
    /\ contract \in Contracts /\ tree \in Versions /\ base \in Bases
    /\ commands \in Seq(RecordType) /\ torn \in BOOLEAN
    /\ DOMAIN journal \subseteq 1 .. MaxReviews /\ \A n \in DOMAIN journal : journal[n] \in ReviewPool
    /\ \A r \in Runners : run[r].pc \in {"idle", "running"}
    /\ report.pc \in {"idle", "snapped", "scoped", "loaded", "failed", "done"}
    /\ report.pc = "done" => report.status \in Statuses
    /\ acts \in Nat

IsLive(rev, c) == rev.digest = c /\ rev.revision = Task[c].revision

\* The run of a command that must fail failed, under the current spec review if the
\* contract has spec cycles.
FailsAsReviewed(rec, c) ==
    /\ rec.name \in Reds(c) /\ rec.exit # 0
    /\ specRegime(c) => rec.specSeq > 0 /\ rec.specSeq = LatestSpecReview(journal, c)

LastRun(cmds, n) == Max({0} \cup {i \in DOMAIN cmds : cmds[i].name = n})

\* A spec review of the live contract, passed or not, starts the cycle again:
\* whatever was red, green or reviewed before it, the status falls to at most
\* SPEC_REVIEWED, and the record of a run that began under another review never
\* lifts it from there: the failure must be reproduced in the new cycle.  (After
\* that a target counts as green whatever review it began under.)
NewSpecReviewStartsOver ==
    [][/\ \A n \in DOMAIN journal' \ DOMAIN journal :
             specRegime(contract) /\ journal'[n].phase = "spec" /\ IsLive(journal'[n], contract)
                => StatusRank(Status') <= 2
       /\ \A i \in DOMAIN commands' \ DOMAIN commands :
             specRegime(contract) /\ commands'[i].specSeq # currentSpecPass(journal, contract) /\ Rank <= 2
                => StatusRank(Status') <= 2]_workflowVars

\* A status of TARGET_VERIFIED or higher is about the tree as it is now: it is in
\* scope, and the last recorded run of every target passed on it, unless somebody
\* edited the tree during that run.
VerifiedTreeWasTested ==
    Rank >= 4 =>
       /\ CheckScope(contract, tree, base) = {}
       /\ \A n \in Targets(contract) :
             LET i == LastRun(commands, n)
             IN  /\ i > 0 /\ commands[i].exit = 0
                 /\ commands[i].steady => commands[i].snap.digest = <<tree, contract>>

\* SECURITY_REVIEWED rests on an implementation review of exactly this snapshot
\* that passed, and no review of the live contract written after it objects or,
\* where the contract has spec cycles, opens a new one.
ReviewedIsCurrent ==
    Status = "SECURITY_REVIEWED" =>
       \E n \in DOMAIN journal :
          /\ journal[n].phase = "implementation" /\ journal[n].passed
          /\ journal[n].snap = CurrentSnapshot(contract, tree, base)
          /\ \A m \in DOMAIN journal :
                m > n /\ IsLive(journal[m], contract) =>
                   IF journal[m].phase = "spec" THEN ~specRegime(contract) ELSE journal[m].passed

\* Attempts are counted over the whole history of a target: a task that has used
\* up max_attempts is BLOCKED, whatever is reviewed or edited afterwards.
AttemptsNeverForgotten ==
    (\E n \in Targets(contract) :
        Cardinality({i \in DOMAIN commands : commands[i].name = n}) > Task[contract].max)
       => StatusRank(Status) = 0

\* What a report of TARGET_VERIFIED or higher is worth although tree, records and
\* journal change while it is built: it rests on the records of a moment after it
\* began, in which the last run of every target passed on the snapshot the report
\* names, after a failure reproduced under the spec review that is current when the
\* report is made; and that snapshot is in scope, unless the tree was edited between
\* snapshot and scope.  Runs recorded after LoadCommands are not in it.
ReportIsBacked ==
    report.pc = "done" /\ StatusRank(report.status) >= 4 =>
       LET c == report.task
       IN  /\ Len(report.cmds) \in report.since .. Len(commands)
           /\ \A i \in DOMAIN report.cmds : report.cmds[i] = commands[i]
           /\ report.steady => CheckScope(c, report.snap.digest[1], report.snap.base) = {}
           /\ \A n \in Targets(c) :
                 LET i == LastRun(report.cmds, n)
                 IN  /\ i > 0 /\ report.cmds[i].exit = 0 /\ report.cmds[i].snap = report.snap
                     /\ Task[c].sensitive =>
                           \E k \in 1 .. i - 1 : FailsAsReviewed(report.cmds[k], c)

\* Statuses and reports above SPEC_REVIEWED rest on runs of the tree they are about.
EvidenceHolds == WorkflowTypeOK /\ VerifiedTreeWasTested /\ ReportIsBacked

\* Reviews and attempts bind the status: none is outdated, none is forgotten.
ReviewsHold == ReviewedIsCurrent /\ AttemptsNeverForgotten
=============================================================================
