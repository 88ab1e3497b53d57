------------------------ MODULE PolicyWatcherProofs ------------------------
(***************************************************************************)
(* The publication of a policy together with its runtime surfaces, for any *)
(* number and kind of edits.  SurfacesMatchPolicy is not inductive: it     *)
(* holds because a reload reaches the commit only after the registration   *)
(* has reconciled, because nothing publishes while it does, and because    *)
(* the commit holds runtimeMu from before the publication until after the  *)
(* surfaces.  IndInv says this.                                            *)
(***************************************************************************)
EXTENDS PolicyWatcher, TLAPS

Registered == {"reconcile", "serving", "closed"}
Committing == {"lock", "publish", "refresh"}

\* Who holds the locks, and when.
LockInv ==
    /\ mu = "main" <=> main = "reconcile"
    /\ rt = "loop" <=> loop \in {"publish", "refresh"}
    /\ call.pc # "idle" => rt = "free" /\ main \in {"serving", "closed"}

\* A commit follows the registration.
OrderInv ==
    /\ committer <=> main \in Registered
    /\ loop \in Committing => main \in {"serving", "closed"}

\* What the versions are.
VersionInv ==
    /\ main = "reconcile" => current = policy
    /\ loop = "refresh" => policy = fresh
    /\ main \in {"serving", "closed"} /\ loop # "refresh" => surfaces = policy
    /\ call.pc = "evaluated" => call.policy = policy

\* The version in the file counts the edits, and no other version is larger.
BoundInv == file.version <= edits + 1

IndInv == TypeOK /\ BoundInv /\ LockInv /\ OrderInv /\ VersionInv

-----------------------------------------------------------------------------
\* The first state satisfies the invariant.
LEMMA InitInv == Init => IndInv
<1> SUFFICES ASSUME Init PROVE IndInv
  OBVIOUS
<1>1. 0 \in Versions /\ 1 \in Versions /\ 0 \in 0 .. MaxEdits
  BY WatcherConstants DEF Versions
<1>2. events \in Seq({"write", "remove", "rename"})
  BY DEF Init
<1>3. TypeOK
  BY <1>1, <1>2 DEF Init, TypeOK
<1>4. BoundInv
  BY DEF Init, BoundInv
<1>5. LockInv /\ OrderInv /\ VersionInv
  BY DEF Init, LockInv, OrderInv, VersionInv, Registered, Committing
<1> QED BY <1>3, <1>4, <1>5 DEF IndInv

\* One more edit may use one more version.
LEMMA NextVersion ==
    ASSUME IndInv, Edit
    PROVE  /\ file.version + 1 \in Versions
           /\ file.version + 1 <= edits' + 1
           /\ file.version <= edits' + 1
           /\ edits' \in 0 .. MaxEdits
  BY WatcherConstants DEF IndInv, TypeOK, BoundInv, Edit, Versions

\* What a change of the file leaves of the types.
Rest ==
    /\ UNCHANGED <<main, debounce, loop, fresh, runtime, locks, call>>

\* A change of the file touches nothing the runtime holds.
LEMMA FileStep ==
    ASSUME IndInv, Truncate \/ Fill \/ Replace \/ MoveAway \/ Recreate
    PROVE  IndInv'
<1>1. Rest
  BY DEF Truncate, Fill, Replace, MoveAway, Recreate, Edit, Rest
<1>2. LockInv' /\ OrderInv' /\ VersionInv'
  BY <1>1 DEF Rest, IndInv, LockInv, OrderInv, VersionInv, runtime, locks,
     debounce, Registered, Committing
<1>3. events' \in Seq({"write", "remove", "rename"}) /\ watched' \in BOOLEAN
  <2>1. events \in Seq({"write", "remove", "rename"}) /\ watched \in BOOLEAN
    BY DEF IndInv, TypeOK
  <2>2. \A e \in {"write", "remove", "rename"} :
            Report(e) => events' \in Seq({"write", "remove", "rename"})
    BY <2>1 DEF Report
  <2>3. UNCHANGED events \/ \E e \in {"write", "remove", "rename"} : Report(e)
    BY DEF Truncate, Fill, Replace, MoveAway, Recreate
  <2>4. UNCHANGED watched \/ watched' = FALSE
    BY DEF Truncate, Fill, Replace, MoveAway, Recreate
  <2> QED BY <2>1, <2>2, <2>3, <2>4
<1>4. /\ file' \in [there : BOOLEAN, whole : BOOLEAN, version : Versions]
      /\ edits' \in 0 .. MaxEdits
      /\ file'.version <= edits' + 1
  <2>1. file \in [there : BOOLEAN, whole : BOOLEAN, version : Versions]
    BY DEF IndInv, TypeOK
  <2>2. CASE Truncate
    <3>1. Edit
      BY <2>2 DEF Truncate
    <3> QED BY <2>1, <2>2, <3>1, NextVersion DEF Truncate
  <2>3. CASE Fill
    BY <2>1, <2>3 DEF Fill, IndInv, TypeOK, BoundInv
  <2>4. CASE Replace
    <3>1. Edit
      BY <2>4 DEF Replace
    <3> QED BY <2>1, <2>4, <3>1, NextVersion DEF Replace
  <2>5. CASE MoveAway
    <3>1. Edit
      BY <2>5 DEF MoveAway
    <3> QED BY <2>1, <2>5, <3>1, NextVersion DEF MoveAway
  <2>6. CASE Recreate
    <3>1. Edit
      BY <2>6 DEF Recreate
    <3> QED BY <2>1, <2>6, <3>1, NextVersion DEF Recreate
  <2> QED BY <2>2, <2>3, <2>4, <2>5, <2>6
<1>5. TypeOK' /\ BoundInv'
  BY <1>1, <1>3, <1>4 DEF Rest, IndInv, TypeOK, BoundInv, Versions, runtime,
     locks, debounce
<1> QED BY <1>2, <1>5 DEF IndInv

\* The steps of serve.
LEMMA ServeStep ==
    ASSUME IndInv, MainStep \/ Close
    PROVE  IndInv'
<1> USE WatcherConstants DEF IndInv, TypeOK, BoundInv, LockInv, OrderInv,
        VersionInv, Versions, runtime, locks, debounce, fileVars, Registered,
        Committing
<1>1. CASE LoadConfig BY <1>1 DEF LoadConfig, Loadable
<1>2. CASE NewWatcher BY <1>2 DEF NewWatcher, Loadable
<1>3. CASE AddWatch BY <1>3 DEF AddWatch
<1>4. CASE Register BY <1>4 DEF Register
<1>5. CASE Reconcile BY <1>5 DEF Reconcile
<1>6. CASE Close
  <2>1. /\ main = "serving" /\ main' = "closed" /\ watched' = FALSE
        /\ UNCHANGED <<file, edits, events, timer, pending, needs, loop, fresh,
                       committer, current, policy, surfaces, mu, rt, call>>
    BY <1>6 DEF Close
  <2>2. TypeOK'
    BY <2>1
  <2>3. BoundInv' /\ LockInv' /\ OrderInv' /\ VersionInv'
    BY <2>1
  <2> QED BY <2>2, <2>3
<1> QED BY <1>1, <1>2, <1>3, <1>4, <1>5, <1>6 DEF MainStep

\* The steps of the loop.
LEMMA WatchStep ==
    ASSUME IndInv, LoopStep
    PROVE  IndInv'
<1> USE WatcherConstants DEF IndInv, TypeOK, BoundInv, LockInv, OrderInv,
        VersionInv, Versions, runtime, locks, debounce, fileVars, Registered,
        Committing
<1>1. CASE TakeEvent
  <2>1. events' \in Seq({"write", "remove", "rename"})
    BY <1>1 DEF TakeEvent
  <2>2. timer' \in BOOLEAN /\ pending' \in BOOLEAN /\ needs' \in BOOLEAN
    BY <1>1 DEF TakeEvent
  <2>3. watched' \in BOOLEAN
    BY <1>1 DEF TakeEvent
  <2>4. UNCHANGED <<file, edits, main, loop, fresh, committer, current, policy,
                    surfaces, mu, rt, call>>
    BY <1>1 DEF TakeEvent
  <2> QED BY <2>1, <2>2, <2>3, <2>4
<1>2. CASE Fire BY <1>2 DEF Fire
<1>3. CASE Load BY <1>3 DEF Load, Loadable
<1>4. CASE Decide BY <1>4 DEF Decide, MuAfterDecision
<1>5. CASE LockRuntime BY <1>5 DEF LockRuntime
<1>6. CASE Publish BY <1>6 DEF Publish
<1>7. CASE Refresh BY <1>7 DEF Refresh
<1>8. CASE StopLoop BY <1>8 DEF StopLoop
<1> QED BY <1>1, <1>2, <1>3, <1>4, <1>5, <1>6, <1>7, <1>8 DEF LoopStep

\* The steps of a call.
LEMMA RequestStep ==
    ASSUME IndInv, BeginCall \/ CallStep
    PROVE  IndInv'
<1> USE WatcherConstants DEF IndInv, TypeOK, BoundInv, LockInv, OrderInv,
        VersionInv, Versions, runtime, locks, debounce, fileVars, Registered,
        Committing
<1>1. CASE BeginCall BY <1>1 DEF BeginCall, MayBegin
<1>2. CASE EvaluateCall BY <1>2 DEF EvaluateCall
<1>3. CASE EndCall BY <1>3 DEF EndCall
<1> QED BY <1>1, <1>2, <1>3 DEF CallStep

\* The invariant is inductive.
LEMMA Inductive == Spec => []IndInv
<1>1. IndInv /\ [Next]_vars => IndInv'
  <2> SUFFICES ASSUME IndInv, [Next]_vars PROVE IndInv'
    OBVIOUS
  <2>1. CASE UNCHANGED vars
    BY <2>1 DEF vars, IndInv, TypeOK, BoundInv, LockInv, OrderInv, VersionInv,
       Versions, Registered, Committing
  <2> QED BY <2>1, FileStep, ServeStep, WatchStep, RequestStep DEF Next
<1> QED BY <1>1, InitInv, PTL DEF Spec

-----------------------------------------------------------------------------
\* The variables of the watcher keep their types, and the version counters
\* their bounds, for every number and kind of edits.
THEOREM TypeCorrect == Spec => []TypeOK
  BY Inductive, PTL DEF IndInv

\* SetReloadCommitter and reload together never leave the redactor, the audit
\* patterns and the approval timeout of one policy beside the rules of another.
THEOREM SurfacesHold == Spec => []SurfacesMatchPolicy
<1>1. IndInv => SurfacesMatchPolicy
  BY DEF IndInv, TypeOK, LockInv, OrderInv, VersionInv, SurfacesMatchPolicy
<1> QED BY <1>1, Inductive, PTL

\* A tools/call that holds the read side of runtimeMu is evaluated under the
\* policy whose surfaces it is redacted and audited with.
THEOREM CallsHold == Spec => []CallSeesOneVersion
<1>1. IndInv => CallSeesOneVersion
  BY DEF IndInv, TypeOK, LockInv, OrderInv, VersionInv, CallSeesOneVersion
<1> QED BY <1>1, Inductive, PTL
=============================================================================
