--------------------------- MODULE PolicyWatcher ---------------------------
(***************************************************************************)
(* The policy watcher (internal/policy/watcher.go): NewWatcher loads the   *)
(* policy file and watches it, the loop goroutine debounces the file's     *)
(* events and reloads, and the constructor of the proxy registers the      *)
(* transaction that publishes a policy together with the redactor, audit   *)
(* patterns and approval timeout (the surfaces) under runtimeMu.           *)
(*                                                                         *)
(* w.mu is held across a registration, across the decision of a reload     *)
(* that finds no committer, and to publish; a registration takes runtimeMu *)
(* inside w.mu, a commit takes w.mu inside runtimeMu.  A version stands    *)
(* for the content of the file.  The watch is on the file, not on its      *)
(* directory: it ends with the file, and a new file has no watch.          *)
(***************************************************************************)
EXTENDS Naturals, Sequences

CONSTANTS
    Changes,   \* what editors do: a subset of {"write", "replace", "move"}
    MaxEdits   \* bound on the changes of the file

ASSUME WatcherConstants ==
    /\ Changes \subseteq {"write", "replace", "move"} /\ MaxEdits \in Nat

VARIABLES
    file,       \* [there, whole, version]
    edits,      \* changes of the file so far
    watched,    \* the file at the path has a watch
    events,     \* events the loop has not received
    main,       \* where serve is
    timer,      \* the debounce timer runs
    pending,    \* a reload is pending
    needs,      \* pendingNeedsReload
    loop,       \* where the loop goroutine is
    fresh,      \* version the reload in hand has loaded
    committer,  \* Watcher.committer # nil
    current,    \* version the registration has read
    policy,     \* version of Watcher.policy
    surfaces,   \* version of the runtime surfaces
    mu,         \* holder of w.mu
    rt,         \* holder of runtimeMu
    call        \* where a tools/call is, and the policy it evaluates

fileVars == <<file, edits>>
debounce == <<timer, pending, needs>>
locks == <<mu, rt>>
runtime == <<committer, current, policy, surfaces>>
vars == <<file, edits, watched, events, main, timer, pending, needs,
          loop, fresh, committer, current, policy, surfaces, mu, rt, call>>

Init ==
    /\ file = [there |-> TRUE, whole |-> TRUE, version |-> 1]
    /\ edits = 0 /\ watched = FALSE /\ events = <<>>
    /\ main = "load"
    /\ timer = FALSE /\ pending = FALSE /\ needs = FALSE
    /\ loop = "off" /\ fresh = 0
    /\ committer = FALSE /\ current = 0 /\ policy = 0 /\ surfaces = 0
    /\ mu = "free" /\ rt = "free"
    /\ call = [pc |-> "idle", policy |-> 0]

-----------------------------------------------------------------------------
(***************************************************************************)
(* The file.                                                               *)
(***************************************************************************)
\* inotify reports a change of a watched file.
Report(event) == events' = IF watched THEN Append(events, event) ELSE events

Edit ==
    /\ edits < MaxEdits
    /\ edits' = edits + 1
    /\ UNCHANGED <<main, debounce, loop, fresh, runtime, locks, call>>

\* An editor truncates the file ...
Truncate ==
    /\ "write" \in Changes /\ file.there /\ file.whole
    /\ Edit
    /\ file' = [file EXCEPT !.whole = FALSE, !.version = @ + 1]
    /\ Report("write")
    /\ UNCHANGED watched

\* ... and writes the new text.
Fill ==
    /\ file.there /\ ~file.whole
    /\ file' = [file EXCEPT !.whole = TRUE]
    /\ Report("write")
    /\ UNCHANGED <<edits, watched, main, debounce, loop, fresh, runtime, locks,
                   call>>

\* A finished file is renamed over the path: the old file is deleted.
Replace ==
    /\ "replace" \in Changes
    /\ Edit
    /\ file' = [there |-> TRUE, whole |-> TRUE, version |-> file.version + 1]
    /\ Report("remove")
    /\ watched' = FALSE

\* The file is moved away, or deleted.
MoveAway ==
    /\ "move" \in Changes /\ file.there
    /\ Edit
    /\ file' = [file EXCEPT !.there = FALSE]
    /\ \E event \in {"rename", "remove"} : Report(event)
    /\ watched' = FALSE

\* A file is created where there is none.
Recreate ==
    /\ "move" \in Changes /\ ~file.there
    /\ Edit
    /\ file' = [there |-> TRUE, whole |-> TRUE, version |-> file.version + 1]
    /\ UNCHANGED <<watched, events>>

-----------------------------------------------------------------------------
(***************************************************************************)
(* serve: load the policy, start the watcher, build the proxy, register.   *)
(***************************************************************************)
Loadable == file.there /\ file.whole

\* LoadFile for the configuration, from which New builds the surfaces.
LoadConfig ==
    /\ main = "load"
    /\ IF Loadable
       THEN main' = "watch" /\ surfaces' = file.version
       ELSE main' = "failed" /\ UNCHANGED surfaces
    /\ UNCHANGED <<fileVars, watched, events, debounce, loop, fresh, committer,
                   current, policy, locks, call>>

\* NewWatcher: LoadFile; on an error the policy stays static.
NewWatcher ==
    /\ main = "watch"
    /\ IF Loadable
       THEN main' = "add" /\ policy' = file.version
       ELSE main' = "static" /\ UNCHANGED policy
    /\ UNCHANGED <<fileVars, watched, events, debounce, loop, fresh, committer,
                   current, surfaces, locks, call>>

\* NewWatcher: watch the file and start the loop.
AddWatch ==
    /\ main = "add"
    /\ IF file.there
       THEN main' = "register" /\ watched' = TRUE /\ loop' = "select"
       ELSE main' = "static" /\ UNCHANGED <<watched, loop>>
    /\ UNCHANGED <<fileVars, events, debounce, fresh, runtime, locks, call>>

\* SetReloadCommitter: install the committer and read the published policy.
Register ==
    /\ main = "register" /\ mu = "free"
    /\ mu' = "main"
    /\ committer' = TRUE
    /\ current' = policy
    /\ main' = "reconcile"
    /\ UNCHANGED <<fileVars, watched, events, debounce, loop, fresh, policy,
                   surfaces, rt, call>>

\* reconcilePublishedRuntime, refreshPolicyRuntime: runtimeMu inside w.mu.
Reconcile ==
    /\ main = "reconcile" /\ rt = "free" /\ call.pc = "idle"
    /\ surfaces' = current
    /\ mu' = IF mu = "main" THEN "free" ELSE mu
    /\ main' = "serving"
    /\ UNCHANGED <<fileVars, watched, events, debounce, loop, fresh, committer,
                   current, policy, rt, call>>

\* Watcher.Close, when Run returns.
Close ==
    /\ main = "serving"
    /\ main' = "closed"
    /\ watched' = FALSE
    /\ UNCHANGED <<fileVars, events, debounce, loop, fresh, runtime, locks, call>>

-----------------------------------------------------------------------------
(***************************************************************************)
(* The loop.                                                               *)
(***************************************************************************)
\* A write, create or rename arms the timer unless one is pending; after a remove
\* the path is watched again, if there is a file.
TakeEvent ==
    /\ loop = "select" /\ events # <<>>
    /\ events' = Tail(events)
    /\ IF Head(events) = "remove"
       THEN watched' = (file.there /\ main # "closed") /\ UNCHANGED debounce
       ELSE /\ timer' = (timer \/ ~pending)
            /\ pending' = TRUE /\ needs' = TRUE
            /\ UNCHANGED watched
    /\ UNCHANGED <<fileVars, main, loop, fresh, runtime, locks, call>>

\* The timer fires.
Fire ==
    /\ loop = "select" /\ timer
    /\ timer' = FALSE /\ pending' = FALSE /\ needs' = FALSE
    /\ loop' = IF needs THEN "load" ELSE "select"
    /\ UNCHANGED <<fileVars, watched, events, main, fresh, runtime, locks, call>>

\* reload: a file that does not load keeps the current policy.
Load ==
    /\ loop = "load"
    /\ IF Loadable THEN loop' = "decide" /\ fresh' = file.version
                   ELSE loop' = "select" /\ UNCHANGED fresh
    /\ UNCHANGED <<fileVars, watched, events, main, debounce, runtime, locks,
                   call>>

\* Faulty variant: w.mu is still held when the committer is called.
FaultyMuAfterDecision == "loop"

MuAfterDecision == "free"

\* reload under w.mu: without a committer it publishes there and then.
Decide ==
    /\ loop = "decide" /\ mu = "free"
    /\ IF committer
       THEN loop' = "lock" /\ mu' = MuAfterDecision /\ UNCHANGED policy
       ELSE loop' = "select" /\ policy' = fresh /\ UNCHANGED mu
    /\ UNCHANGED <<fileVars, watched, events, main, debounce, fresh, committer,
                   current, surfaces, rt, call>>

\* commitPolicyRuntime: runtimeMu.Lock, which waits for the call in progress,
LockRuntime ==
    /\ loop = "lock" /\ rt = "free" /\ call.pc = "idle"
    /\ rt' = "loop"
    /\ loop' = "publish"
    /\ UNCHANGED <<fileVars, watched, events, main, debounce, fresh, runtime,
                   mu, call>>

\* publish,
Publish ==
    /\ loop = "publish" /\ mu = "free"
    /\ policy' = fresh
    /\ loop' = "refresh"
    /\ UNCHANGED <<fileVars, watched, events, main, debounce, fresh, committer,
                   current, surfaces, locks, call>>

\* and the surfaces, the audit record and the unlock.
Refresh ==
    /\ loop = "refresh"
    /\ surfaces' = fresh
    /\ rt' = "free"
    /\ loop' = "select"
    /\ UNCHANGED <<fileVars, watched, events, main, debounce, fresh, committer,
                   current, policy, mu, call>>

StopLoop ==
    /\ loop = "select" /\ main = "closed"
    /\ loop' = "off"
    /\ UNCHANGED <<fileVars, watched, events, main, debounce, fresh, runtime,
                   locks, call>>

-----------------------------------------------------------------------------
(***************************************************************************)
(* A tools/call: the read side of runtimeMu, and w.mu inside it.           *)
(***************************************************************************)
\* Faulty variant: the call does not take the read side.
FaultyMayBegin == TRUE

\* A writer that waits for runtimeMu keeps new readers out.
MayBegin == rt = "free" /\ loop # "lock"

BeginCall ==
    /\ main = "serving" /\ call.pc = "idle"
    /\ MayBegin
    /\ call' = [pc |-> "held", policy |-> 0]
    /\ UNCHANGED <<fileVars, watched, events, main, debounce, loop, fresh,
                   runtime, locks>>

EvaluateCall ==
    /\ call.pc = "held" /\ mu = "free"
    /\ call' = [pc |-> "evaluated", policy |-> policy]
    /\ UNCHANGED <<fileVars, watched, events, main, debounce, loop, fresh,
                   runtime, locks>>

EndCall ==
    /\ call.pc = "evaluated"
    /\ call' = [pc |-> "idle", policy |-> 0]
    /\ UNCHANGED <<fileVars, watched, events, main, debounce, loop, fresh,
                   runtime, locks>>

MainStep == LoadConfig \/ NewWatcher \/ AddWatch \/ Register \/ Reconcile
LoopStep == TakeEvent \/ Fire \/ Load \/ Decide \/ LockRuntime \/ Publish
                \/ Refresh \/ StopLoop
CallStep == EvaluateCall \/ EndCall

Next ==
    \/ Truncate \/ Fill \/ Replace \/ MoveAway \/ Recreate
    \/ MainStep \/ Close
    \/ LoopStep
    \/ BeginCall \/ CallStep

Spec == Init /\ [][Next]_vars

\* The goroutines keep running and the timer fires.  Nobody makes an editor
\* finish, a client call or the session end.
FairSpec == Spec /\ WF_vars(MainStep) /\ WF_vars(LoopStep) /\ WF_vars(CallStep)

-----------------------------------------------------------------------------
Versions == 0 .. MaxEdits + 1

\* Types of the variables.
TypeOK ==
    /\ file \in [there : BOOLEAN, whole : BOOLEAN, version : Versions]
    /\ edits \in 0 .. MaxEdits /\ watched \in BOOLEAN
    /\ events \in Seq({"write", "remove", "rename"})
    /\ main \in {"load", "watch", "add", "register", "reconcile", "serving",
                 "closed", "static", "failed"}
    /\ timer \in BOOLEAN /\ pending \in BOOLEAN /\ needs \in BOOLEAN
    /\ loop \in {"off", "select", "load", "decide", "lock", "publish", "refresh"}
    /\ fresh \in Versions /\ committer \in BOOLEAN
    /\ current \in Versions /\ policy \in Versions /\ surfaces \in Versions
    /\ mu \in {"free", "main"} /\ rt \in {"free", "loop"}
    /\ call \in [pc : {"idle", "held", "evaluated"}, policy : Versions]

\* Whenever runtimeMu is free in a serving proxy the surfaces are those of the
\* published policy, whatever reloads raced with the registration.
SurfacesMatchPolicy ==
    main \in {"serving", "closed"} /\ rt = "free" => surfaces = policy

\* A call is redacted, audited and evaluated under one version.
CallSeesOneVersion ==
    call.pc = "evaluated" => call.policy = surfaces /\ surfaces = policy

Stored(v) == file = [there |-> TRUE, whole |-> TRUE, version |-> v]

\* An edit of the watched file is published, unless the file changes again or
\* the proxy closes.
EditIsPublished ==
    \A v \in Versions :
        (Stored(v) /\ watched /\ events # <<>> /\ main = "serving")
            ~> (policy = v \/ ~Stored(v) \/ main = "closed")
=============================================================================
