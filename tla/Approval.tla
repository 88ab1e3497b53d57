------------------------------ MODULE Approval ------------------------------
(***************************************************************************)
(* The approval backends of internal/approval/engine.go as requestApproval *)
(* of the proxy uses them.  The file backend writes req-ID.json, polls for *)
(* req-ID.ok and req-ID.no and removes the three files when it is done,    *)
(* whether or not the removes succeed; the CLI backend starts a goroutine  *)
(* that reads one line of standard input and abandons it on a timeout.  An *)
(* ID is the session, the tool and the number of calls recorded so far, so *)
(* it comes back after a refused call.                                     *)
(*                                                                         *)
(* The loop of the proxy makes one request at a time; requests have        *)
(* numbers.  The operator reads a request file and answers it later.       *)
(* Standard input is the stream of the MCP client in both proxies, so a    *)
(* line of it is the client's or the operator's, and nothing tells which.  *)
(***************************************************************************)
EXTENDS Naturals, FiniteSets

CONSTANTS
    Tools,       \* tools whose calls need approval
    Modes,       \* ways the proxy is run: the "cli" backend, or the file backend
                 \* with an operator who is "prompt" or may answer "late"
    MaxRequests, \* bound on the requests
    MaxOthers,   \* bound on the calls recorded without an approval
    MaxCrashes,  \* bound on the restarts under the same session ID
    MaxYeses,    \* bound on the approvals given with files
    MaxFailures  \* bound on the removes that fail

ASSUME ApprovalConstants ==
    /\ Modes \subseteq {"cli", "prompt", "late"}
    /\ MaxRequests \in Nat /\ MaxOthers \in Nat /\ MaxCrashes \in Nat
    /\ MaxYeses \in Nat /\ MaxFailures \in Nat

VARIABLES
    mode,     \* how this proxy is run
    pc,       \* where the request in hand is
    number,   \* number of the request in hand, and of the requests so far
    tool,     \* its tool
    asked,    \* tool of every request
    count,    \* Session.ToolCallCount
    others,   \* calls recorded without an approval
    crashes,  \* restarts so far
    verdict,  \* what the wait returns once the files are removed
    reqs,     \* req-ID.json: ID -> number of the request in the file, 0 if none
    oks,      \* IDs with a file req-ID.ok
    nos,      \* IDs with a file req-ID.no
    failures, \* removes that failed so far
    readers,  \* numbers of the requests whose goroutine reads standard input
    read,     \* what the goroutine of the request in hand has sent
    answers,  \* answers the operator has decided on and not yet given
    yeses,    \* approvals given, with files or as a line
    answered, \* requests the operator decided to approve, or for which a yes came
              \* on standard input while they were waiting, whoever wrote it
    granted   \* requests for which the backend returned true

files == <<reqs, oks, nos>>
vars == <<mode, pc, number, tool, asked, count, others, crashes, verdict, reqs,
          oks, nos, failures, readers, read, answers, yeses, answered, granted>>

Counts == 0 .. MaxRequests + MaxOthers
IDs == Tools \X Counts

\* The ID of a request: session, tool and calls recorded so far.
RequestID(t) == <<t, count>>

ID == RequestID(tool)

Init ==
    /\ mode \in Modes
    /\ pc = "idle" /\ number = 0 /\ tool \in Tools /\ asked = <<>>
    /\ count = 0 /\ others = 0 /\ crashes = 0
    /\ verdict = FALSE
    /\ reqs = [id \in IDs |-> 0] /\ oks = {} /\ nos = {}
    /\ failures = 0 /\ readers = {} /\ read = "nothing"
    /\ answers = {} /\ yeses = 0
    /\ answered = {} /\ granted = {}

-----------------------------------------------------------------------------
(***************************************************************************)
(* The proxy.                                                              *)
(***************************************************************************)
\* The channels of a CLI request are its own.
\* Faulty variant: one channel serves all requests.
FaultyMakeChannels == UNCHANGED read

MakeChannels == read' = "nothing"

\* RequestApprovalWithTimeout: write the request, or start a reader.
Ask(t) ==
    /\ pc = "idle" /\ number < MaxRequests
    /\ number' = number + 1
    /\ tool' = t
    /\ asked' = [i \in 1 .. number + 1 |-> IF i <= number THEN asked[i] ELSE t]
    /\ pc' = "wait"
    /\ IF mode # "cli"
       THEN /\ reqs' = [reqs EXCEPT ![RequestID(t)] = number + 1]
            /\ UNCHANGED <<readers, read>>
       ELSE /\ readers' = readers \cup {number + 1}
            /\ MakeChannels
            /\ UNCHANGED reqs
    /\ UNCHANGED <<mode, failures, count, others, crashes, verdict, oks, nos, answers,
                   yeses, answered, granted>>

\* The request cannot be written, or its ID is no file name.
AskFails(t) ==
    /\ pc = "idle" /\ number < MaxRequests /\ mode # "cli"
    /\ number' = number + 1
    /\ tool' = t
    /\ asked' = [i \in 1 .. number + 1 |-> IF i <= number THEN asked[i] ELSE t]
    /\ UNCHANGED <<mode, failures, pc, count, others, crashes, verdict, files, readers,
                   read, answers, yeses, answered, granted>>

\* One tick of waitForDecision: an approval is looked for before a rejection.
Poll ==
    /\ pc = "wait" /\ mode # "cli"
    /\ ID \in oks \cup nos
    /\ verdict' = (ID \in oks)
    /\ pc' = "cleanup"
    /\ UNCHANGED <<mode, failures, number, tool, asked, count, others, crashes, files,
                   readers, read, answers, yeses, answered, granted>>

\* The timeout; the CLI reader stays behind.
Timeout ==
    /\ pc = "wait"
    /\ verdict' = FALSE
    /\ pc' = IF mode # "cli" THEN "cleanup" ELSE "done"
    /\ UNCHANGED <<mode, failures, number, tool, asked, count, others, crashes, files,
                   readers, read, answers, yeses, answered, granted>>

\* cleanup: three removes, each of which may fail; nobody looks at the errors.
\* Faulty variant: only the request is removed.
FaultyRemoveAnswers(okStays, noStays) == UNCHANGED <<oks, nos>>

RemoveAnswers(okStays, noStays) ==
    /\ oks' = IF okStays THEN oks ELSE oks \ {ID}
    /\ nos' = IF noStays THEN nos ELSE nos \ {ID}

RemoveRequest ==
    /\ pc = "cleanup"
    /\ \/ reqs' = [reqs EXCEPT ![ID] = 0] /\ UNCHANGED failures
       \/ failures < MaxFailures /\ failures' = failures + 1 /\ UNCHANGED reqs
    /\ pc' = "cleanup2"
    /\ UNCHANGED <<mode, number, tool, asked, count, others, crashes, verdict,
                   oks, nos, readers, read, answers, yeses, answered, granted>>

RemoveVerdict(okStays, noStays) ==
    /\ pc = "cleanup2"
    /\ RemoveAnswers(okStays, noStays)
    /\ failures' = failures + (IF okStays THEN 1 ELSE 0) + (IF noStays THEN 1 ELSE 0)
    /\ failures' <= MaxFailures
    /\ pc' = "done"
    /\ UNCHANGED <<mode, number, tool, asked, count, others, crashes, verdict,
                   reqs, readers, read, answers, yeses, answered, granted>>

\* The line the request's own goroutine read.
TakeLine ==
    /\ pc = "wait" /\ mode = "cli" /\ read # "nothing"
    /\ verdict' = (read = "yes")
    /\ pc' = "done"
    /\ UNCHANGED <<mode, failures, number, tool, asked, count, others, crashes, files,
                   readers, read, answers, yeses, answered, granted>>

\* The calls recorded after an approval: one more, unless a recheck or the
\* commit denies the call.
Recorded == {count, count + 1}

\* The wait returns; a refused call is never recorded.
Return ==
    /\ pc = "done"
    /\ granted' = IF verdict THEN granted \cup {number} ELSE granted
    /\ count' \in IF verdict THEN Recorded ELSE {count}
    /\ pc' = "idle"
    /\ UNCHANGED <<mode, failures, number, tool, asked, others, crashes, verdict, files,
                   readers, read, answers, yeses, answered>>

\* A call that needs no approval is recorded.
OtherCall ==
    /\ pc = "idle" /\ others < MaxOthers
    /\ others' = others + 1
    /\ count' = count + 1
    /\ UNCHANGED <<mode, failures, pc, number, tool, asked, crashes, verdict, files,
                   readers, read, answers, yeses, answered, granted>>

\* The proxy dies and is started again with the same --session-id.
Restart ==
    /\ crashes < MaxCrashes
    /\ crashes' = crashes + 1
    /\ pc' = "idle" /\ count' = 0 /\ readers' = {}
    /\ UNCHANGED <<mode, failures, number, tool, asked, others, verdict, files, read,
                   answers, yeses, answered, granted>>

-----------------------------------------------------------------------------
(***************************************************************************)
(* The operator.                                                           *)
(***************************************************************************)
\* The operator reads a pending request and decides.
Consider(id, yes) ==
    /\ mode # "cli" /\ reqs[id] # 0 /\ answers = {}
    /\ yes => yeses < MaxYeses
    /\ answers' = {[id |-> id, number |-> reqs[id], yes |-> yes]}
    /\ answered' = IF yes THEN answered \cup {reqs[id]} ELSE answered
    /\ UNCHANGED <<mode, failures, pc, number, tool, asked, count, others, crashes,
                   verdict, files, readers, read, yeses, granted>>

Answer(a) ==
    /\ mode = "late" \/ reqs[a.id] = a.number
    /\ answers' = {}
    /\ yeses' = IF a.yes THEN yeses + 1 ELSE yeses
    /\ oks' = IF a.yes THEN oks \cup {a.id} ELSE oks
    /\ nos' = IF a.yes THEN nos ELSE nos \cup {a.id}
    /\ UNCHANGED <<mode, failures, pc, number, tool, asked, count, others, crashes,
                   verdict, reqs, readers, read, answered, granted>>

\* The operator thinks better of it.
Withhold ==
    /\ answers # {} /\ answers' = {}
    /\ UNCHANGED <<mode, failures, pc, number, tool, asked, count, others, crashes,
                   verdict, files, readers, read, yeses, answered, granted>>

\* A line comes on standard input.  Any goroutine that still reads it may get it,
\* be it the one of the request in hand or one left behind by a timeout.
Line(r, line) ==
    /\ mode = "cli"
    /\ r \in readers
    /\ readers' = readers \ {r}
    /\ yeses' = IF line = "yes" THEN yeses + 1 ELSE yeses
    /\ answered' = IF line = "yes" /\ pc = "wait" THEN answered \cup {number} ELSE answered
    /\ read' = IF r = number THEN line ELSE read
    /\ UNCHANGED <<mode, pc, number, tool, asked, count, others, crashes,
                   verdict, files, failures, answers, granted>>

ProxyStep ==
    \/ Poll \/ RemoveRequest \/ TakeLine \/ Return
    \/ \E okStays, noStays \in BOOLEAN : RemoveVerdict(okStays, noStays)

Next ==
    \/ \E t \in Tools : Ask(t) \/ AskFails(t)
    \/ ProxyStep \/ Timeout \/ OtherCall \/ Restart
    \/ \E id \in IDs, yes \in BOOLEAN : Consider(id, yes)
    \/ \E a \in answers : Answer(a)
    \/ Withhold
    \/ \E r \in readers, line \in {"yes", "no"} : Line(r, line)

Spec == Init /\ [][Next]_vars

-----------------------------------------------------------------------------
\* Types of the variables.
TypeOK ==
    /\ mode \in Modes
    /\ pc \in {"idle", "wait", "cleanup", "cleanup2", "done"}
    /\ number \in 0 .. MaxRequests /\ tool \in Tools
    /\ asked \in [1 .. number -> Tools]
    /\ count \in Counts /\ others \in 0 .. MaxOthers
    /\ crashes \in 0 .. MaxCrashes
    /\ verdict \in BOOLEAN
    /\ reqs \in [IDs -> 0 .. number] /\ oks \subseteq IDs /\ nos \subseteq IDs
    /\ failures \in Nat
    /\ readers \subseteq 1 .. number /\ read \in {"nothing", "yes", "no"}
    /\ answers \subseteq [id : IDs, number : 1 .. number, yes : BOOLEAN]
    /\ yeses \in Nat
    /\ answered \subseteq 1 .. number /\ granted \subseteq 1 .. number

\* A granted request is one that was answered with a yes of its own.  On the CLI a
\* yes came on standard input while its prompt stood, and not one that a reader
\* left behind by an earlier request took; with files the operator approved this
\* request, unless an answer comes late, outlives its process or is not removed.
GrantWasAnswered ==
    mode = "cli" \/ (mode = "prompt" /\ crashes = 0 /\ failures = 0) => granted \subseteq answered

\* However late answers are, whichever reader gets a line, whatever cannot be removed
\* and across restarts, a yes never authorizes a call of another tool than it was given for.
ApprovalStaysWithTool ==
    \A n \in granted : \E m \in answered : m <= n /\ asked[m] = asked[n]

\* One yes is spent on a second request only where its file could not be removed: over
\* late answers, restarts and reused IDs there are no more grants than yeses and failed
\* removes together.
OneGrantPerAnswer == Cardinality(granted) <= yeses + failures

\* Late answers, reused IDs, failing removes and restarts mix up neither tools nor
\* grants: a yes stays with its tool, and each grant has spent a yes or met a failed remove.
LateAnswersAreBound == TypeOK /\ ApprovalStaysWithTool /\ OneGrantPerAnswer
=============================================================================
