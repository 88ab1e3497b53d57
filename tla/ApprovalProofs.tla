--------------------------- MODULE ApprovalProofs ---------------------------
(***************************************************************************)
(* The file and CLI approval backends for any tools and any number of      *)
(* requests, restarts and answers.  A file req-ID.ok is a yes that is not   *)
(* yet spent, and stays with the tool in its ID; it is spent by the removal *)
(* that comes before the wait returns, and a removal that fails is what may *)
(* pay for a grant in its place.                                            *)
(***************************************************************************)
EXTENDS Approval, DurableApproval, FiniteSetTheorems, WellFoundedInduction, TLAPS

\* The request in hand was the last one asked, and its call is not yet recorded.
RequestInv ==
    /\ count <= number + others
    /\ pc # "idle" => number >= 1 /\ asked[number] = tool /\ count < number + others
    /\ pc \in {"cleanup", "cleanup2"} => mode # "cli"
    /\ mode = "cli" => oks = {} /\ answers = {}

\* Whatever stands for an answer - a request file, an answer under way, an
\* approval file, a verdict - stands for one about the same tool.
ToolInv ==
    /\ \A id \in IDs : reqs[id] # 0 => asked[reqs[id]] = id[1]
    /\ \A a \in answers : asked[a.number] = a.id[1] /\ (a.yes => a.number \in answered)
    /\ \A id \in oks : \E m \in answered : asked[m] = id[1]
    /\ pc \in {"cleanup", "cleanup2"} /\ verdict => ID \in oks
    /\ pc = "done" /\ verdict => \E m \in answered : asked[m] = tool
    /\ ApprovalStaysWithTool

\* On the CLI a line its own goroutine read is about the request in hand.
LineInv ==
    mode = "cli" => /\ pc = "wait" /\ read = "yes" => number \in answered
                    /\ pc = "done" /\ verdict => number \in answered

\* Without late answers, restarts and failing removes the files are about the
\* request in hand.
PromptInv ==
    mode = "prompt" /\ crashes = 0 /\ failures = 0 =>
       /\ \A id \in IDs : reqs[id] # 0 => pc \in {"wait", "cleanup"} /\ id = ID /\ reqs[id] = number
       /\ oks # {} => pc \in {"wait", "cleanup", "cleanup2"} /\ oks = {ID} /\ number \in answered
       /\ pc = "done" /\ verdict => number \in answered

\* A yes that has left the file, or was read from standard input, and is not yet returned.
InHand == IF (verdict /\ pc = "done") \/ (mode = "cli" /\ pc = "wait" /\ read = "yes") THEN 1 ELSE 0

\* Grants, approval files and the yes in hand together are no more than the yeses
\* given and the removes that failed.
SpentInv == IsFiniteSet(oks) /\ Cardinality(granted) + Cardinality(oks) + InHand <= yeses + failures

IndInv == TypeOK /\ RequestInv /\ ToolInv /\ LineInv /\ PromptInv /\ GrantWasAnswered /\ SpentInv
-----------------------------------------------------------------------------
(***************************************************************************)
(* Helpers.                                                                *)
(***************************************************************************)
LEMMA IDOf == ASSUME TypeOK PROVE ID = <<tool, count>> /\ ID \in IDs /\ ID[1] = tool
  BY DEF TypeOK, ID, RequestID, IDs

\* A further request is asked.
LEMMA AskedGrows ==
    ASSUME TypeOK, NEW t \in Tools, number < MaxRequests, number' = number + 1,
           asked' = [i \in 1 .. number + 1 |-> IF i <= number THEN asked[i] ELSE t]
    PROVE  /\ number' \in 0 .. MaxRequests /\ number \in Nat /\ 1 .. number \subseteq 1 .. number'
           /\ asked' \in [1 .. number' -> Tools] /\ asked'[number'] = t
           /\ \A i \in 1 .. number : asked'[i] = asked[i]
  BY ApprovalConstants DEF TypeOK

LEMMA Numbers ==
    ASSUME TypeOK
    PROVE  /\ number \in Nat /\ others \in Nat /\ count \in Nat /\ crashes \in Nat
           /\ MaxRequests \in Nat /\ MaxOthers \in Nat /\ MaxCrashes \in Nat /\ failures \in Nat
           /\ number <= MaxRequests /\ others <= MaxOthers /\ crashes <= MaxCrashes
           /\ \A n \in Nat : n <= MaxRequests + MaxOthers => n \in Counts
  BY ApprovalConstants DEF TypeOK, Counts

LEMMA InitInd == ASSUME Init PROVE IndInv
  <1>1. TypeOK
    <2>1. number = 0 /\ 1 .. number = {} /\ 0 \in Counts
      BY ApprovalConstants DEF Init, Counts
    <2>2. asked \in [1 .. number -> Tools] /\ reqs \in [IDs -> 0 .. number]
      BY <2>1 DEF Init
    <2>3. 0 \in 0 .. MaxRequests /\ 0 \in 0 .. MaxOthers /\ 0 \in 0 .. MaxCrashes /\ 0 \in Nat
      BY ApprovalConstants
    <2>4. reqs \in [IDs -> 0 .. number] /\ oks = {} /\ nos = {} /\ readers = {} /\ answers = {}
          /\ answered = {} /\ granted = {}
      BY <2>2 DEF Init
    <2>5. failures = 0 /\ others = 0 /\ crashes = 0 /\ count = 0 /\ yeses = 0
      BY DEF Init
    <2> QED
      BY <2>1, <2>2, <2>3, <2>4, <2>5 DEF Init, TypeOK
  <1>2. RequestInv /\ ToolInv /\ LineInv /\ PromptInv /\ GrantWasAnswered
    BY DEF Init, RequestInv, ToolInv, LineInv, PromptInv, GrantWasAnswered, ApprovalStaysWithTool
  <1>3. SpentInv
    BY FS_EmptySet DEF Init, SpentInv, InHand
  <1> QED
    BY <1>1, <1>2, <1>3 DEF IndInv

(***************************************************************************)
(* The steps, for each part of the invariant.                              *)
(***************************************************************************)
LEMMA TypeStep == ASSUME IndInv, [Next]_vars PROVE TypeOK'
  <1> USE DEF files
  <1>1. ASSUME NEW t \in Tools, Ask(t) PROVE TypeOK'
    <2>1. /\ number < MaxRequests /\ number' = number + 1 /\ tool' = t
          /\ asked' = [i \in 1 .. number + 1 |-> IF i <= number THEN asked[i] ELSE t]
      BY <1>1 DEF Ask
    <2>2. /\ number' \in 0 .. MaxRequests /\ number \in Nat /\ 1 .. number \subseteq 1 .. number'
          /\ asked' \in [1 .. number' -> Tools] /\ asked'[number'] = t
          /\ \A i \in 1 .. number : asked'[i] = asked[i]
      BY <2>1, AskedGrows DEF IndInv
    <2>3. 0 .. number \subseteq 0 .. number' /\ number + 1 \in 0 .. number' /\ number + 1 \in 1 .. number'
      BY <2>1, <2>2
    <2>4. RequestID(t) \in IDs
      BY DEF IndInv, TypeOK, RequestID, IDs
    <2>5. reqs' \in [IDs -> 0 .. number']
      <3>1. reqs \in [IDs -> 0 .. number']
        BY <2>3 DEF IndInv, TypeOK
      <3> QED
        BY <1>1, <2>3, <2>4, <3>1 DEF Ask
    <2>6. answers' \subseteq [id : IDs, number : 1 .. number', yes : BOOLEAN]
      BY <1>1, <2>2 DEF IndInv, TypeOK, Ask
    <2>7. readers' \subseteq 1 .. number' /\ read' \in {"nothing", "yes", "no"}
      BY <1>1, <2>2, <2>3 DEF IndInv, TypeOK, Ask, MakeChannels
    <2> QED
      BY <1>1, <2>1, <2>2, <2>5, <2>6, <2>7 DEF IndInv, TypeOK, Ask
  <1>2. ASSUME NEW t \in Tools, AskFails(t) PROVE TypeOK'
    <2>1. /\ number < MaxRequests /\ number' = number + 1 /\ tool' = t
          /\ asked' = [i \in 1 .. number + 1 |-> IF i <= number THEN asked[i] ELSE t]
      BY <1>2 DEF AskFails
    <2>2. /\ number' \in 0 .. MaxRequests /\ number \in Nat /\ 1 .. number \subseteq 1 .. number'
          /\ asked' \in [1 .. number' -> Tools] /\ asked'[number'] = t
          /\ \A i \in 1 .. number : asked'[i] = asked[i]
      BY <2>1, AskedGrows DEF IndInv
    <2>3. 0 .. number \subseteq 0 .. number'
      BY <2>1, <2>2
    <2>4. reqs' \in [IDs -> 0 .. number']
      BY <1>2, <2>3 DEF IndInv, TypeOK, AskFails
    <2>5. answers' \subseteq [id : IDs, number : 1 .. number', yes : BOOLEAN]
      BY <1>2, <2>2 DEF IndInv, TypeOK, AskFails
    <2> QED
      BY <1>2, <2>1, <2>2, <2>4, <2>5 DEF IndInv, TypeOK, AskFails
  <1>3. CASE Poll
    BY <1>3 DEF IndInv, TypeOK, RequestInv, Poll
  <1>4. CASE RemoveRequest
    <2>0. 0 \in 0 .. number
      BY Numbers DEF IndInv
    <2>1. reqs' \in [IDs -> 0 .. number]
      BY <1>4, <2>0 DEF IndInv, TypeOK, RemoveRequest
    <2> QED
      BY <1>4, <2>1 DEF IndInv, TypeOK, RemoveRequest
  <1>5. ASSUME NEW okStays \in BOOLEAN, NEW noStays \in BOOLEAN, RemoveVerdict(okStays, noStays) PROVE TypeOK'
    <2>1. failures' \in Nat
      BY <1>5 DEF IndInv, TypeOK, RemoveVerdict
    <2> QED
      BY <1>5, <2>1 DEF IndInv, TypeOK, RequestInv, RemoveVerdict, RemoveAnswers
  <1>6. CASE TakeLine
    BY <1>6 DEF IndInv, TypeOK, RequestInv, TakeLine
  <1>7. CASE Return
    <2>1. number >= 1 /\ count < number + others /\ count' \in {count, count + 1}
      BY <1>7 DEF IndInv, RequestInv, Return, Recorded
    <2>2. count' \in Counts /\ number \in 1 .. number
      BY <2>1, Numbers DEF IndInv
    <2>3. granted' \subseteq 1 .. number
      BY <1>7, <2>2 DEF IndInv, TypeOK, Return
    <2> QED
      BY <1>7, <2>2, <2>3 DEF IndInv, TypeOK, Return
  <1>8. CASE Timeout
    BY <1>8 DEF IndInv, TypeOK, RequestInv, Timeout
  <1>9. CASE OtherCall
    <2>1. count' = count + 1 /\ others' = others + 1 /\ others < MaxOthers /\ count <= number + others
      BY <1>9 DEF IndInv, RequestInv, OtherCall
    <2>2. count' \in Counts /\ others' \in 0 .. MaxOthers
      BY <2>1, Numbers DEF IndInv
    <2> QED
      BY <1>9, <2>2 DEF IndInv, TypeOK, OtherCall
  <1>10. CASE Restart
    <2>1. count' \in Counts /\ crashes' \in 0 .. MaxCrashes
      BY <1>10, Numbers DEF IndInv, Restart
    <2> QED
      BY <1>10, <2>1 DEF IndInv, TypeOK, Restart
  <1>11. ASSUME NEW id \in IDs, NEW yes \in BOOLEAN, Consider(id, yes) PROVE TypeOK'
    <2>1. reqs[id] \in 1 .. number
      BY <1>11, Numbers DEF IndInv, TypeOK, Consider
    <2>2. answers' \subseteq [id : IDs, number : 1 .. number, yes : BOOLEAN] /\ answered' \subseteq 1 .. number
      <3>1. PICK n \in 1 .. number : n = reqs[id]
        BY <2>1
      <3>2. [id |-> id, number |-> n, yes |-> yes] \in [id : IDs, number : 1 .. number, yes : BOOLEAN]
        BY <3>1
      <3>3. answers' = {[id |-> id, number |-> n, yes |-> yes]}
        BY <1>11, <3>1 DEF Consider
      <3> QED
        BY <1>11, <3>1, <3>2, <3>3 DEF IndInv, TypeOK, Consider
    <2> QED
      BY <1>11, <2>2 DEF IndInv, TypeOK, Consider
  <1>12. ASSUME NEW a \in answers, Answer(a) PROVE TypeOK'
    BY <1>12 DEF IndInv, TypeOK, RequestInv, Answer
  <1>13. CASE Withhold
    BY <1>13 DEF IndInv, TypeOK, RequestInv, Withhold
  <1>14. ASSUME NEW r \in readers, NEW line \in {"yes", "no"}, Line(r, line) PROVE TypeOK'
    BY <1>14 DEF IndInv, TypeOK, RequestInv, Line
  <1>15. CASE UNCHANGED vars
    BY <1>15 DEF IndInv, TypeOK, vars
  <1> QED
    BY <1>1, <1>2, <1>3, <1>4, <1>5, <1>6, <1>7, <1>8, <1>9, <1>10, <1>11, <1>12, <1>13, <1>14, <1>15 DEF Next, ProxyStep

LEMMA RequestStep == ASSUME IndInv, [Next]_vars PROVE RequestInv'
  <1> USE DEF files
  <1>1. ASSUME NEW t \in Tools, Ask(t) PROVE RequestInv'
    <2>1. /\ number < MaxRequests /\ number' = number + 1 /\ tool' = t
          /\ asked' = [i \in 1 .. number + 1 |-> IF i <= number THEN asked[i] ELSE t]
      BY <1>1 DEF Ask
    <2>2. /\ number' \in 0 .. MaxRequests /\ number \in Nat /\ 1 .. number \subseteq 1 .. number'
          /\ asked' \in [1 .. number' -> Tools] /\ asked'[number'] = t
          /\ \A i \in 1 .. number : asked'[i] = asked[i]
      BY <2>1, AskedGrows DEF IndInv
    <2> QED
      BY <1>1, <2>1, <2>2, Numbers DEF IndInv, RequestInv, Ask
  <1>2. ASSUME NEW t \in Tools, AskFails(t) PROVE RequestInv'
    <2>1. /\ number < MaxRequests /\ number' = number + 1 /\ tool' = t
          /\ asked' = [i \in 1 .. number + 1 |-> IF i <= number THEN asked[i] ELSE t]
      BY <1>2 DEF AskFails
    <2>2. /\ number' \in 0 .. MaxRequests /\ number \in Nat /\ 1 .. number \subseteq 1 .. number'
          /\ asked' \in [1 .. number' -> Tools] /\ asked'[number'] = t
          /\ \A i \in 1 .. number : asked'[i] = asked[i]
      BY <2>1, AskedGrows DEF IndInv
    <2> QED
      BY <1>2, <2>1, <2>2, Numbers DEF IndInv, RequestInv, AskFails
  <1>3. CASE Poll
    BY <1>3 DEF IndInv, TypeOK, RequestInv, Poll
  <1>4. CASE RemoveRequest
    BY <1>4 DEF IndInv, TypeOK, RequestInv, RemoveRequest
  <1>5. ASSUME NEW okStays \in BOOLEAN, NEW noStays \in BOOLEAN, RemoveVerdict(okStays, noStays) PROVE RequestInv'
    BY <1>5 DEF IndInv, TypeOK, RequestInv, RemoveVerdict, RemoveAnswers
  <1>6. CASE TakeLine
    BY <1>6 DEF IndInv, TypeOK, RequestInv, TakeLine
  <1>7. CASE Return
    BY <1>7, Numbers DEF IndInv, RequestInv, Return, Recorded
  <1>8. CASE Timeout
    BY <1>8 DEF IndInv, TypeOK, RequestInv, Timeout
  <1>9. CASE OtherCall
    BY <1>9, Numbers DEF IndInv, RequestInv, OtherCall
  <1>10. CASE Restart
    BY <1>10, Numbers DEF IndInv, RequestInv, Restart
  <1>11. ASSUME NEW id \in IDs, NEW yes \in BOOLEAN, Consider(id, yes) PROVE RequestInv'
    BY <1>11 DEF IndInv, TypeOK, RequestInv, Consider
  <1>12. ASSUME NEW a \in answers, Answer(a) PROVE RequestInv'
    BY <1>12 DEF IndInv, TypeOK, RequestInv, Answer
  <1>13. CASE Withhold
    BY <1>13 DEF IndInv, TypeOK, RequestInv, Withhold
  <1>14. ASSUME NEW r \in readers, NEW line \in {"yes", "no"}, Line(r, line) PROVE RequestInv'
    BY <1>14 DEF IndInv, TypeOK, RequestInv, Line
  <1>15. CASE UNCHANGED vars
    BY <1>15 DEF IndInv, RequestInv, vars
  <1> QED
    BY <1>1, <1>2, <1>3, <1>4, <1>5, <1>6, <1>7, <1>8, <1>9, <1>10, <1>11, <1>12, <1>13, <1>14, <1>15 DEF Next, ProxyStep

LEMMA ToolStep == ASSUME IndInv, [Next]_vars PROVE ToolInv'
  <1> USE DEF files
  <1>1. ASSUME NEW t \in Tools, Ask(t) PROVE ToolInv'
    <2>1. /\ number < MaxRequests /\ number' = number + 1 /\ tool' = t
          /\ asked' = [i \in 1 .. number + 1 |-> IF i <= number THEN asked[i] ELSE t]
      BY <1>1 DEF Ask
    <2>2. /\ number' \in 0 .. MaxRequests /\ number \in Nat /\ 1 .. number \subseteq 1 .. number'
          /\ asked' \in [1 .. number' -> Tools] /\ asked'[number'] = t
          /\ \A i \in 1 .. number : asked'[i] = asked[i]
      BY <2>1, AskedGrows DEF IndInv
    <2>3. \A m \in answered \cup granted : m \in 1 .. number /\ asked'[m] = asked[m]
      BY <2>2 DEF IndInv, TypeOK
    <2>4. pc' = "wait" /\ UNCHANGED <<answers, oks, answered, granted>>
      BY <1>1 DEF Ask
    <2>5. ApprovalStaysWithTool'
      BY <2>3, <2>4 DEF IndInv, ToolInv, ApprovalStaysWithTool
    <2>6. \A i \in oks' : \E m \in answered' : asked'[m] = i[1]
      BY <2>3, <2>4 DEF IndInv, ToolInv
    <2>7. \A a \in answers' : asked'[a.number] = a.id[1] /\ (a.yes => a.number \in answered')
      BY <2>2, <2>4 DEF IndInv, ToolInv, TypeOK
    <2>8. ASSUME NEW i \in IDs, reqs'[i] # 0 PROVE asked'[reqs'[i]] = i[1]
      <3>1. \/ i = <<t, count>> /\ reqs'[i] = number'
            \/ reqs'[i] = reqs[i]
        BY <1>1, <2>1 DEF Ask, IndInv, TypeOK, RequestID
      <3>2. CASE i = <<t, count>> /\ reqs'[i] = number'
        BY <2>2, <3>2
      <3>3. CASE reqs'[i] = reqs[i]
        <4>1. reqs[i] \in 1 .. number
          BY <2>8, <3>3, Numbers DEF IndInv, TypeOK
        <4> QED
          BY <2>2, <2>8, <3>3, <4>1 DEF IndInv, ToolInv
      <3> QED
        BY <3>1, <3>2, <3>3
    <2> QED
      BY <2>4, <2>5, <2>6, <2>7, <2>8 DEF ToolInv
  <1>2. ASSUME NEW t \in Tools, AskFails(t) PROVE ToolInv'
    <2>1. /\ number < MaxRequests /\ number' = number + 1 /\ tool' = t
          /\ asked' = [i \in 1 .. number + 1 |-> IF i <= number THEN asked[i] ELSE t]
      BY <1>2 DEF AskFails
    <2>2. /\ number' \in 0 .. MaxRequests /\ number \in Nat /\ 1 .. number \subseteq 1 .. number'
          /\ asked' \in [1 .. number' -> Tools] /\ asked'[number'] = t
          /\ \A i \in 1 .. number : asked'[i] = asked[i]
      BY <2>1, AskedGrows DEF IndInv
    <2>3. \A m \in answered \cup granted : m \in 1 .. number /\ asked'[m] = asked[m]
      BY <2>2 DEF IndInv, TypeOK
    <2>4. pc' = "idle" /\ UNCHANGED <<reqs, answers, oks, answered, granted>>
      BY <1>2 DEF AskFails
    <2>5. ApprovalStaysWithTool'
      BY <2>3, <2>4 DEF IndInv, ToolInv, ApprovalStaysWithTool
    <2>6. \A i \in oks' : \E m \in answered' : asked'[m] = i[1]
      BY <2>3, <2>4 DEF IndInv, ToolInv
    <2>7. \A a \in answers' : asked'[a.number] = a.id[1] /\ (a.yes => a.number \in answered')
      BY <2>2, <2>4 DEF IndInv, ToolInv, TypeOK
    <2>8. ASSUME NEW i \in IDs, reqs'[i] # 0 PROVE asked'[reqs'[i]] = i[1]
      <3>1. reqs[i] \in 1 .. number
        BY <2>4, <2>8, Numbers DEF IndInv, TypeOK
      <3> QED
        BY <2>2, <2>4, <2>8, <3>1 DEF IndInv, ToolInv
    <2> QED
      BY <2>4, <2>5, <2>6, <2>7, <2>8 DEF ToolInv
  <1>3. CASE Poll
    BY <1>3 DEF IndInv, ToolInv, ApprovalStaysWithTool, ID, RequestID, Poll
  <1>4. CASE RemoveRequest
    <2>1. \A i \in IDs : reqs'[i] # 0 => reqs'[i] = reqs[i]
      BY <1>4 DEF IndInv, TypeOK, RemoveRequest
    <2> QED
      BY <1>4, <2>1 DEF IndInv, ToolInv, ApprovalStaysWithTool, ID, RequestID, RemoveRequest
  <1>5. ASSUME NEW okStays \in BOOLEAN, NEW noStays \in BOOLEAN, RemoveVerdict(okStays, noStays) PROVE ToolInv'
    <2>1. verdict => \E m \in answered : asked[m] = tool
      BY <1>5, IDOf DEF IndInv, ToolInv, RemoveVerdict
    <2> QED
      BY <1>5, <2>1 DEF IndInv, ToolInv, ApprovalStaysWithTool, RemoveVerdict, RemoveAnswers
  <1>6. CASE TakeLine
    <2>1. verdict' => \E m \in answered : asked[m] = tool
      BY <1>6 DEF IndInv, LineInv, RequestInv, TakeLine
    <2> QED
      BY <1>6, <2>1 DEF IndInv, ToolInv, ApprovalStaysWithTool, TakeLine
  <1>7. CASE Return
    <2>1. \A n \in granted' : n \in granted \/ (verdict /\ n = number)
      BY <1>7 DEF Return
    <2>2. verdict => \E m \in answered : m <= number /\ asked[m] = asked[number]
      <3>1. \A m \in answered : m <= number
        BY Numbers DEF IndInv, TypeOK
      <3> QED
        BY <1>7, <3>1 DEF IndInv, ToolInv, RequestInv, Return
    <2>3. ApprovalStaysWithTool'
      BY <1>7, <2>1, <2>2 DEF IndInv, ToolInv, ApprovalStaysWithTool, Return
    <2> QED
      BY <1>7, <2>3 DEF IndInv, ToolInv, Return
  <1>8. CASE Timeout
    BY <1>8 DEF IndInv, ToolInv, ApprovalStaysWithTool, ID, RequestID, Timeout
  <1>9. CASE OtherCall
    BY <1>9 DEF IndInv, ToolInv, ApprovalStaysWithTool, ID, RequestID, OtherCall
  <1>10. CASE Restart
    BY <1>10 DEF IndInv, ToolInv, ApprovalStaysWithTool, ID, RequestID, Restart
  <1>11. ASSUME NEW id \in IDs, NEW yes \in BOOLEAN, Consider(id, yes) PROVE ToolInv'
    <2>1. PICK n : n = reqs[id]
      OBVIOUS
    <2>2. /\ n # 0 /\ answers' = {[id |-> id, number |-> n, yes |-> yes]}
          /\ answered' = IF yes THEN answered \cup {n} ELSE answered
          /\ UNCHANGED <<reqs, oks, asked, pc, verdict, tool, count, granted>>
      BY <1>11, <2>1 DEF Consider
    <2>3. asked[n] = id[1]
      BY <2>1, <2>2 DEF IndInv, ToolInv
    <2>4. \A a \in answers' : asked'[a.number] = a.id[1] /\ (a.yes => a.number \in answered')
      BY <2>2, <2>3
    <2> QED
      BY <2>2, <2>4 DEF IndInv, ToolInv, ApprovalStaysWithTool, ID, RequestID
  <1>12. ASSUME NEW a \in answers, Answer(a) PROVE ToolInv'
    BY <1>12 DEF IndInv, ToolInv, ApprovalStaysWithTool, ID, RequestID, Answer
  <1>13. CASE Withhold
    BY <1>13 DEF IndInv, ToolInv, ApprovalStaysWithTool, ID, RequestID, Withhold
  <1>14. ASSUME NEW r \in readers, NEW line \in {"yes", "no"}, Line(r, line) PROVE ToolInv'
    BY <1>14 DEF IndInv, ToolInv, ApprovalStaysWithTool, ID, RequestID, Line
  <1>15. CASE UNCHANGED vars
    BY <1>15 DEF IndInv, ToolInv, ApprovalStaysWithTool, ID, RequestID, vars
  <1> QED
    BY <1>1, <1>2, <1>3, <1>4, <1>5, <1>6, <1>7, <1>8, <1>9, <1>10, <1>11, <1>12, <1>13, <1>14, <1>15 DEF Next, ProxyStep

LEMMA LineStep == ASSUME IndInv, [Next]_vars PROVE LineInv'
  <1> USE DEF files
  <1>1. ASSUME NEW t \in Tools, Ask(t) PROVE LineInv'
    BY <1>1 DEF IndInv, LineInv, RequestInv, Ask, RequestID, MakeChannels
  <1>2. ASSUME NEW t \in Tools, AskFails(t) PROVE LineInv'
    BY <1>2 DEF IndInv, LineInv, RequestInv, AskFails
  <1>3. CASE Poll
    BY <1>3 DEF IndInv, LineInv, RequestInv, Poll
  <1>4. CASE RemoveRequest
    BY <1>4 DEF IndInv, LineInv, RequestInv, RemoveRequest
  <1>5. ASSUME NEW okStays \in BOOLEAN, NEW noStays \in BOOLEAN, RemoveVerdict(okStays, noStays) PROVE LineInv'
    BY <1>5 DEF IndInv, LineInv, RequestInv, RemoveVerdict, RemoveAnswers
  <1>6. CASE TakeLine
    BY <1>6 DEF IndInv, LineInv, RequestInv, TakeLine
  <1>7. CASE Return
    BY <1>7 DEF IndInv, LineInv, RequestInv, Return, Recorded
  <1>8. CASE Timeout
    BY <1>8 DEF IndInv, LineInv, RequestInv, Timeout
  <1>9. CASE OtherCall
    BY <1>9 DEF IndInv, LineInv, RequestInv, OtherCall
  <1>10. CASE Restart
    BY <1>10 DEF IndInv, LineInv, RequestInv, Restart
  <1>11. ASSUME NEW id \in IDs, NEW yes \in BOOLEAN, Consider(id, yes) PROVE LineInv'
    BY <1>11 DEF IndInv, LineInv, RequestInv, Consider
  <1>12. ASSUME NEW a \in answers, Answer(a) PROVE LineInv'
    BY <1>12 DEF IndInv, LineInv, RequestInv, Answer
  <1>13. CASE Withhold
    BY <1>13 DEF IndInv, LineInv, RequestInv, Withhold
  <1>14. ASSUME NEW r \in readers, NEW line \in {"yes", "no"}, Line(r, line) PROVE LineInv'
    BY <1>14 DEF IndInv, LineInv, RequestInv, Line
  <1>15. CASE UNCHANGED vars
    BY <1>15 DEF IndInv, LineInv, vars
  <1> QED
    BY <1>1, <1>2, <1>3, <1>4, <1>5, <1>6, <1>7, <1>8, <1>9, <1>10, <1>11, <1>12, <1>13, <1>14, <1>15 DEF Next, ProxyStep

LEMMA GrantStep == ASSUME IndInv, [Next]_vars PROVE GrantWasAnswered'
  <1> USE DEF files
  <1>1. ASSUME NEW t \in Tools, Ask(t) PROVE GrantWasAnswered'
    BY <1>1 DEF IndInv, GrantWasAnswered, LineInv, PromptInv, Ask, RequestID, MakeChannels
  <1>2. ASSUME NEW t \in Tools, AskFails(t) PROVE GrantWasAnswered'
    BY <1>2 DEF IndInv, GrantWasAnswered, LineInv, PromptInv, AskFails
  <1>3. CASE Poll
    BY <1>3 DEF IndInv, GrantWasAnswered, LineInv, PromptInv, Poll
  <1>4. CASE RemoveRequest
    BY <1>4, Numbers DEF IndInv, GrantWasAnswered, LineInv, PromptInv, RemoveRequest
  <1>5. ASSUME NEW okStays \in BOOLEAN, NEW noStays \in BOOLEAN, RemoveVerdict(okStays, noStays) PROVE GrantWasAnswered'
    BY <1>5, Numbers DEF IndInv, GrantWasAnswered, LineInv, PromptInv, RemoveVerdict, RemoveAnswers
  <1>6. CASE TakeLine
    BY <1>6 DEF IndInv, GrantWasAnswered, LineInv, PromptInv, TakeLine
  <1>7. CASE Return
    BY <1>7 DEF IndInv, GrantWasAnswered, LineInv, PromptInv, Return, Recorded
  <1>8. CASE Timeout
    BY <1>8 DEF IndInv, GrantWasAnswered, LineInv, PromptInv, Timeout
  <1>9. CASE OtherCall
    BY <1>9 DEF IndInv, GrantWasAnswered, LineInv, PromptInv, OtherCall
  <1>10. CASE Restart
    BY <1>10, Numbers DEF IndInv, GrantWasAnswered, Restart
  <1>11. ASSUME NEW id \in IDs, NEW yes \in BOOLEAN, Consider(id, yes) PROVE GrantWasAnswered'
    BY <1>11 DEF IndInv, GrantWasAnswered, LineInv, PromptInv, Consider
  <1>12. ASSUME NEW a \in answers, Answer(a) PROVE GrantWasAnswered'
    BY <1>12 DEF IndInv, GrantWasAnswered, LineInv, PromptInv, Answer
  <1>13. CASE Withhold
    BY <1>13 DEF IndInv, GrantWasAnswered, LineInv, PromptInv, Withhold
  <1>14. ASSUME NEW r \in readers, NEW line \in {"yes", "no"}, Line(r, line) PROVE GrantWasAnswered'
    BY <1>14 DEF IndInv, GrantWasAnswered, LineInv, PromptInv, Line
  <1>15. CASE UNCHANGED vars
    BY <1>15 DEF IndInv, GrantWasAnswered, vars
  <1> QED
    BY <1>1, <1>2, <1>3, <1>4, <1>5, <1>6, <1>7, <1>8, <1>9, <1>10, <1>11, <1>12, <1>13, <1>14, <1>15 DEF Next, ProxyStep

LEMMA PromptStep == ASSUME IndInv, [Next]_vars PROVE PromptInv'
  <1> USE DEF files
  <1>1. ASSUME NEW t \in Tools, Ask(t) PROVE PromptInv'
    <2> SUFFICES ASSUME mode' = "prompt", crashes' = 0, failures' = 0
                 PROVE  /\ \A id \in IDs : reqs'[id] # 0 =>
                              pc' \in {"wait", "cleanup"} /\ id = ID' /\ reqs'[id] = number'
                        /\ oks' = {} /\ pc' # "done"
      BY DEF PromptInv
    <2>1. mode = "prompt" /\ crashes = 0 /\ failures = 0 /\ pc = "idle" /\ pc' = "wait" /\ number' = number + 1
          /\ reqs' = [reqs EXCEPT ![<<t, count>>] = number + 1] /\ oks' = oks /\ ID' = <<t, count>>
      BY <1>1 DEF Ask, RequestID, ID
    <2>2. oks = {} /\ \A id \in IDs : reqs[id] = 0
      BY <2>1 DEF IndInv, PromptInv
    <2> QED
      BY <2>1, <2>2 DEF IndInv, TypeOK
  <1>2. ASSUME NEW t \in Tools, AskFails(t) PROVE PromptInv'
    BY <1>2 DEF IndInv, PromptInv, ID, RequestID, AskFails
  <1>3. CASE Poll
    BY <1>3 DEF IndInv, PromptInv, ID, RequestID, Poll
  <1>4. CASE RemoveRequest
    <2> SUFFICES ASSUME mode' = "prompt", crashes' = 0, failures' = 0 PROVE PromptInv'
      BY DEF PromptInv
    <2>0. mode = "prompt" /\ crashes = 0 /\ failures = 0 /\ failures' # 1
      BY <1>4, Numbers DEF IndInv, RemoveRequest
    <2>1. \A id \in IDs : reqs[id] # 0 => id = ID
      BY <2>0 DEF IndInv, PromptInv
    <2>2. ID \in IDs /\ reqs' = [reqs EXCEPT ![ID] = 0] /\ reqs \in [IDs -> 0 .. number]
      BY <1>4, <2>0, IDOf DEF IndInv, RemoveRequest, TypeOK
    <2>3. \A id \in IDs : reqs'[id] = 0
      BY <2>1, <2>2
    <2> QED
      BY <1>4, <2>0, <2>3 DEF IndInv, PromptInv, ID, RequestID, RemoveRequest
  <1>5. ASSUME NEW okStays \in BOOLEAN, NEW noStays \in BOOLEAN, RemoveVerdict(okStays, noStays) PROVE PromptInv'
    <2> SUFFICES ASSUME mode' = "prompt", crashes' = 0, failures' = 0 PROVE PromptInv'
      BY DEF PromptInv
    <2>0. mode = "prompt" /\ crashes = 0 /\ failures = 0 /\ ~okStays
      BY <1>5, Numbers DEF IndInv, RemoveVerdict
    <2>1. oks' = {} /\ (verdict => number \in answered)
      BY <1>5, <2>0 DEF IndInv, PromptInv, ToolInv, RemoveVerdict, RemoveAnswers
    <2>2. \A id \in IDs : reqs[id] = 0
      BY <1>5, <2>0 DEF IndInv, PromptInv, RemoveVerdict
    <2> QED
      BY <1>5, <2>1, <2>2 DEF PromptInv, RemoveVerdict
  <1>6. CASE TakeLine
    BY <1>6 DEF PromptInv, TakeLine
  <1>7. CASE Return
    BY <1>7 DEF IndInv, PromptInv, ID, RequestID, Return, Recorded
  <1>8. CASE Timeout
    BY <1>8 DEF IndInv, PromptInv, ID, RequestID, Timeout
  <1>9. CASE OtherCall
    BY <1>9 DEF IndInv, PromptInv, ID, RequestID, OtherCall
  <1>10. CASE Restart
    BY <1>10, Numbers DEF IndInv, PromptInv, Restart
  <1>11. ASSUME NEW id \in IDs, NEW yes \in BOOLEAN, Consider(id, yes) PROVE PromptInv'
    BY <1>11 DEF IndInv, PromptInv, ID, RequestID, Consider
  <1>12. ASSUME NEW a \in answers, Answer(a) PROVE PromptInv'
    <2> SUFFICES ASSUME mode' = "prompt", crashes' = 0, failures' = 0 PROVE PromptInv'
      BY DEF PromptInv
    <2>0. mode = "prompt" /\ crashes = 0 /\ failures = 0
      BY <1>12 DEF Answer
    <2>1. /\ reqs[a.id] = a.number /\ UNCHANGED <<reqs, pc, number, tool, count, verdict, answered>>
          /\ oks' = IF a.yes THEN oks \cup {a.id} ELSE oks
      BY <1>12, <2>0 DEF Answer
    <2>2. a.id \in IDs /\ a.number # 0
      BY <1>12, Numbers DEF IndInv, TypeOK
    <2>3. pc \in {"wait", "cleanup"} /\ a.id = ID /\ a.number = number /\ (a.yes => number \in answered)
      BY <1>12, <2>0, <2>1, <2>2 DEF IndInv, PromptInv, ToolInv
    <2> QED
      BY <2>0, <2>1, <2>3 DEF IndInv, PromptInv, ID, RequestID
  <1>13. CASE Withhold
    BY <1>13 DEF IndInv, PromptInv, ID, RequestID, Withhold
  <1>14. ASSUME NEW r \in readers, NEW line \in {"yes", "no"}, Line(r, line) PROVE PromptInv'
    BY <1>14 DEF IndInv, PromptInv, ID, RequestID, Line
  <1>15. CASE UNCHANGED vars
    BY <1>15 DEF IndInv, PromptInv, ID, RequestID, vars
  <1> QED
    BY <1>1, <1>2, <1>3, <1>4, <1>5, <1>6, <1>7, <1>8, <1>9, <1>10, <1>11, <1>12, <1>13, <1>14, <1>15 DEF Next, ProxyStep

LEMMA Sizes ==
    ASSUME IndInv
    PROVE  /\ failures \in Nat /\ IsFiniteSet(granted) /\ Cardinality(granted) \in Nat
           /\ IsFiniteSet(oks) /\ Cardinality(oks) \in Nat
           /\ yeses \in Nat /\ Cardinality(granted) + Cardinality(oks) + InHand <= yeses + failures
  <1>1. number \in Nat /\ granted \subseteq 1 .. number /\ yeses \in Nat /\ failures \in Nat /\ IsFiniteSet(oks)
    BY Numbers DEF IndInv, TypeOK, SpentInv
  <1>2. IsFiniteSet(1 .. number)
    BY <1>1, FS_Interval
  <1>3. IsFiniteSet(granted)
    BY <1>1, <1>2, FS_Subset
  <1>4. Cardinality(granted) \in Nat /\ Cardinality(oks) \in Nat
    BY <1>1, <1>3, FS_CardinalityType
  <1> QED
    BY <1>1, <1>3, <1>4 DEF IndInv, SpentInv

LEMMA InHandIs == InHand \in {0, 1} /\ InHand' \in {0, 1}
  BY DEF InHand

LEMMA SpentKept ==
    ASSUME IndInv, UNCHANGED <<granted, oks, yeses>>, failures' \in {failures, failures + 1}, InHand' = 1 => InHand = 1
    PROVE  SpentInv'
  <1> HIDE DEF InHand
  <1>1. InHand' <= InHand
    BY InHandIs
  <1> QED
    BY <1>1, Sizes, InHandIs DEF SpentInv

LEMMA SpentStep == ASSUME IndInv, [Next]_vars PROVE SpentInv'
  <1> USE DEF files
  <1>1. ASSUME NEW t \in Tools, Ask(t) PROVE SpentInv'
    BY <1>1, SpentKept DEF InHand, Ask, MakeChannels
  <1>2. ASSUME NEW t \in Tools, AskFails(t) PROVE SpentInv'
    BY <1>2, SpentKept DEF InHand, AskFails
  <1>3. CASE Poll
    BY <1>3, SpentKept DEF InHand, Poll
  <1>4. CASE RemoveRequest
    BY <1>4, SpentKept DEF InHand, RemoveRequest
  <1>5. ASSUME NEW okStays \in BOOLEAN, NEW noStays \in BOOLEAN, RemoveVerdict(okStays, noStays) PROVE SpentInv'
    <2>1. /\ UNCHANGED <<granted, yeses>> /\ InHand = 0 /\ InHand' = IF verdict THEN 1 ELSE 0
          /\ failures' \in Nat /\ failures' >= failures
      BY <1>5, Sizes DEF RemoveVerdict, InHand
    <2>2. verdict => ID \in oks
      BY <1>5 DEF IndInv, ToolInv, RemoveVerdict
    <2>3. CASE okStays
      <3>1. oks' = oks /\ failures' >= failures + 1
        BY <1>5, <2>3, Sizes DEF RemoveVerdict, RemoveAnswers
      <3> HIDE DEF InHand
      <3> QED
        BY <2>1, <3>1, Sizes, InHandIs DEF SpentInv
    <2>4. CASE ~okStays
      <3>1. oks' = oks \ {ID}
        BY <1>5, <2>4 DEF RemoveVerdict, RemoveAnswers
      <3> HIDE DEF InHand
      <3>2. PICK x : x = ID
        OBVIOUS
      <3>3. IsFiniteSet(oks \ {x})
            /\ Cardinality(oks \ {x}) = IF x \in oks THEN Cardinality(oks) - 1 ELSE Cardinality(oks)
        BY Sizes, FS_RemoveElement
      <3> QED
        BY <2>1, <2>2, <3>1, <3>2, <3>3, Sizes DEF SpentInv
    <2> QED
      BY <2>3, <2>4
  <1>6. CASE TakeLine
    BY <1>6, SpentKept DEF InHand, TakeLine
  <1>7. CASE Return
    <2>1. UNCHANGED <<oks, yeses, failures>> /\ InHand' = 0
      BY <1>7 DEF Return, InHand
    <2>2. CASE verdict
      <3>1. InHand = 1 /\ granted' = granted \cup {number}
        BY <1>7, <2>2 DEF Return, InHand
      <3>2. PICK x : x = number
        OBVIOUS
      <3>3. Cardinality(granted \cup {x}) = IF x \in granted THEN Cardinality(granted) ELSE Cardinality(granted) + 1
        BY Sizes, FS_AddElement
      <3> HIDE DEF InHand
      <3> QED
        BY <2>1, <3>1, <3>2, <3>3, Sizes DEF SpentInv
    <2>3. CASE ~verdict
      BY <1>7, <2>1, <2>3, SpentKept DEF Return
    <2> QED
      BY <2>2, <2>3
  <1>8. CASE Timeout
    BY <1>8, SpentKept DEF InHand, Timeout
  <1>9. CASE OtherCall
    BY <1>9, SpentKept DEF InHand, OtherCall
  <1>10. CASE Restart
    BY <1>10, SpentKept DEF InHand, Restart
  <1>11. ASSUME NEW id \in IDs, NEW yes \in BOOLEAN, Consider(id, yes) PROVE SpentInv'
    BY <1>11, SpentKept DEF InHand, Consider
  <1>12. ASSUME NEW a \in answers, Answer(a) PROVE SpentInv'
    <2>1. granted' = granted /\ failures' = failures /\ InHand' = InHand
      BY <1>12 DEF Answer, InHand
    <2>2. CASE a.yes
      <3>1. oks' = oks \cup {a.id} /\ yeses' = yeses + 1
        BY <1>12, <2>2 DEF Answer
      <3>2. PICK x : x = a.id
        OBVIOUS
      <3>3. IsFiniteSet(oks \cup {x}) /\ Cardinality(oks \cup {x}) = IF x \in oks THEN Cardinality(oks) ELSE Cardinality(oks) + 1
        BY Sizes, FS_AddElement
      <3> HIDE DEF InHand
      <3> QED
        BY <2>1, <3>1, <3>2, <3>3, Sizes, InHandIs DEF SpentInv
    <2>3. CASE ~a.yes
      BY <1>12, <2>1, <2>3, SpentKept DEF Answer
    <2> QED
      BY <2>2, <2>3
  <1>13. CASE Withhold
    BY <1>13, SpentKept DEF InHand, Withhold
  <1>14. ASSUME NEW r \in readers, NEW line \in {"yes", "no"}, Line(r, line) PROVE SpentInv'
    <2>1. CASE line = "yes"
      <3>1. UNCHANGED <<granted, oks, failures>> /\ yeses' = yeses + 1
        BY <1>14, <2>1 DEF Line
      <3> HIDE DEF InHand
      <3> QED
        BY <3>1, Sizes, InHandIs DEF SpentInv
    <2>2. CASE line = "no"
      BY <1>14, <2>2, SpentKept DEF Line, InHand
    <2> QED
      BY <1>14, <2>1, <2>2
  <1>15. CASE UNCHANGED vars
    BY <1>15, SpentKept DEF InHand, vars
  <1> QED
    BY <1>1, <1>2, <1>3, <1>4, <1>5, <1>6, <1>7, <1>8, <1>9, <1>10, <1>11, <1>12, <1>13, <1>14, <1>15 DEF Next, ProxyStep

\* The inductive invariant holds of every behaviour of the backends.
THEOREM ApprovalInd == Spec => []IndInv
  <1>1. Init => IndInv
    BY InitInd
  <1>2. IndInv /\ [Next]_vars => IndInv'
    <2> SUFFICES ASSUME IndInv, [Next]_vars PROVE IndInv'
      OBVIOUS
    <2>1. TypeOK' /\ RequestInv' /\ ToolInv' /\ LineInv' /\ PromptInv' /\ GrantWasAnswered' /\ SpentInv'
      BY TypeStep, RequestStep, ToolStep, LineStep, PromptStep, GrantStep, SpentStep
    <2> QED
      BY <2>1 DEF IndInv
  <1> QED
    BY <1>1, <1>2, PTL DEF Spec

\* On the CLI a yes came on standard input while the prompt of each granted request
\* stood, whichever reader gets a line; with files the operator approved each, so
\* long as answers are prompt, no process dies and no remove fails.
THEOREM GrantsWereAnswered == Spec => []GrantWasAnswered
  <1>1. IndInv => GrantWasAnswered
    BY DEF IndInv
  <1> QED
    BY <1>1, ApprovalInd, PTL

\* However late answers are and however often IDs come back after refusals and
\* restarts, a yes stays with its tool, and is spent again only where a remove failed.
THEOREM AnswersStayBound == Spec => []LateAnswersAreBound
  <1>1. IndInv => LateAnswersAreBound
    <2> SUFFICES ASSUME IndInv PROVE LateAnswersAreBound
      OBVIOUS
    <2>1. Cardinality(granted) <= yeses + failures
      <3> HIDE DEF InHand
      <3> QED
        BY Sizes, InHandIs
    <2> QED
      BY <2>1 DEF IndInv, ToolInv, LateAnswersAreBound, OneGrantPerAnswer
  <1> QED
    BY <1>1, ApprovalInd, PTL

-----------------------------------------------------------------------------
(***************************************************************************)
(* The durable approval engine for any number of identities, callers,      *)
(* executions and restarts.  A completed request stays completed because   *)
(* its number leaves the disk before it leaves the map, numbers are never  *)
(* given twice, and a call that is about to publish its request holds a    *)
(* number nobody can answer yet.                                           *)
(***************************************************************************)
\* What has a number was given it: files, answers and expiries are of
\* executions that exist, and only an answer that was given expires.
KnownInv ==
    /\ pendingFile \subseteq 1 .. Len(key)
    /\ \A r \in submitted :
          r.exec \in 1 .. Len(key) /\ r.key = key[r.exec] /\ DecisionIsKnown(r)
    /\ accepted \subseteq submitted /\ expired \subseteq submitted

\* A RequestApproval between its file and its map entry: the file is there,
\* nobody can answer the request yet, and no other call has its number.
CallerInv ==
    \A c \in Callers :
        /\ caller[c].pc # "idle" => up /\ caller[c].key \in Keys
        /\ caller[c].pc = "park" =>
              /\ caller[c].exec \in pendingFile \ pending
              /\ \A r \in accepted : r.exec # caller[c].exec
              /\ \A d \in Callers :
                    caller[d].pc = "park" /\ caller[d].exec = caller[c].exec => d = c

\* Receipts are cached under the key of their execution and filed under its
\* number.
ReceiptInv ==
    /\ \A k \in Keys :
          cache[k] # NoReceipt => cache[k] \in submitted /\ key[cache[k].exec] = k
    /\ \A e \in Execs :
          receiptFile[e] # NoReceipt =>
              receiptFile[e] \in submitted /\ receiptFile[e].exec = e

DurableInv == DurableTypeOK /\ KnownInv /\ CallerInv /\ ReceiptInv /\ GrantIsBacked
          /\ PendingSurvives /\ CompletionIsFinal

-----------------------------------------------------------------------------
(***************************************************************************)
(* Helpers.                                                                *)
(***************************************************************************)
\* The last execution of a nonempty set is one of the set.
LEMMA LastExists ==
    ASSUME NEW S \in SUBSET Execs, S # {}
    PROVE  \E e \in S : \A f \in S : f <= e
  <1> DEFINE T == {MaxExecs - e : e \in S}
  <1>1. MaxExecs \in Nat /\ \A e \in S : e \in 1 .. MaxExecs
    BY DurableConstants DEF Execs
  <1>2. T \subseteq Nat /\ T # {}
    BY <1>1
  <1>3. PICK m \in T : \A n \in T : ~(<<n, m>> \in OpToRel(<, Nat))
    BY <1>2, WFMin, NatLessThanWellFounded
  <1>4. \A n \in T : ~(n < m)
    BY <1>2, <1>3 DEF OpToRel
  <1>5. PICK e \in S : m = MaxExecs - e
    OBVIOUS
  <1>6. \A f \in S : MaxExecs - f \in T
    OBVIOUS
  <1> HIDE DEF T
  <1>7. \A f \in S : f <= e
    BY <1>1, <1>4, <1>5, <1>6
  <1> QED
    BY <1>7

LEMMA NoReceiptApart == \A r \in Receipts : r # NoReceipt /\ r.exec \in Execs
  <1> SUFFICES ASSUME NEW r \in Receipts PROVE r.exec \in Execs /\ r.exec # 0
    BY DEF NoReceipt
  <1> QED
    BY DurableConstants DEF Receipts, Execs

\* A new number.
LEMMA KeyGrows ==
    ASSUME DurableTypeOK, NEW k \in Keys, Len(key) < MaxExecs, key' = Append(key, k)
    PROVE  /\ key' \in Seq(Keys) /\ Len(key') <= MaxExecs
           /\ Len(key) \in Nat /\ Len(key') = Len(key) + 1
           /\ NewExec \in Execs /\ NewExec \notin 1 .. Len(key)
           /\ key'[NewExec] = k
           /\ \A e \in 1 .. Len(key) : e \in 1 .. Len(key') /\ key'[e] = key[e]
  <1>1. key \in Seq(Keys) /\ Len(key) \in Nat /\ MaxExecs \in Nat
    BY DurableConstants DEF DurableTypeOK
  <1> QED
    BY <1>1 DEF NewExec, Execs

\* What a step that touches neither numbers nor answers leaves as it is.
LEMMA KnownFrame ==
    ASSUME KnownInv, UNCHANGED <<key, expired, submitted, accepted>>,
           pendingFile' \subseteq pendingFile
    PROVE  KnownInv'
  BY DEF KnownInv

LEMMA GrantFrame ==
    ASSUME KnownInv, GrantIsBacked, submitted \subseteq submitted', grants' = grants,
           \A e \in 1 .. Len(key) : key'[e] = key[e]
    PROVE  GrantIsBacked'
  BY DEF KnownInv, GrantIsBacked

\* A grant that a receipt of its own identity backs.
LEMMA GrantAdded ==
    ASSUME KnownInv, GrantIsBacked, submitted \subseteq submitted',
           NEW k \in Keys, NEW r \in submitted', NEW by,
           by = "request" => Approves(r) /\ r \notin expired /\ key'[r.exec] = k,
           grants' = grants \cup {Grant(k, r, by)},
           \A e \in 1 .. Len(key) : key'[e] = key[e]
    PROVE  GrantIsBacked'
  <1>1. /\ Grant(k, r, by).key = k /\ Grant(k, r, by).receipt = r
        /\ Grant(k, r, by).by = by /\ (Grant(k, r, by).fresh <=> r \notin expired)
    BY DEF Grant
  <1> SUFFICES ASSUME NEW g \in grants', g.by = "request"
               PROVE  /\ g.receipt \in submitted' /\ Approves(g.receipt) /\ g.fresh
                      /\ key'[g.receipt.exec] = g.key
    BY DEF GrantIsBacked
  <1>2. CASE g \in grants
    BY <1>2 DEF KnownInv, GrantIsBacked
  <1>3. CASE g = Grant(k, r, by)
    BY <1>1, <1>3
  <1> QED
    BY <1>2, <1>3

LEMMA GrantTyped ==
    ASSUME NEW k \in Keys, NEW r \in MaybeReceipts, NEW by \in {"request", "submit"}
    PROVE  Grant(k, r, by) \in [key : Keys, receipt : MaybeReceipts, fresh : BOOLEAN,
                                by : {"request", "submit"}]
  <1> DEFINE f == r \notin expired
  <1>1. f \in BOOLEAN
    BY Zenon
  <1> HIDE DEF f
  <1>2. [key |-> k, receipt |-> r, fresh |-> f, by |-> by]
           \in [key : Keys, receipt : MaybeReceipts, fresh : BOOLEAN,
                by : {"request", "submit"}]
    BY <1>1
  <1> QED
    BY <1>2 DEF Grant, f

CallerStates == [pc : {"idle", "purge", "create", "park"},
                 key : Keys \cup {"none"}, exec : 0 .. MaxExecs]

LEMMA IdleTyped == Idle \in CallerStates
  BY DurableConstants DEF Idle, CallerStates

\* One call moves, to a place where it holds no number.
LEMMA CallerMoves ==
    ASSUME DurableTypeOK, CallerInv, NEW c \in Callers, NEW x \in CallerStates,
           x.pc # "park", x.pc # "idle" => up /\ x.key \in Keys,
           caller' = [caller EXCEPT ![c] = x], UNCHANGED <<up, accepted>>,
           \A d \in Callers : d # c /\ caller[d].pc = "park"
                                 => caller[d].exec \in pendingFile' \ pending'
    PROVE  /\ CallerInv'
           /\ caller' \in [Callers -> CallerStates]
  <1>1. caller \in [Callers -> CallerStates]
    BY DEF DurableTypeOK, CallerStates
  <1>2. /\ caller' \in [Callers -> CallerStates] /\ caller'[c] = x
        /\ \A d \in Callers : d # c => caller'[d] = caller[d]
    BY <1>1
  <1>3. CallerInv'
    BY <1>2 DEF CallerInv
  <1> QED
    BY <1>2, <1>3

-----------------------------------------------------------------------------
(***************************************************************************)
(* One lemma per operation.                                                *)
(***************************************************************************)
LEMMA InitInv == DurableInit => DurableInv
  <1> SUFFICES ASSUME DurableInit PROVE DurableInv
    OBVIOUS
  <1>1. DurableTypeOK
    <2>1. /\ starts = 0 /\ key = <<>> /\ pendingFile = {} /\ pending = {}
          /\ receiptFile = [e \in Execs |-> NoReceipt]
          /\ cache = [k \in Keys |-> NoReceipt] /\ caller = [c \in Callers |-> Idle]
          /\ expired = {} /\ lapsed = {} /\ submitted = {} /\ accepted = {} /\ grants = {}
      BY DEF DurableInit
    <2>2. up \in BOOLEAN /\ live \in BOOLEAN
      BY DEF DurableInit
    <2>3. receiptFile \in [Execs -> MaybeReceipts] /\ cache \in [Keys -> MaybeReceipts]
      BY <2>1 DEF MaybeReceipts
    <2>4. Idle \in CallerStates
      BY IdleTyped
    <2>5. key \in Seq(Keys) /\ Len(key) <= MaxExecs /\ starts \in 0 .. MaxStarts
      BY <2>1, DurableConstants
    <2> QED
      BY <2>1, <2>2, <2>3, <2>4, <2>5 DEF DurableTypeOK, CallerStates
  <1>2. CallerInv
    BY DEF DurableInit, CallerInv, Idle
  <1>3. KnownInv /\ ReceiptInv /\ GrantIsBacked /\ PendingSurvives /\ CompletionIsFinal
    BY DEF DurableInit, KnownInv, ReceiptInv, GrantIsBacked, PendingSurvives, CompletionIsFinal
  <1> QED
    BY <1>1, <1>2, <1>3 DEF DurableInv

\* What loadState puts into the cache for a key is a receipt for that key.
LEMMA LoadedIsOwn ==
    ASSUME DurableInv, NEW k \in Keys
    PROVE  /\ Loaded(k) \in MaybeReceipts
           /\ Loaded(k) # NoReceipt
                => Loaded(k) \in submitted /\ key[Loaded(k).exec] = k
  <1> DEFINE own == {e \in Completed : receiptFile[e].key = k}
             last == CHOOSE e \in own : \A f \in own : f <= e
  <1>1. CASE own = {}
    BY <1>1 DEF Loaded, MaybeReceipts
  <1>2. CASE own # {}
    <2>1. own \subseteq Execs
      BY DEF Completed
    <2>2. last \in own
      BY <1>2, <2>1, LastExists
    <2>3. Loaded(k) = receiptFile[last]
      BY <1>2 DEF Loaded
    <2> HIDE DEF last
    <2>4. last \in Execs /\ receiptFile[last] # NoReceipt /\ receiptFile[last].key = k
      BY <2>2 DEF Completed
    <2> QED
      BY <2>3, <2>4 DEF DurableInv, DurableTypeOK, ReceiptInv, KnownInv
  <1> QED
    BY <1>1, <1>2

LEMMA StartStep ==
    ASSUME DurableInv, NEW w \in BOOLEAN, Start(w)
    PROVE  DurableInv'
  <1>1. /\ ~up /\ up' = TRUE /\ starts' = starts + 1 /\ starts < MaxStarts /\ live' = w
        /\ cache' = [k \in Keys |-> Loaded(k)]
        /\ pending' = pendingFile \ (Completed \cup lapsed)
        /\ pendingFile' = pendingFile \ Completed
        /\ UNCHANGED <<key, receiptFile, caller, expired, lapsed, submitted, accepted,
                       grants>>
    BY DEF Start, clock
  <1>2. DurableTypeOK'
    <2>1. cache' \in [Keys -> MaybeReceipts]
      BY <1>1, LoadedIsOwn
    <2>2. starts' \in 0 .. MaxStarts
      BY <1>1, DurableConstants DEF DurableInv, DurableTypeOK
    <2> QED
      BY <1>1, <2>1, <2>2 DEF DurableInv, DurableTypeOK
  <1>3. CallerInv'
    <2>1. \A c \in Callers : caller[c].pc = "idle"
      BY <1>1 DEF DurableInv, CallerInv
    <2> QED
      BY <1>1, <2>1 DEF CallerInv
  <1>4. ReceiptInv'
    BY <1>1, LoadedIsOwn DEF DurableInv, ReceiptInv
  <1>5. KnownInv' /\ GrantIsBacked'
    BY <1>1, KnownFrame, GrantFrame DEF DurableInv
  <1>6. PendingSurvives' /\ CompletionIsFinal'
    BY <1>1 DEF DurableInv, PendingSurvives, CompletionIsFinal
  <1> QED
    BY <1>2, <1>3, <1>4, <1>5, <1>6 DEF DurableInv

LEMMA StoppedKeeps ==
    ASSUME DurableInv, Stopped, submitted \subseteq submitted'
    PROVE  /\ CallerInv' /\ up' \in BOOLEAN /\ pending' \subseteq Execs
           /\ cache' \in [Keys -> MaybeReceipts]
           /\ caller' \in [Callers -> CallerStates]
           /\ \A k \in Keys : cache'[k] = NoReceipt
  <1>1. /\ up' = FALSE /\ pending' = {} /\ cache' = [k \in Keys |-> NoReceipt]
        /\ caller' = [c \in Callers |-> Idle]
    BY DEF Stopped
  <1>2. Idle \in CallerStates
    BY IdleTyped
  <1>3. CallerInv'
    BY <1>1 DEF CallerInv, Idle
  <1> QED
    BY <1>1, <1>2, <1>3 DEF MaybeReceipts

LEMMA CrashStep ==
    ASSUME DurableInv, Crash
    PROVE  DurableInv'
  <1>1. /\ Stopped /\ pending' = {}
        /\ UNCHANGED <<starts, live, key, pendingFile, receiptFile, expired, lapsed,
                       submitted, accepted, grants>>
    BY DEF Crash, Stopped, disk, clock
  <1>2. DurableTypeOK' /\ CallerInv' /\ ReceiptInv'
    BY <1>1, StoppedKeeps DEF DurableInv, DurableTypeOK, CallerStates, ReceiptInv
  <1>3. KnownInv' /\ GrantIsBacked'
    BY <1>1, KnownFrame, GrantFrame DEF DurableInv
  <1>4. PendingSurvives' /\ CompletionIsFinal'
    BY <1>1 DEF DurableInv, PendingSurvives, CompletionIsFinal
  <1> QED
    BY <1>2, <1>3, <1>4 DEF DurableInv

LEMMA LookStep ==
    ASSUME DurableInv, NEW c \in Callers, NEW k \in Keys, Look(c, k)
    PROVE  DurableInv'
  <1> DEFINE r == cache[k]
             x == IF r = NoReceipt THEN [pc |-> "create", key |-> k, exec |-> 0]
                  ELSE IF Unusable(r) THEN [pc |-> "purge", key |-> k, exec |-> 0]
                  ELSE Idle
  <1>1. /\ up /\ caller' = [caller EXCEPT ![c] = x]
        /\ grants' = IF r # NoReceipt /\ ~Unusable(r) /\ Approves(r)
                     THEN grants \cup {Grant(k, r, "request")} ELSE grants
        /\ UNCHANGED <<up, starts, live, key, pendingFile, receiptFile, pending, cache,
                       expired, lapsed, submitted, accepted>>
    BY DEF Look, disk, clock
  <1>2. /\ x \in CallerStates /\ x.pc # "park" /\ (x.pc # "idle" => x.key \in Keys)
    BY IdleTyped, DurableConstants DEF CallerStates, Idle
  <1>3. CallerInv' /\ caller' \in [Callers -> CallerStates]
    <2> HIDE DEF x
    <2>1. \A d \in Callers : caller[d].pc = "park"
                               => caller[d].exec \in pendingFile' \ pending'
      BY <1>1 DEF DurableInv, CallerInv
    <2> QED
      BY <1>1, <1>2, <2>1, CallerMoves DEF DurableInv
  <1>4. KnownInv' /\ ReceiptInv' /\ PendingSurvives' /\ CompletionIsFinal'
    BY <1>1 DEF DurableInv, KnownInv, ReceiptInv, PendingSurvives, CompletionIsFinal
  <1> HIDE DEF x
  <1>5. CASE grants' = grants
    <2>1. GrantIsBacked'
      BY <1>1, <1>5, GrantFrame DEF DurableInv
    <2>2. DurableTypeOK'
      BY <1>1, <1>3, <1>5 DEF DurableInv, DurableTypeOK, CallerStates
    <2> QED
      BY <1>3, <1>4, <2>1, <2>2 DEF DurableInv
  <1>6. CASE r # NoReceipt /\ ~Unusable(r) /\ Approves(r)
    <2>1. grants' = grants \cup {Grant(k, r, "request")}
      BY <1>1, <1>6
    <2>2. r \in submitted /\ key[r.exec] = k /\ r \in MaybeReceipts /\ r \notin expired
      BY <1>6 DEF DurableInv, ReceiptInv, DurableTypeOK, Unusable
    <2>3. GrantIsBacked'
      <3> HIDE DEF r
      <3> QED
        BY <1>1, <1>6, <2>1, <2>2, GrantAdded DEF DurableInv
    <2>4. DurableTypeOK'
      <3> HIDE DEF r
      <3> QED
        BY <1>1, <1>3, <2>1, <2>2, GrantTyped DEF DurableInv, DurableTypeOK, CallerStates
    <2> QED
      BY <1>3, <1>4, <2>3, <2>4 DEF DurableInv
  <1> QED
    BY <1>1, <1>5, <1>6

LEMMA PurgeStep ==
    ASSUME DurableInv, NEW c \in Callers, Purge(c)
    PROVE  DurableInv'
  <1> DEFINE x == [caller[c] EXCEPT !.pc = "create"]
             k == caller[c].key
  <1>1. /\ caller[c].pc = "purge" /\ cache' = [cache EXCEPT ![k] = NoReceipt]
        /\ caller' = [caller EXCEPT ![c] = x]
        /\ UNCHANGED <<up, starts, live, key, pendingFile, receiptFile, pending,
                       expired, lapsed, submitted, accepted, grants>>
    BY DEF Purge, disk, clock
  <1>2. caller[c] \in CallerStates /\ k \in Keys /\ up
    BY <1>1 DEF DurableInv, DurableTypeOK, CallerStates, CallerInv
  <1>3. x \in CallerStates /\ x.pc = "create" /\ x.key = k
    BY <1>2 DEF CallerStates
  <1> HIDE DEF x
  <1>4. CallerInv' /\ caller' \in [Callers -> CallerStates]
    <2>1. \A d \in Callers : caller[d].pc = "park"
                               => caller[d].exec \in pendingFile' \ pending'
      BY <1>1 DEF DurableInv, CallerInv
    <2> QED
      BY <1>1, <1>2, <1>3, <2>1, CallerMoves DEF DurableInv
  <1>5. cache' \in [Keys -> MaybeReceipts]
    BY <1>1, <1>2 DEF DurableInv, DurableTypeOK, MaybeReceipts
  <1>6. ReceiptInv'
    BY <1>1, <1>2 DEF DurableInv, DurableTypeOK, ReceiptInv
  <1>7. DurableTypeOK'
    BY <1>1, <1>4, <1>5 DEF DurableInv, DurableTypeOK, CallerStates
  <1>8. KnownInv' /\ GrantIsBacked' /\ PendingSurvives' /\ CompletionIsFinal'
    BY <1>1 DEF DurableInv, KnownInv, GrantIsBacked, PendingSurvives, CompletionIsFinal
  <1> QED
    BY <1>4, <1>6, <1>7, <1>8 DEF DurableInv

\* A step that only ends a call.
LEMMA CallEnds ==
    ASSUME DurableInv, NEW c \in Callers, caller' = [caller EXCEPT ![c] = Idle],
           UNCHANGED <<up, accepted>>,
           \A d \in Callers : d # c /\ caller[d].pc = "park"
                                 => caller[d].exec \in pendingFile' \ pending'
    PROVE  CallerInv' /\ caller' \in [Callers -> CallerStates]
  <1>1. Idle \in CallerStates /\ Idle.pc = "idle"
    BY IdleTyped DEF Idle
  <1> QED
    BY <1>1, CallerMoves DEF DurableInv

LEMMA LiveAnswerStep ==
    ASSUME DurableInv, NEW c \in Callers, NEW yes \in BOOLEAN, LiveAnswer(c, yes)
    PROVE  DurableInv'
  <1> DEFINE k == caller[c].key
             r == [exec |-> NewExec, key |-> k, decision |-> "approve"]
  <1>1. /\ caller[c].pc = "create" /\ Len(key) < MaxExecs
        /\ caller' = [caller EXCEPT ![c] = Idle]
        /\ UNCHANGED <<up, starts, live, pendingFile, receiptFile, pending, expired,
                       lapsed, accepted>>
    BY DEF LiveAnswer, disk, clock
  <1>2. CallerInv' /\ caller' \in [Callers -> CallerStates]
    <2>1. \A d \in Callers : caller[d].pc = "park"
                               => caller[d].exec \in pendingFile' \ pending'
      BY <1>1 DEF DurableInv, CallerInv
    <2> QED
      BY <1>1, <2>1, CallEnds
  <1>3. PendingSurvives' /\ CompletionIsFinal'
    BY <1>1 DEF DurableInv, PendingSurvives, CompletionIsFinal
  <1>4. CASE ~yes
    <2>1. UNCHANGED <<key, cache, submitted, grants>>
      BY <1>4 DEF LiveAnswer
    <2>2. DurableTypeOK'
      BY <1>1, <1>2, <2>1 DEF DurableInv, DurableTypeOK, CallerStates
    <2>3. KnownInv' /\ ReceiptInv' /\ GrantIsBacked'
      BY <1>1, <2>1 DEF DurableInv, KnownInv, ReceiptInv, GrantIsBacked
    <2> QED
      BY <1>2, <1>3, <2>2, <2>3 DEF DurableInv
  <1>5. CASE yes
    <2>1. /\ key' = Append(key, k) /\ cache' = [cache EXCEPT ![k] = r]
          /\ submitted' = submitted \cup {r}
          /\ grants' = grants \cup {Grant(k, r, "request")}
      BY <1>5 DEF LiveAnswer
    <2>2. k \in Keys
      BY <1>1 DEF DurableInv, CallerInv
    <2>3. /\ key' \in Seq(Keys) /\ Len(key') <= MaxExecs
          /\ Len(key) \in Nat /\ Len(key') = Len(key) + 1
          /\ NewExec \in Execs /\ NewExec \notin 1 .. Len(key)
          /\ key'[NewExec] = k
          /\ \A e \in 1 .. Len(key) : e \in 1 .. Len(key') /\ key'[e] = key[e]
      BY <1>1, <2>1, <2>2, KeyGrows DEF DurableInv
    <2>4. r \in Receipts /\ r.exec = NewExec /\ r.key = k /\ Approves(r) /\ DecisionIsKnown(r)
      BY <2>2, <2>3 DEF Receipts, Approves, DecisionIsKnown
    <2> HIDE DEF r, k
    <2>5. r \notin submitted /\ r \notin expired
      BY <2>3, <2>4 DEF DurableInv, KnownInv
    <2>6. KnownInv'
      <3>1. NewExec \in 1 .. Len(key')
        BY <2>3 DEF NewExec
      <3>2. \A q \in submitted' :
               q.exec \in 1 .. Len(key') /\ q.key = key'[q.exec] /\ DecisionIsKnown(q)
        BY <2>1, <2>3, <2>4, <3>1 DEF DurableInv, KnownInv
      <3> QED
        BY <1>1, <2>1, <2>3, <3>2 DEF DurableInv, KnownInv
    <2>7. ReceiptInv'
      <3>1. \A j \in Keys : cache'[j] # NoReceipt
               => cache'[j] \in submitted' /\ key'[cache'[j].exec] = j
        <4> SUFFICES ASSUME NEW j \in Keys, cache'[j] # NoReceipt
                     PROVE  cache'[j] \in submitted' /\ key'[cache'[j].exec] = j
          OBVIOUS
        <4>1. CASE j = k
          BY <2>1, <2>2, <2>3, <2>4, <4>1 DEF DurableInv, DurableTypeOK
        <4>2. CASE j # k
          <5>1. cache'[j] = cache[j]
            BY <2>1, <4>2 DEF DurableInv, DurableTypeOK
          <5>2. cache[j] \in submitted /\ key[cache[j].exec] = j
            BY <5>1 DEF DurableInv, ReceiptInv
          <5>3. cache[j].exec \in 1 .. Len(key)
            BY <5>2 DEF DurableInv, KnownInv
          <5> QED
            BY <2>1, <2>3, <5>1, <5>2, <5>3
        <4> QED
          BY <4>1, <4>2
      <3> QED
        BY <1>1, <2>1, <3>1 DEF DurableInv, ReceiptInv
    <2>8. GrantIsBacked'
      BY <2>1, <2>2, <2>3, <2>4, <2>5, GrantAdded DEF DurableInv
    <2>9. DurableTypeOK'
      <3>1. cache' \in [Keys -> MaybeReceipts] /\ submitted' \subseteq Receipts
        BY <2>1, <2>2, <2>4 DEF DurableInv, DurableTypeOK, MaybeReceipts
      <3>2. grants' \subseteq [key : Keys, receipt : MaybeReceipts, fresh : BOOLEAN,
                               by : {"request", "submit"}]
        BY <2>1, <2>2, <2>4, GrantTyped DEF DurableInv, DurableTypeOK, MaybeReceipts
      <3> QED
        BY <1>1, <1>2, <2>3, <3>1, <3>2 DEF DurableInv, DurableTypeOK, CallerStates
    <2> QED
      BY <1>2, <1>3, <2>6, <2>7, <2>8, <2>9 DEF DurableInv
  <1> QED
    BY <1>4, <1>5

LEMMA PersistRequestStep ==
    ASSUME DurableInv, NEW c \in Callers, PersistRequest(c)
    PROVE  DurableInv'
  <1> DEFINE x == [[caller[c] EXCEPT !.pc = "park"] EXCEPT !.exec = NewExec]
             k == caller[c].key
  <1>1. /\ caller[c].pc = "create" /\ Len(key) < MaxExecs /\ key' = Append(key, k)
        /\ pendingFile' = pendingFile \cup {NewExec}
        /\ caller' = [caller EXCEPT ![c] = x]
        /\ UNCHANGED <<up, starts, live, receiptFile, pending, cache, expired, lapsed,
                       submitted, accepted, grants>>
    BY DEF PersistRequest, clock, DurableInv, DurableTypeOK
  <1>2. caller \in [Callers -> CallerStates] /\ caller[c] \in CallerStates /\ k \in Keys /\ up
    BY <1>1 DEF DurableInv, DurableTypeOK, CallerStates, CallerInv
  <1>3. /\ key' \in Seq(Keys) /\ Len(key') <= MaxExecs
        /\ Len(key) \in Nat /\ Len(key') = Len(key) + 1
        /\ NewExec \in Execs /\ NewExec \notin 1 .. Len(key)
        /\ \A e \in 1 .. Len(key) : e \in 1 .. Len(key') /\ key'[e] = key[e]
    BY <1>1, <1>2, KeyGrows DEF DurableInv
  <1>4. NewExec \in 0 .. MaxExecs /\ NewExec \in 1 .. Len(key')
    BY <1>3, DurableConstants DEF Execs, NewExec
  <1>5. x \in CallerStates /\ x.pc = "park" /\ x.key = k /\ x.exec = NewExec
    BY <1>2, <1>4 DEF CallerStates
  <1> HIDE DEF x, k
  <1>6. /\ caller' \in [Callers -> CallerStates] /\ caller'[c] = x
        /\ \A d \in Callers : d # c => caller'[d] = caller[d]
    BY <1>1, <1>2, <1>5
  <1>7. KnownInv'
    BY <1>1, <1>3, <1>4 DEF DurableInv, KnownInv
  <1>8. /\ pending \subseteq 1 .. Len(key) /\ \A q \in accepted : q.exec \in 1 .. Len(key)
        /\ \A d \in Callers : caller[d].pc = "park" => caller[d].exec \in 1 .. Len(key)
    BY DEF DurableInv, KnownInv, PendingSurvives, CallerInv
  <1>9. CallerInv'
    <2> SUFFICES ASSUME NEW b \in Callers
                 PROVE  /\ caller'[b].pc # "idle" => up' /\ caller'[b].key \in Keys
                        /\ caller'[b].pc = "park" =>
                              /\ caller'[b].exec \in pendingFile' \ pending'
                              /\ \A q \in accepted' : q.exec # caller'[b].exec
                              /\ \A d \in Callers :
                                    caller'[d].pc = "park"
                                    /\ caller'[d].exec = caller'[b].exec => d = b
      BY DEF CallerInv
    <2>1. CASE b = c
      BY <1>1, <1>2, <1>3, <1>5, <1>6, <1>8, <2>1
    <2>2. CASE b # c
      BY <1>1, <1>3, <1>5, <1>6, <1>8, <2>2 DEF DurableInv, CallerInv
    <2> QED
      BY <2>1, <2>2
  <1>10. ReceiptInv'
    <2>1. \A q \in submitted : q.exec \in 1 .. Len(key)
      BY DEF DurableInv, KnownInv
    <2> QED
      BY <1>1, <1>3, <2>1 DEF DurableInv, ReceiptInv
  <1>11. GrantIsBacked'
    BY <1>1, <1>3, GrantFrame DEF DurableInv
  <1>12. PendingSurvives' /\ CompletionIsFinal'
    BY <1>1, <1>3, <1>8 DEF DurableInv, PendingSurvives, CompletionIsFinal
  <1>13. DurableTypeOK'
    BY <1>1, <1>3, <1>6 DEF DurableInv, DurableTypeOK, CallerStates
  <1> QED
    BY <1>7, <1>9, <1>10, <1>11, <1>12, <1>13 DEF DurableInv

LEMMA PersistFailsStep ==
    ASSUME DurableInv, NEW c \in Callers, PersistFails(c)
    PROVE  DurableInv'
  <1>1. /\ caller' = [caller EXCEPT ![c] = Idle]
        /\ UNCHANGED <<up, starts, live, key, pendingFile, receiptFile, pending, cache,
                       expired, lapsed, submitted, accepted, grants>>
    BY DEF PersistFails, disk, clock
  <1>2. CallerInv' /\ caller' \in [Callers -> CallerStates]
    <2>1. \A d \in Callers : caller[d].pc = "park"
                               => caller[d].exec \in pendingFile' \ pending'
      BY <1>1 DEF DurableInv, CallerInv
    <2> QED
      BY <1>1, <2>1, CallEnds
  <1>3. DurableTypeOK'
    BY <1>1, <1>2 DEF DurableInv, DurableTypeOK, CallerStates
  <1>4. KnownInv' /\ ReceiptInv' /\ GrantIsBacked' /\ PendingSurvives'
        /\ CompletionIsFinal'
    BY <1>1 DEF DurableInv, KnownInv, ReceiptInv, GrantIsBacked, PendingSurvives,
                CompletionIsFinal
  <1> QED
    BY <1>2, <1>3, <1>4 DEF DurableInv

LEMMA ParkStep ==
    ASSUME DurableInv, NEW c \in Callers, Park(c)
    PROVE  DurableInv'
  <1>1. /\ caller[c].pc = "park" /\ pending' = pending \cup {caller[c].exec}
        /\ caller' = [caller EXCEPT ![c] = Idle]
        /\ UNCHANGED <<up, starts, live, key, pendingFile, receiptFile, cache,
                       expired, lapsed, submitted, accepted, grants>>
    BY DEF Park, disk, clock
  <1>2. caller[c].exec \in pendingFile /\ \A r \in accepted : r.exec # caller[c].exec
    BY <1>1 DEF DurableInv, CallerInv
  <1>3. CallerInv' /\ caller' \in [Callers -> CallerStates]
    <2>1. \A d \in Callers : d # c /\ caller[d].pc = "park"
                               => caller[d].exec \in pendingFile' \ pending'
      BY <1>1 DEF DurableInv, CallerInv
    <2> QED
      BY <1>1, <2>1, CallEnds
  <1>4. DurableTypeOK'
    BY <1>1, <1>2, <1>3 DEF DurableInv, DurableTypeOK, CallerStates
  <1>5. KnownInv' /\ ReceiptInv' /\ GrantIsBacked'
    BY <1>1 DEF DurableInv, KnownInv, ReceiptInv, GrantIsBacked
  <1>6. PendingSurvives' /\ CompletionIsFinal'
    BY <1>1, <1>2 DEF DurableInv, PendingSurvives, CompletionIsFinal
  <1> QED
    BY <1>3, <1>4, <1>5, <1>6 DEF DurableInv

\* Calls that hold a number are not disturbed when another one is answered.
LEMMA CallersStay ==
    ASSUME DurableInv, UNCHANGED <<up, caller>>, pending' \subseteq pending,
           pendingFile \ pendingFile' \subseteq pending,
           \A r \in accepted' : r \in accepted \/ r.exec \in pending
    PROVE  CallerInv'
  BY DEF DurableInv, CallerInv

LEMMA SubmitUnknownStep ==
    ASSUME DurableInv, NEW r \in Receipts, SubmitUnknown(r)
    PROVE  DurableInv'
  <1> DEFINE k == r.key
             got == cache[k]
  <1>1. /\ got # NoReceipt
        /\ grants' = grants \cup {Grant(k, got, "submit")}
        /\ UNCHANGED <<up, starts, live, key, pendingFile, receiptFile, pending, cache,
                       caller, expired, lapsed, submitted, accepted>>
    BY DEF SubmitUnknown, Approves, NoReceipt, disk, clock
  <1>3. k \in Keys
    BY DEF Receipts
  <1>4. got \in MaybeReceipts /\ got \in submitted
    BY <1>1, <1>3 DEF DurableInv, DurableTypeOK, ReceiptInv
  <1> HIDE DEF k, got
  <1>5. GrantIsBacked'
    BY <1>1, <1>3, <1>4, GrantAdded DEF DurableInv
  <1>6. DurableTypeOK'
    BY <1>1, <1>3, <1>4, GrantTyped DEF DurableInv, DurableTypeOK
  <1>7. KnownInv' /\ CallerInv' /\ ReceiptInv' /\ PendingSurvives' /\ CompletionIsFinal'
    BY <1>1 DEF DurableInv, KnownInv, CallerInv, ReceiptInv, PendingSurvives,
                CompletionIsFinal
  <1> QED
    BY <1>5, <1>6, <1>7 DEF DurableInv

\* What both ways through persistReceipt establish about the receipt.
LEMMA ReceiptWritten ==
    ASSUME DurableInv, NEW r \in Receipts, Acceptable(r),
           receiptFile' = [receiptFile EXCEPT ![r.exec] = r],
           submitted' = submitted \cup {r}, UNCHANGED <<key, expired>>,
           accepted' \subseteq accepted \cup {r}, pendingFile' \subseteq pendingFile
    PROVE  /\ KnownInv' /\ r.key \in Keys /\ r.key = key[r.exec] /\ r.exec \in Execs
           /\ receiptFile' \in [Execs -> MaybeReceipts] /\ submitted' \subseteq Receipts
           /\ \A e \in Execs : receiptFile'[e] # NoReceipt
                 => receiptFile'[e] \in submitted' /\ receiptFile'[e].exec = e
  <1>1. /\ r.exec \in Execs /\ r.exec \in 1 .. Len(key) /\ key \in Seq(Keys)
        /\ r.key \in Keys /\ r.key = key[r.exec] /\ DecisionIsKnown(r)
    BY NoReceiptApart
    DEF DurableInv, DurableTypeOK, KnownInv, PendingSurvives, Acceptable, ReceiptMatches, Receipts
  <1>2. KnownInv'
    BY <1>1 DEF DurableInv, KnownInv
  <1>3. receiptFile' \in [Execs -> MaybeReceipts] /\ submitted' \subseteq Receipts
    BY <1>1 DEF DurableInv, DurableTypeOK, MaybeReceipts
  <1>4. \A e \in Execs : receiptFile'[e] # NoReceipt
           => receiptFile'[e] \in submitted' /\ receiptFile'[e].exec = e
    BY <1>1 DEF DurableInv, DurableTypeOK, ReceiptInv
  <1> QED
    BY <1>1, <1>2, <1>3, <1>4

LEMMA SubmitPendingStep ==
    ASSUME DurableInv, NEW r \in Receipts, SubmitPending(r)
    PROVE  DurableInv'
  <1> DEFINE k == r.key
  <1>1. /\ Acceptable(r) /\ r.exec \in pending
        /\ receiptFile' = [receiptFile EXCEPT ![r.exec] = r]
        /\ submitted' = submitted \cup {r}
        /\ pendingFile' = pendingFile \ {r.exec}
        /\ pending' = pending \ {r.exec}
        /\ cache' = [cache EXCEPT ![k] = r]
        /\ accepted' = accepted \cup {r}
        /\ grants' = IF Approves(r) THEN grants \cup {Grant(k, r, "submit")} ELSE grants
        /\ UNCHANGED <<up, starts, live, key, caller, expired, lapsed>>
    BY DEF SubmitPending, RemovePending, Acceptable, clock
  <1>2. /\ KnownInv' /\ k \in Keys /\ k = key[r.exec] /\ r.exec \in Execs
        /\ receiptFile' \in [Execs -> MaybeReceipts] /\ submitted' \subseteq Receipts
        /\ \A e \in Execs : receiptFile'[e] # NoReceipt
              => receiptFile'[e] \in submitted' /\ receiptFile'[e].exec = e
    BY <1>1, ReceiptWritten
  <1>3. ReceiptInv'
    <2>1. cache' \in [Keys -> MaybeReceipts] /\ cache'[k] = r
          /\ \A j \in Keys : j # k => cache'[j] = cache[j]
      BY <1>1, <1>2 DEF DurableInv, DurableTypeOK, MaybeReceipts
    <2>2. \A j \in Keys : cache'[j] # NoReceipt
             => cache'[j] \in submitted' /\ key[cache'[j].exec] = j
      BY <1>1, <1>2, <2>1 DEF DurableInv, ReceiptInv
    <2> QED
      BY <1>1, <1>2, <2>2 DEF ReceiptInv
  <1>4. CallerInv'
    BY <1>1, CallersStay
  <1>5. PendingSurvives' /\ CompletionIsFinal'
    BY <1>1 DEF DurableInv, PendingSurvives, CompletionIsFinal
  <1>6. /\ cache' \in [Keys -> MaybeReceipts] /\ r \in MaybeReceipts
        /\ \A e \in 1 .. Len(key) : key'[e] = key[e]
    BY <1>1, <1>2 DEF DurableInv, DurableTypeOK, MaybeReceipts
  <1> HIDE DEF k
  <1>7. GrantIsBacked'
    <2>1. CASE Approves(r)
      <3>1. grants' = grants \cup {Grant(k, r, "submit")} /\ r \in submitted'
            /\ submitted \subseteq submitted'
        BY <1>1, <2>1
      <3> QED
        BY <1>2, <1>6, <3>1, GrantAdded DEF DurableInv
    <2>2. CASE ~Approves(r)
      BY <1>1, <1>6, <2>2, GrantFrame DEF DurableInv
    <2> QED
      BY <2>1, <2>2
  <1>8. DurableTypeOK'
    <2>1. grants' \subseteq [key : Keys, receipt : MaybeReceipts, fresh : BOOLEAN,
                             by : {"request", "submit"}]
      BY <1>1, <1>2, <1>6, GrantTyped DEF DurableInv, DurableTypeOK
    <2> QED
      BY <1>1, <1>2, <1>6, <2>1 DEF DurableInv, DurableTypeOK
  <1> QED
    BY <1>2, <1>3, <1>4, <1>5, <1>7, <1>8 DEF DurableInv

LEMMA SubmitInterruptedStep ==
    ASSUME DurableInv, NEW r \in Receipts, SubmitInterrupted(r)
    PROVE  DurableInv'
  <1>1. /\ Acceptable(r)
        /\ receiptFile' = [receiptFile EXCEPT ![r.exec] = r]
        /\ submitted' = submitted \cup {r}
        /\ UNCHANGED <<up, pending, cache, caller>> \/ Stopped
        /\ UNCHANGED <<starts, live, key, pendingFile, expired, lapsed, accepted, grants>>
    BY DEF SubmitInterrupted, clock
  <1>2. /\ KnownInv'
        /\ receiptFile' \in [Execs -> MaybeReceipts] /\ submitted' \subseteq Receipts
        /\ \A e \in Execs : receiptFile'[e] # NoReceipt
              => receiptFile'[e] \in submitted' /\ receiptFile'[e].exec = e
    BY <1>1, ReceiptWritten
  <1>3. GrantIsBacked'
    BY <1>1, GrantFrame DEF DurableInv
  <1>4. CASE UNCHANGED <<up, pending, cache, caller>>
    <2>1. DurableTypeOK'
      BY <1>1, <1>2, <1>4 DEF DurableInv, DurableTypeOK
    <2>2. CallerInv'
      BY <1>1, <1>4 DEF DurableInv, CallerInv
    <2>3. ReceiptInv' /\ PendingSurvives' /\ CompletionIsFinal'
      BY <1>1, <1>2, <1>4 DEF DurableInv, ReceiptInv, PendingSurvives, CompletionIsFinal
    <2> QED
      BY <1>2, <1>3, <2>1, <2>2, <2>3 DEF DurableInv
  <1>5. CASE Stopped
    <2>0. pending' = {}
      BY <1>5 DEF Stopped
    <2>1. DurableTypeOK' /\ CallerInv'
      BY <1>1, <1>2, <1>5, StoppedKeeps DEF DurableInv, DurableTypeOK, CallerStates
    <2>2. ReceiptInv'
      BY <1>1, <1>2, <1>5, StoppedKeeps DEF ReceiptInv
    <2>3. PendingSurvives' /\ CompletionIsFinal'
      BY <1>1, <2>0 DEF DurableInv, PendingSurvives, CompletionIsFinal
    <2> QED
      BY <1>2, <1>3, <2>1, <2>2, <2>3 DEF DurableInv
  <1> QED
    BY <1>1, <1>4, <1>5

LEMMA DropLapsedStep ==
    ASSUME DurableInv, NEW e \in Execs, DropLapsed(e)
    PROVE  DurableInv'
  <1>1. /\ e \in pending /\ pending' = pending \ {e}
        /\ pendingFile' \subseteq pendingFile /\ pendingFile \ {e} \subseteq pendingFile'
        /\ UNCHANGED <<up, starts, live, key, receiptFile, cache, caller, expired, lapsed,
                       submitted, accepted, grants>>
    BY DEF DropLapsed, clock
  <1>2. DurableTypeOK' /\ PendingSurvives' /\ CompletionIsFinal'
    BY <1>1 DEF DurableInv, DurableTypeOK, PendingSurvives, CompletionIsFinal
  <1>3. CallerInv'
    BY <1>1, CallersStay
  <1>4. KnownInv' /\ ReceiptInv' /\ GrantIsBacked'
    BY <1>1, KnownFrame DEF DurableInv, ReceiptInv, GrantIsBacked
  <1> QED
    BY <1>2, <1>3, <1>4 DEF DurableInv

LEMMA CleanupStep ==
    ASSUME DurableInv, Cleanup
    PROVE  DurableInv'
  <1>1. /\ pending' = pending \ lapsed
        /\ pendingFile' = pendingFile \ (pending \cap lapsed)
        /\ cache' = [k \in Keys |-> IF cache[k] \in expired THEN NoReceipt ELSE cache[k]]
        /\ UNCHANGED <<up, starts, live, key, caller, expired, lapsed, submitted,
                       accepted, grants>>
    BY DEF Cleanup, clock
  <1>2. PICK gone : receiptFile' = [e \in Execs |-> IF e \in gone THEN NoReceipt
                                                                 ELSE receiptFile[e]]
    BY DEF Cleanup
  <1>3. DurableTypeOK'
    BY <1>1, <1>2 DEF DurableInv, DurableTypeOK, MaybeReceipts
  <1>4. PendingSurvives' /\ CompletionIsFinal'
    BY <1>1 DEF DurableInv, PendingSurvives, CompletionIsFinal
  <1>5. CallerInv'
    BY <1>1, CallersStay
  <1>6. ReceiptInv'
    BY <1>1, <1>2 DEF DurableInv, ReceiptInv
  <1>7. KnownInv' /\ GrantIsBacked'
    BY <1>1, KnownFrame DEF DurableInv, GrantIsBacked
  <1> QED
    BY <1>3, <1>4, <1>5, <1>6, <1>7 DEF DurableInv

LEMMA TimeStep ==
    ASSUME DurableInv,
           \/ \E r \in submitted : ExpireReceipt(r)
           \/ \E e \in Execs : LapseRequest(e)
           \/ UNCHANGED durableVars
    PROVE  DurableInv'
  <1>1. /\ UNCHANGED <<up, starts, live, key, pendingFile, receiptFile, pending, cache,
                       caller, submitted, accepted, grants>>
        /\ expired' \subseteq submitted /\ lapsed' \subseteq Execs
    BY DEF DurableInv, DurableTypeOK, KnownInv, ExpireReceipt, LapseRequest, durableVars, disk
  <1>2. DurableTypeOK' /\ KnownInv' /\ CallerInv'
    BY <1>1 DEF DurableInv, DurableTypeOK, KnownInv, CallerInv
  <1>3. ReceiptInv' /\ GrantIsBacked' /\ PendingSurvives' /\ CompletionIsFinal'
    BY <1>1 DEF DurableInv, ReceiptInv, GrantIsBacked, PendingSurvives, CompletionIsFinal
  <1> QED
    BY <1>2, <1>3 DEF DurableInv

-----------------------------------------------------------------------------
(***************************************************************************)
(* The theorems.                                                           *)
(***************************************************************************)
LEMMA StepInv == DurableInv /\ [DurableNext]_durableVars => DurableInv'
  BY StartStep, CrashStep, LookStep, PurgeStep, LiveAnswerStep, PersistRequestStep,
     PersistFailsStep, ParkStep, SubmitUnknownStep, SubmitPendingStep,
     SubmitInterruptedStep, DropLapsedStep, CleanupStep, TimeStep DEF DurableNext

LEMMA Invariance == DurableSpec => []DurableInv
  BY InitInv, StepInv, PTL DEF DurableSpec

\* SubmitReceipt, removePending and loadState: a request whose receipt was
\* accepted is never pending again, in memory or on disk, over any number of
\* crashes, failed file operations, concurrent requests and restarts.
THEOREM CompletedStaysCompleted == DurableSpec => []CompletionIsFinal
  <1>1. DurableInv => CompletionIsFinal
    BY DEF DurableInv
  <1> QED
    BY <1>1, Invariance, PTL

\* persistRequest, the receipt cache and loadState: whatever is pending is on
\* disk, and a grant of RequestApproval rests on an unexpired approval of a
\* request of the same identity.
THEOREM NothingIsLost == DurableSpec => []RequestsAreKept
  <1>1. DurableInv => RequestsAreKept
    BY DEF DurableInv, RequestsAreKept
  <1> QED
    BY <1>1, Invariance, PTL
=============================================================================
