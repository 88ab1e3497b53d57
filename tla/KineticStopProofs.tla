------------------------- MODULE KineticStopProofs -------------------------
(***************************************************************************)
(* The kinetic stop for any number of proxies, commands, restarts and      *)
(* losses of the control channel.  The properties rest on what a monitor   *)
(* past its latch knows: the latch is set, the command it enforces was     *)
(* published and covers its epoch, once it has killed the server no launch *)
(* is under way, and it comes to the state file only with its audit record *)
(* committed.                                                              *)
(***************************************************************************)
EXTENDS KineticStop, TLAPS

Latched == {"latched", "marked", "contained", "audited", "read", "persisted",
            "bookkept"}
Killed == {"contained", "audited", "read", "persisted", "bookkept"}

\* A latched monitor enforces a published command that covers its epoch, or
\* the loss of the channel.
LatchInv ==
    \A p \in Proxies :
        mon[p] \in Latched =>
            /\ revoked[p]
            /\ stop[p] \in Commands \cup {"lost"}
            /\ stop[p] \in Commands =>
                  stop[p] \in Published /\ Through[stop[p]] >= Epoch[p]

\* After the kill no server runs and none is being launched.
KillInv ==
    \A p \in Proxies :
        mon[p] \in Killed => child[p] # "running" /\ main[p] # "started"

\* WriteState is reached with the record committed.
RecordInv ==
    \A p \in Proxies :
        mon[p] \in {"audited", "read"} =>
            stop[p] \in Commands /\ <<p, stop[p]>> \in audited

\* An epoch is that of some published command, or 0.
Commanded(epoch) == epoch = 0 \/ \E c \in Published : epoch = Through[c]

EpochInv == Commanded(state.epoch) /\ \A p \in Proxies : Commanded(seen[p])

\* The files name published commands and audited stops.
FileInv ==
    /\ command \in Commands => command \in Published
    /\ \A p \in Proxies, c \in Commands :
          <<p, c>> \in audited => Through[c] >= Epoch[p]
    /\ state = NoState \/ (/\ state.epoch # 0
                           /\ \E p \in Proxies : <<p, state.id>> \in audited)
    /\ \A c \in Commands :
          cli[c] = "acked" => \E p \in Proxies : <<p, c>> \in audited

IndInv == TypeOK /\ LatchInv /\ KillInv /\ RecordInv /\ EpochInv /\ FileInv

-----------------------------------------------------------------------------
\* The first state satisfies the invariant.
LEMMA InitInv == Init => IndInv
<1> SUFFICES ASSUME Init PROVE IndInv
  OBVIOUS
<1>1. TypeOK
  BY KineticConstants DEF Init, TypeOK, NoState
<1>2. LatchInv /\ KillInv /\ RecordInv
  BY DEF Init, LatchInv, KillInv, RecordInv, Latched, Killed
<1>3. EpochInv /\ FileInv
  BY KineticConstants DEF Init, EpochInv, Commanded, FileInv, NoState, Published
<1> QED BY <1>1, <1>2, <1>3 DEF IndInv

\* A command that was published stays published, and its epochs commanded.
LEMMA PublishedGrows ==
    ASSUME IndInv, [Next]_vars
    PROVE  /\ Published \subseteq Published'
           /\ \A e : Commanded(e) => Commanded(e)'
<1>1. \A c \in Commands : cli[c] \notin {"idle", "refused"}
                             => cli'[c] \notin {"idle", "refused"}
  <2>0. cli \in [Commands -> {"idle", "refused", "waiting", "acked", "timeout"}]
    BY DEF IndInv, TypeOK
  <2>1. ASSUME NEW d \in Commands, Publish(d) \/ Acknowledge(d) \/ GiveUp(d)
        PROVE  <1>1!:
    BY <2>0, <2>1 DEF Publish, Acknowledge, GiveUp
  <2>2. CASE UNCHANGED cli
    BY <2>2
  <2>3. (\E d \in Commands : Publish(d) \/ Acknowledge(d) \/ GiveUp(d))
           \/ UNCHANGED cli
    BY DEF Next, vars, LoseControl, Build, LaunchStep, StartupCheck, Launch,
       Register, RelayEnds, ReturnStep, RelayRefused, Join, Exit, MonitorStep,
       Latch, Mark, Contain, Audit, ReadState, WriteState, Bookkeep, Crash
  <2> QED BY <2>1, <2>2, <2>3
<1> QED BY <1>1 DEF Published, Commanded

-----------------------------------------------------------------------------
\* The stop command and the control directory.
LEMMA ControlStep ==
    ASSUME IndInv, Published \subseteq Published',
           \A e : Commanded(e) => Commanded(e)',
           LoseControl \/ \E c \in Commands :
                             Publish(c) \/ Acknowledge(c) \/ GiveUp(c)
    PROVE  IndInv'
<1>0. UNCHANGED <<state, runVars, monVars, audited>>
  BY DEF LoseControl, Publish, Acknowledge, GiveUp, fileVars
<1>1. TypeOK'
  <2>1. CASE LoseControl
    BY <1>0, <2>1, KineticConstants
    DEF LoseControl, IndInv, TypeOK, runVars, monVars
  <2>2. ASSUME NEW c \in Commands, Publish(c) \/ Acknowledge(c) \/ GiveUp(c)
        PROVE  TypeOK'
    <3>1. /\ command' \in Commands \cup {"none", "lost"}
          /\ UNCHANGED <<losses, damaged>>
      BY <2>2 DEF Publish, Acknowledge, GiveUp, IndInv, TypeOK, fileVars
    <3>2. cli' \in [Commands -> {"idle", "refused", "waiting", "acked",
                                 "timeout"}]
      BY <2>2 DEF Publish, Acknowledge, GiveUp, IndInv, TypeOK
    <3> QED BY <1>0, <3>1, <3>2 DEF IndInv, TypeOK, runVars, monVars
  <2> QED BY <2>1, <2>2
<1>2. LatchInv' /\ KillInv' /\ RecordInv'
  BY <1>0 DEF IndInv, LatchInv, KillInv, RecordInv, runVars, monVars
<1>3. EpochInv'
  BY <1>0 DEF IndInv, EpochInv, runVars, monVars
<1>4. FileInv'
  <2>1. CASE LoseControl
    BY <1>0, <2>1, KineticConstants DEF LoseControl, IndInv, FileInv, NoState
  <2>2. ASSUME NEW c \in Commands, Publish(c)
        PROVE  FileInv'
    <3>1. command' \in Commands => command' \in Published'
      <4>1. CASE Weaker(c)
        BY <2>2, <4>1 DEF Publish, IndInv, FileInv
      <4>2. CASE ~Weaker(c)
        BY <2>2, <4>2 DEF Publish, IndInv, TypeOK, Published
      <4> QED BY <4>1, <4>2
    <3>2. \A d \in Commands : cli'[d] = "acked" => cli[d] = "acked"
      BY <2>2 DEF Publish, IndInv, TypeOK
    <3> QED BY <1>0, <3>1, <3>2 DEF IndInv, FileInv, NoState
  <2>3. ASSUME NEW c \in Commands, Acknowledge(c)
        PROVE  FileInv'
    <3>1. \E p \in Proxies : <<p, c>> \in audited
      BY <2>3, KineticConstants DEF Acknowledge, IndInv, FileInv, NoState
    <3> QED BY <1>0, <2>3, <3>1
            DEF Acknowledge, IndInv, TypeOK, FileInv, NoState, Published, fileVars
  <2>4. ASSUME NEW c \in Commands, GiveUp(c)
        PROVE  FileInv'
    BY <1>0, <2>4
    DEF GiveUp, IndInv, TypeOK, FileInv, NoState, Published, fileVars
  <2> QED BY <2>1, <2>2, <2>3, <2>4
<1> QED BY <1>1, <1>2, <1>3, <1>4 DEF IndInv

\* Run, up to the end of the process.
LEMMA RunStep ==
    ASSUME IndInv, NEW p \in Proxies,
           Build(p) \/ LaunchStep(p) \/ RelayEnds(p) \/ ReturnStep(p) \/ Crash(p)
    PROVE  IndInv'
<1>0. UNCHANGED <<fileVars, cli, audited>>
  BY DEF Build, LaunchStep, StartupCheck, Launch, Register, RelayEnds,
     ReturnStep, RelayRefused, Join, Exit, Crash
<1>1. FileInv'
  BY <1>0 DEF IndInv, FileInv, Published, fileVars, NoState
<1>2. UNCHANGED Published
  BY <1>0 DEF Published
<1>3. CASE Build(p)
  <2>1. TypeOK'
    BY <1>0, <1>3, KineticConstants DEF Build, IndInv, TypeOK, Published, fileVars
  <2>2. LatchInv' /\ KillInv' /\ RecordInv'
    BY <1>0, <1>2, <1>3
    DEF Build, IndInv, TypeOK, LatchInv, KillInv, RecordInv, Latched, Killed
  <2>3. EpochInv'
    BY <1>0, <1>2, <1>3 DEF Build, IndInv, TypeOK, EpochInv, Commanded, fileVars
  <2> QED BY <1>1, <2>1, <2>2, <2>3 DEF IndInv
<1>4. CASE StartupCheck(p)
  <2>1. TypeOK'
    BY <1>0, <1>4 DEF StartupCheck, IndInv, TypeOK, fileVars
  <2>2. LatchInv' /\ KillInv' /\ RecordInv'
    BY <1>0, <1>2, <1>4
    DEF StartupCheck, IndInv, TypeOK, LatchInv, KillInv, RecordInv, Latched, Killed
  <2>3. EpochInv'
    BY <1>0, <1>2, <1>4 DEF StartupCheck, IndInv, EpochInv, Commanded, fileVars
  <2> QED BY <1>1, <2>1, <2>2, <2>3 DEF IndInv
<1>5. CASE /\ UNCHANGED <<starts, covered, known, monVars>>
           /\ \/ Launch(p) \/ Register(p) \/ RelayEnds(p) \/ RelayRefused(p)
              \/ Join(p) \/ Exit(p) \/ Crash(p)
  <2>1. TypeOK'
    BY <1>0, <1>5 DEF Launch, Register, RelayEnds, RelayRefused, Join, Exit,
       Crash, IndInv, TypeOK, fileVars, monVars
  <2>2. LatchInv' /\ RecordInv' /\ EpochInv'
    BY <1>0, <1>2, <1>5
    DEF IndInv, LatchInv, RecordInv, EpochInv, Commanded, fileVars, monVars
  <2>3. KillInv'
    BY <1>5 DEF Launch, Register, RelayEnds, RelayRefused, Join, Exit, Crash,
       RefusesLaunch, IndInv, TypeOK, LatchInv, KillInv, Latched, Killed, monVars
  <2> QED BY <1>1, <2>1, <2>2, <2>3 DEF IndInv
<1> QED BY <1>3, <1>4, <1>5 DEF LaunchStep, ReturnStep, Launch, Register,
        RelayEnds, RelayRefused, Join, Exit, Crash

\* The monitor and enforceKineticStop.
LEMMA EnforceStep ==
    ASSUME IndInv, NEW p \in Proxies, MonitorStep(p)
    PROVE  IndInv'
<1>0. UNCHANGED cli /\ UNCHANGED Published
  BY DEF MonitorStep, Latch, Mark, Contain, Audit, ReadState, WriteState,
     Bookkeep, Published
<1>1. CASE Latch(p)
  <2>1. TypeOK'
    BY <1>0, <1>1 DEF Latch, IndInv, TypeOK, fileVars, runVars
  <2>2. LatchInv'
    <3>1. command \in Commands \cup {"lost"}
      BY <1>1 DEF Latch, MustStop, Stops, Revokes
    <3>2. command \in Commands => Through[command] >= Epoch[p]
      BY <1>1, KineticConstants DEF Latch, MustStop, Stops, Revokes
    <3> QED BY <1>0, <1>1, <3>1, <3>2
            DEF Latch, IndInv, TypeOK, LatchInv, FileInv
  <2>3. KillInv' /\ RecordInv'
    BY <1>1 DEF Latch, IndInv, TypeOK, KillInv, RecordInv, Killed, runVars
  <2>4. EpochInv' /\ FileInv'
    BY <1>0, <1>1 DEF Latch, IndInv, EpochInv, Commanded, FileInv, NoState, fileVars
  <2> QED BY <2>1, <2>2, <2>3, <2>4 DEF IndInv
<1>2. CASE Mark(p) \/ Bookkeep(p)
  <2>1. TypeOK'
    <3>1. CASE Mark(p)
      BY <1>0, <3>1 DEF Mark, IndInv, TypeOK, fileVars, runVars
    <3>2. CASE Bookkeep(p)
      BY <1>0, <3>2 DEF Bookkeep, IndInv, TypeOK, fileVars, runVars
    <3> QED BY <1>2, <3>1, <3>2
  <2>2. LatchInv' /\ KillInv' /\ RecordInv'
    BY <1>0, <1>2 DEF Mark, Bookkeep, Enforcing, IndInv, TypeOK, LatchInv,
       KillInv, RecordInv, Latched, Killed, runVars
  <2>3. EpochInv' /\ FileInv'
    BY <1>0, <1>2 DEF Mark, Bookkeep, IndInv, EpochInv, Commanded, FileInv,
       NoState, fileVars
  <2> QED BY <2>1, <2>2, <2>3 DEF IndInv
<1>3. CASE Contain(p)
  <2>1. TypeOK'
    BY <1>0, <1>3 DEF Contain, IndInv, TypeOK, fileVars
  <2>2. LatchInv' /\ KillInv' /\ RecordInv'
    BY <1>0, <1>3 DEF Contain, Enforcing, IndInv, TypeOK, LatchInv, KillInv,
       RecordInv, Latched, Killed
  <2>3. EpochInv' /\ FileInv'
    BY <1>0, <1>3 DEF Contain, IndInv, EpochInv, Commanded, FileInv, NoState,
       fileVars
  <2> QED BY <2>1, <2>2, <2>3 DEF IndInv
<1>4. CASE Audit(p)
  <2>0. PICK ok \in BOOLEAN :
            /\ audited' = IF ok THEN audited \cup {<<p, stop[p]>>} ELSE audited
            /\ mon' = [mon EXCEPT ![p] = AfterAudit(p, ok)]
    BY <1>4 DEF Audit
  <2>1. stop[p] \in Commands \cup {"lost"} /\ mon[p] = "contained"
    BY <1>4 DEF Audit, Enforcing, IndInv, LatchInv, Latched
  <2>2. audited \subseteq audited' /\ audited' \subseteq audited \cup {<<p, stop[p]>>}
    BY <2>0
  <2>3. TypeOK'
    BY <1>0, <1>4, <2>0, <2>1, <2>2
    DEF Audit, AfterAudit, IndInv, TypeOK, fileVars, runVars
  <2>4. LatchInv' /\ KillInv'
    BY <1>0, <1>4, <2>0 DEF Audit, AfterAudit, Enforcing, IndInv, TypeOK,
       LatchInv, KillInv, Latched, Killed, runVars
  <2>5. RecordInv'
    BY <1>4, <2>0, <2>2 DEF Audit, AfterAudit, IndInv, TypeOK, RecordInv
  <2>6. EpochInv'
    BY <1>0, <1>4 DEF Audit, IndInv, EpochInv, Commanded, fileVars
  <2>7. FileInv'
    <3>1. stop[p] \in Commands => Through[stop[p]] >= Epoch[p]
      BY <2>1 DEF IndInv, LatchInv, Latched
    <3> QED BY <1>0, <1>4, <2>2, <3>1 DEF Audit, IndInv, FileInv, NoState, fileVars
  <2> QED BY <2>3, <2>4, <2>5, <2>6, <2>7 DEF IndInv
<1>5. CASE ReadState(p)
  <2>1. TypeOK'
    BY <1>0, <1>5 DEF ReadState, IndInv, TypeOK, fileVars, runVars
  <2>2. LatchInv' /\ KillInv' /\ RecordInv'
    BY <1>0, <1>5 DEF ReadState, Enforcing, IndInv, TypeOK, LatchInv, KillInv,
       RecordInv, Latched, Killed, runVars
  <2>3. EpochInv' /\ FileInv'
    BY <1>0, <1>5 DEF ReadState, IndInv, TypeOK, EpochInv, Commanded, FileInv,
       NoState, fileVars
  <2> QED BY <2>1, <2>2, <2>3 DEF IndInv
<1>6. CASE WriteState(p)
  <2>0. /\ stop[p] \in Commands /\ <<p, stop[p]>> \in audited
        /\ stop[p] \in Published
    BY <1>6 DEF WriteState, Enforcing, IndInv, RecordInv, LatchInv, Latched
  <2>1. /\ StateEpoch(p) \in Nat /\ StateEpoch(p) # 0
        /\ Commanded(StateEpoch(p))
    BY <2>0, KineticConstants DEF StateEpoch, IndInv, TypeOK, EpochInv, Commanded
  <2>2. TypeOK'
    BY <1>0, <1>6, <2>0, <2>1 DEF WriteState, IndInv, TypeOK, runVars
  <2>3. LatchInv' /\ KillInv' /\ RecordInv'
    BY <1>0, <1>6 DEF WriteState, Enforcing, IndInv, TypeOK, LatchInv, KillInv,
       RecordInv, Latched, Killed, runVars
  <2>4. EpochInv'
    BY <1>0, <1>6, <2>1 DEF WriteState, IndInv, EpochInv, Commanded
  <2>5. FileInv'
    BY <1>0, <1>6, <2>0, <2>1 DEF WriteState, IndInv, FileInv, NoState
  <2> QED BY <2>2, <2>3, <2>4, <2>5 DEF IndInv
<1> QED BY <1>1, <1>2, <1>3, <1>4, <1>5, <1>6 DEF MonitorStep

-----------------------------------------------------------------------------
\* The invariant is inductive.
LEMMA Inductive == Spec => []IndInv
<1>1. IndInv /\ [Next]_vars => IndInv'
  <2> SUFFICES ASSUME IndInv, [Next]_vars PROVE IndInv'
    OBVIOUS
  <2>1. CASE UNCHANGED vars
    <3>1. TypeOK'
      BY <2>1 DEF vars, IndInv, TypeOK
    <3>2. LatchInv' /\ KillInv' /\ RecordInv'
      BY <2>1 DEF vars, IndInv, LatchInv, KillInv, RecordInv, Published
    <3>3. EpochInv' /\ FileInv'
      BY <2>1 DEF vars, IndInv, EpochInv, Commanded, FileInv, Published, NoState
    <3> QED BY <3>1, <3>2, <3>3 DEF IndInv
  <2>2. CASE LoseControl \/ \E c \in Commands :
                                Publish(c) \/ Acknowledge(c) \/ GiveUp(c)
    <3>1. Published \subseteq Published' /\ \A e : Commanded(e) => Commanded(e)'
      BY PublishedGrows
    <3> QED BY <2>2, <3>1, ControlStep
  <2>3. ASSUME NEW p \in Proxies, MonitorStep(p)
        PROVE  IndInv'
    BY <2>3, EnforceStep
  <2>4. ASSUME NEW p \in Proxies,
               Build(p) \/ LaunchStep(p) \/ RelayEnds(p) \/ ReturnStep(p)
                  \/ Crash(p)
        PROVE  IndInv'
    BY <2>4, RunStep
  <2> QED BY <2>1, <2>2, <2>3, <2>4 DEF Next
<1> QED BY <1>1, InitInv, PTL DEF Spec

\* The variables of the kinetic stop keep their types.
THEOREM TypeCorrect == Spec => []TypeOK
  BY Inductive, PTL DEF IndInv

\* startSupervised and containSupervisedProcess: a launch racing with the stop
\* never leaves a running server behind the kill.
THEOREM ContainmentHolds == Spec => []ContainedStaysDead
<1>1. IndInv => ContainedStaysDead
  BY DEF IndInv, KillInv, Killed, ContainedStaysDead
<1> QED BY <1>1, Inductive, PTL

\* A success of mcp-visor stop is backed by the audit record of the command,
\* committed by a proxy the command covers.
THEOREM AcknowledgementHolds == Spec => []AckMeansEnforced
<1>1. IndInv => AckMeansEnforced
  BY DEF IndInv, FileInv, AckMeansEnforced
<1> QED BY <1>1, Inductive, PTL

\* The state file names an audited stop and an epoch that was commanded, over
\* all races of its writers.
THEOREM StateHolds == Spec => []StateIsBacked
<1>1. IndInv => StateIsBacked
  BY DEF IndInv, FileInv, EpochInv, Commanded, StateIsBacked
<1> QED BY <1>1, Inductive, PTL

-----------------------------------------------------------------------------
(***************************************************************************)
(* Restarts.  While the control directory is intact the command file holds *)
(* the strongest command ever published, so a proxy that passes its        *)
(* startup check is not covered by any command published before its start. *)
(***************************************************************************)
Uncovered(p) == \A c \in covered[p] : Through[c] < Epoch[p]

StrongestInv ==
    ~damaged =>
        /\ command # "lost"
        /\ \A c \in Published : command \in Commands /\ Through[c] <= Through[command]

CoveredInv ==
    /\ \A p \in Proxies : covered[p] \subseteq Published
    /\ ~damaged =>
          \A p \in Proxies :
              main[p] = "launching" \/ child[p] \in {"running", "orphan"}
                  => Uncovered(p)

LEMMA RestartInit == Init => StrongestInv /\ CoveredInv
<1> SUFFICES ASSUME Init PROVE StrongestInv /\ CoveredInv
  OBVIOUS
<1>1. Published = {} /\ command = "none"
  BY DEF Init, Published
<1>2. \A p \in Proxies : covered[p] = {} /\ main[p] = "down" /\ child[p] = "none"
  BY DEF Init
<1> QED BY <1>1, <1>2 DEF StrongestInv, CoveredInv, Uncovered

LEMMA StrongestStep ==
    ASSUME IndInv, StrongestInv, [Next]_vars
    PROVE  StrongestInv'
<1>0. /\ cli \in [Commands -> {"idle", "refused", "waiting", "acked", "timeout"}]
      /\ command \in Commands \cup {"none", "lost"} /\ damaged \in BOOLEAN
  BY DEF IndInv, TypeOK
<1>1. CASE LoseControl
  BY <1>1 DEF LoseControl, StrongestInv
<1>2. ASSUME NEW c \in Commands, Publish(c)
      PROVE  StrongestInv'
  <2>1. CASE Weaker(c)
    <3>1. Published' = Published /\ UNCHANGED <<command, damaged>>
      BY <1>0, <1>2, <2>1 DEF Publish, Published
    <3> QED BY <3>1 DEF StrongestInv
  <2>2. CASE ~Weaker(c)
    <3>1. Published' = Published \cup {c} /\ command' = c /\ damaged' = damaged
      BY <1>0, <1>2, <2>2 DEF Publish, Published
    <3>2. command \in Commands => Through[command] <= Through[c]
      BY <2>2, KineticConstants DEF Weaker
    <3>3. \A d \in Published : d \in Commands
      BY DEF Published
    <3> QED BY <1>2, <3>1, <3>2, <3>3, KineticConstants DEF StrongestInv
  <2> QED BY <2>1, <2>2
<1>3. CASE UNCHANGED <<command, damaged>> /\ Published' = Published
  BY <1>3 DEF StrongestInv
<1>4. ASSUME NEW c \in Commands, Acknowledge(c) \/ GiveUp(c)
      PROVE  UNCHANGED <<command, damaged>> /\ Published' = Published
  BY <1>0, <1>4 DEF Acknowledge, GiveUp, Published, fileVars
<1>5. ASSUME NEW p \in Proxies, Build(p) \/ LaunchStep(p) \/ RelayEnds(p)
                 \/ ReturnStep(p) \/ MonitorStep(p) \/ Crash(p)
      PROVE  UNCHANGED <<command, damaged, cli>>
  BY <1>5 DEF Build, LaunchStep, StartupCheck, Launch, Register, RelayEnds,
     ReturnStep, RelayRefused, Join, Exit, MonitorStep, Latch, Mark, Contain,
     Audit, ReadState, WriteState, Bookkeep, Crash, fileVars
<1>6. UNCHANGED cli => Published' = Published
  BY DEF Published
<1>7. CASE UNCHANGED vars
  BY <1>3, <1>6, <1>7 DEF vars
<1> QED BY <1>1, <1>2, <1>3, <1>4, <1>5, <1>6, <1>7 DEF Next

\* A step of Run or of the monitor of one proxy, for CoveredInv.
LEMMA CoveredProxyStep ==
    ASSUME IndInv, StrongestInv, CoveredInv, NEW p \in Proxies,
           Build(p) \/ LaunchStep(p) \/ RelayEnds(p) \/ ReturnStep(p)
              \/ MonitorStep(p) \/ Crash(p)
    PROVE  CoveredInv'
<1>0. /\ main \in [Proxies -> {"down", "built", "refused", "launching", "started",
                               "serving", "joining", "returned", "gone"}]
      /\ child \in [Proxies -> {"none", "running", "killed", "orphan"}]
      /\ covered \in [Proxies -> SUBSET Commands]
      /\ command \in Commands \cup {"none", "lost"}
  BY DEF IndInv, TypeOK
<1>1. UNCHANGED <<command, damaged, cli>> /\ Published' = Published
  BY DEF Build, LaunchStep, StartupCheck, Launch, Register, RelayEnds,
     ReturnStep, RelayRefused, Join, Exit, MonitorStep, Latch, Mark, Contain,
     Audit, ReadState, WriteState, Bookkeep, Crash, fileVars, Published
<1>2. CASE Build(p)
  <2>1. /\ covered' = [covered EXCEPT ![p] = Published]
        /\ main' = [main EXCEPT ![p] = "built"]
        /\ child' = [child EXCEPT ![p] = "none"]
    BY <1>2 DEF Build
  <2> QED BY <1>0, <1>1, <2>1 DEF CoveredInv, Uncovered
<1>3. CASE StartupCheck(p)
  <2>1. UNCHANGED <<covered, child>>
    BY <1>3 DEF StartupCheck
  <2>2. CASE StartupFails(p)
    <3>1. main' = [main EXCEPT ![p] = "refused"]
      BY <1>3, <2>2 DEF StartupCheck
    <3> QED BY <1>0, <1>1, <2>1, <3>1 DEF CoveredInv, Uncovered
  <2>3. CASE ~StartupFails(p)
    <3>1. main' = [main EXCEPT ![p] = "launching"]
      BY <1>3, <2>3 DEF StartupCheck
    <3>2. ASSUME ~damaged, NEW c \in covered[p]
          PROVE  Through[c] < Epoch[p]
      <4>1. c \in Published /\ c \in Commands
        BY <1>0, <3>2 DEF CoveredInv
      <4>2. command \in Commands /\ Through[c] <= Through[command]
        BY <3>2, <4>1 DEF StrongestInv
      <4>3. ~(Through[command] >= Epoch[p])
        BY <2>3, <4>2 DEF StartupFails, Stops, Revokes
      <4> QED BY <4>1, <4>2, <4>3, KineticConstants
    <3> QED BY <1>0, <1>1, <2>1, <3>1, <3>2 DEF CoveredInv, Uncovered
  <2> QED BY <2>2, <2>3
<1>4. CASE ~Build(p) /\ ~StartupCheck(p)
  <2>1. /\ UNCHANGED covered
        /\ \A q \in Proxies :
              main'[q] = "launching" \/ child'[q] \in {"running", "orphan"}
                 => main[q] = "launching" \/ child[q] \in {"running", "orphan"}
    <3>1. CASE Launch(p) \/ Register(p) \/ RelayRefused(p) \/ RelayEnds(p) \/ Join(p)
               \/ Exit(p) \/ Crash(p)
      BY <1>0, <3>1 DEF Launch, Register, RelayRefused, RelayEnds, Join, Exit, Crash
    <3>2. CASE MonitorStep(p)
      BY <1>0, <3>2 DEF MonitorStep, Latch, Mark, Contain, Audit, ReadState,
         WriteState, Bookkeep, runVars
    <3> QED BY <1>4, <3>1, <3>2 DEF LaunchStep, ReturnStep
  <2> QED BY <1>1, <2>1 DEF CoveredInv, Uncovered
<1> QED BY <1>2, <1>3, <1>4

LEMMA CoveredStep ==
    ASSUME IndInv, StrongestInv, CoveredInv, [Next]_vars
    PROVE  CoveredInv'
<1>1. CASE /\ UNCHANGED runVars /\ (damaged => damaged')
           /\ Published \subseteq Published'
  BY <1>1 DEF CoveredInv, Uncovered, runVars
<1>2. Published \subseteq Published'
  BY PublishedGrows
<1>3. CASE LoseControl \/ (\E c \in Commands : Publish(c) \/ Acknowledge(c) \/ GiveUp(c))
           \/ UNCHANGED vars
  BY <1>1, <1>2, <1>3 DEF LoseControl, Publish, Acknowledge, GiveUp, vars, runVars,
     fileVars
<1> QED BY <1>3, CoveredProxyStep DEF Next

\* WriteCommand, StartupCheck and startSupervised together: as long as the
\* control directory is intact, a proxy started after a command that covers
\* its epoch was published never launches a server, for any sequence of
\* commands, stops, crashes and restarts.
THEOREM CoveredProxiesStayDown == Spec => []CoveredNeverLaunches
<1>1. IndInv /\ StrongestInv /\ CoveredInv /\ [Next]_vars => StrongestInv' /\ CoveredInv'
  BY StrongestStep, CoveredStep
<1>2. CoveredInv => CoveredNeverLaunches
  BY DEF CoveredInv, CoveredNeverLaunches, Uncovered
<1> QED BY <1>1, <1>2, RestartInit, Inductive, PTL DEF Spec
=============================================================================
