---------------------------- MODULE MCToolsCall ----------------------------
(***************************************************************************)
(* Small instances of ToolsCall.  The policies are variations of one base  *)
(* policy; each run takes the ones that put its properties to work.        *)
(***************************************************************************)
EXTENDS ToolsCall

MCTools == {"read", "send", "spawn"}
MCServers == {"files"}
MCNonces == {"x"}

Request(tool) == [tool |-> tool, oversize |-> FALSE, sensitive |-> FALSE,
                  nonce |-> ""]

Base ==
    [defaultAction |-> "deny", serverAllowed |-> TRUE,
     known |-> MCTools, allowed |-> MCTools,
     stages |-> [t \in MCTools |-> <<"allow">>],
     needs |-> [t \in MCTools |-> {}],
     delegates |-> {}, maxSpawnDepth |-> 0,
     taints |-> [t \in MCTools |-> {}], egress |-> <<>>,
     chains |-> <<>>, chainWindow |-> 0, sessionMaxTools |-> 0,
     pin |-> "", capability |-> FALSE, assertions |-> FALSE]

-----------------------------------------------------------------------------
\* Reloads between a policy that blocks a tainted send, one that holds it for
\* approval, and one that pins the server and does not know "send".
TaintRead == [Base.taints EXCEPT !["read"] = {"secret"}]

Sink(action) == <<[when |-> "secret", sinks |-> {"send"}, action |-> action]>>

BlockTainted == [Base EXCEPT !.taints = TaintRead, !.egress = Sink("deny")]

HoldTainted == [Base EXCEPT !.taints = TaintRead,
                            !.egress = Sink("require_approval"),
                            !.stages = [Base.stages EXCEPT
                                          !["read"] = <<"allow", "require_approval">>]]

PinnedServer == [Base EXCEPT !.pin = "d1", !.known = {"read"},
                             !.allowed = {"read"}, !.capability = TRUE]

ReloadPolicies == {BlockTainted, HoldTainted, PinnedServer}
ReloadRequests == {Request("read"), Request("send"),
                   [Request("read") EXCEPT !.sensitive = TRUE],
                   [Request("send") EXCEPT !.oversize = TRUE]}

-----------------------------------------------------------------------------
\* What a session remembers: a policy with two chain rules and a delegation
\* ceiling, one that holds delegations, which need an ownership and a lineage
\* grant, and sinks for approval, and one with one-use assertions and a limit
\* on the calls.
ReadThenSend(action, within) ==
    [server |-> "*", sources |-> {"read"}, sinks |-> {"send"},
     within |-> within, action |-> action]

Chained == [Base EXCEPT !.chains = <<ReadThenSend("deny", 2),
                                     [ReadThenSend("require_approval", 1)
                                        EXCEPT !.sources = {"spawn"}]>>,
                        !.delegates = {"spawn"}, !.maxSpawnDepth = 2]

Held == [Base EXCEPT !.chains = <<[ReadThenSend("require_approval", 0)
                                     EXCEPT !.server = CfgServer]>>,
                     !.chainWindow = 1,
                     !.delegates = {"spawn"}, !.maxSpawnDepth = 1,
                     !.stages = [Base.stages EXCEPT
                                   !["spawn"] = <<"require_approval">>],
                     !.needs = [Base.needs EXCEPT
                                  !["spawn"] = {"ownership", "lineage"}]]

Limited == [Base EXCEPT !.assertions = TRUE, !.sessionMaxTools = 2,
                        !.delegates = {"spawn"}]

SessionPolicies == {Chained, Held, Limited}
SessionRequests == {Request("spawn"), [Request("read") EXCEPT !.nonce = "x"],
                    Request("send"), [Request("send") EXCEPT !.nonce = "x"]}

=============================================================================
