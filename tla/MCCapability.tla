---------------------------- MODULE MCCapability ----------------------------
EXTENDS Capability

Declared == [tool |-> "other", args |-> {}, signals |-> {}, argUrl |-> None, path |-> None, destIP |-> None,
             destHost |-> None, effect |-> None, target |-> None, executable |-> None,
             primitive |-> FALSE, root |-> "ok", network |-> {"ip1"}, host |-> "h1",
             executables |-> {"bash"}]

\* What the proxy builds: no effect, and nothing declared but the root.
ProxySteps ==
    {[Declared EXCEPT !.tool = t, !.args = a, !.argUrl = u, !.path = p, !.destHost = h, !.root = r,
                      !.network = {}, !.host = None, !.executables = {}] :
       t \in {"shell", "net", "file", "other"}, a \in {{}, {"shell"}, {"url"}, {"memory"}, {"escape", "build"}},
       u \in {None, "h2"}, p \in {None, "in1", "out", "lost"}, h \in {None, "h1", "bad"}, r \in {None, "ok"}}

\* What a caller of the library may build.
TypedSteps ==
    {[Declared EXCEPT !.effect = e[1], !.target = e[2], !.executable = x, !.destIP = i, !.destHost = h,
                      !.path = p] :
       e \in ({"host_exec"} \X {None, "bash", "tool"})
             \cup ({"net_egress", "canary_access"} \X {None, "ip1", "ip2", "h1", "in1"})
             \cup ({None, "file_access", "unknown"} \X {None, "in1", "out", "lost"}),
       x \in {None, "bash"}, i \in {None, "ip1", "ip2"}, h \in {None, "h1", "h2"},
       p \in {None, "in1x", "in2", "out"}}

Sample ==
    {[Declared EXCEPT !.tool = "shell"], [Declared EXCEPT !.tool = "shell", !.destHost = "h1"],
     [Declared EXCEPT !.args = {"memory"}], [Declared EXCEPT !.args = {"escape"}],
     [Declared EXCEPT !.args = {"url"}, !.argUrl = "ip1"], [Declared EXCEPT !.args = {"url"}, !.argUrl = "h2"],
     [Declared EXCEPT !.path = "out"], [Declared EXCEPT !.host = Malformed],
     [Declared EXCEPT !.effect = "file_access", !.target = "in1", !.path = "in1x"]}

\* Steps that bring their signals along, whatever their tool and arguments say.
SignalledSteps ==
    {[Declared EXCEPT !.tool = t, !.signals = k, !.argUrl = u, !.destHost = h, !.executables = x] :
       t \in {"shell", "net", "other"}, u \in {None, "ip1", "ip2"}, h \in {None, "h1"},
       x \in {{"bash"}, {"tool"}},
       k \in {{"host_exec"}, {"egress"}, {"host_exec", "egress"}, {"file_outside"}, {"memory"}}}

\* The first call is any of these, the later ones a sample.
MCSteps(n) == IF n = 1 THEN ProxySteps \cup TypedSteps \cup SignalledSteps ELSE Sample
=============================================================================
