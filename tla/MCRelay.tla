------------------------------ MODULE MCRelay ------------------------------
EXTENDS Relay

Member(k, v) == [key |-> k, val |-> v]
Single(members) == [batch |-> FALSE, elements |-> <<members>>]
Texts(elements) == [batch |-> FALSE, elements |-> elements]
Batch(elements) == [batch |-> TRUE, elements |-> elements]

Call == Member("method", "tools/call")
Ping == Member("method", "ping")
Id == Member("id", "1")
V2 == Member("jsonrpc", "2.0")

MCClientLines ==
    {Single(<<V2, Id, Call>>),                              \* a call
     Single(<<V2, Id, Ping>>),
     Single(<<V2, Id, Call, Ping>>),                        \* two methods, in either order
     Single(<<V2, Id, Ping, Call>>),
     Single(<<V2, Id, Ping, Member("Method", "tools/call")>>),
     Single(<<Member("jsonrpc", "number"), Id, Member("Method", "tools/call")>>),
     Single(<<V2, Id, Member("Method", "tools/call"), Member("method", "null")>>),
     Texts(<<<<V2, Id, Ping>>, <<V2, Id, Call>>>>),
     Single(<<V2, Id, Call, Member("broken", "")>>),
     Batch(<<<<V2, Ping>>, <<V2, Id, Call>>>>)}

MCServerLines ==
    {[kind |-> "result", content |-> <<<<>>, <<"x", "s", "k">>, <<"s", "k", "x">>>>],
     [kind |-> "notification", content |-> <<>>]}

Pattern == [matches |-> <<"s", "k">>, compiles |-> TRUE]
NotCompiling == [matches |-> <<"x">>, compiles |-> FALSE]
MCGenerations ==
    <<[redaction |-> [patterns |-> <<NotCompiling>>, output |-> <<>>], maxOutput |-> 0],
      [redaction |-> [patterns |-> <<>>, output |-> <<Pattern>>], maxOutput |-> 2]>>

\* What the proof of SecretsStay asks of the results.
ASSUME MCSecrets == SecretsAreWhole

Budget(b) == [send |-> b[1], lines |-> b[2], messages |-> b[3], generations |-> b[4], faults |-> b[5], sinks |-> b[6],
              events |-> b[7], stalls |-> b[8]]

ACall == {Single(<<V2, Id, Call>>)}
ThePeers == {"client", "server"}

\* The gate, with a log that may fail; the redaction of the answers; the sinks while the session is closed around
\* the relays; every way to end it; and readers that do not read.
MCBudgets ==
    {Budget(<<MCClientLines, 2, 0, 1, 1, "none", ThePeers, {}>>),
     Budget(<<ACall, 2, 2, 2, 0, "none", {"client"}, {}>>),
     Budget(<<ACall, 1, 0, 1, 2, "open", {"client"}, {}>>),
     Budget(<<ACall, 1, 0, 2, 0, "open", {"server"}, {"siem"}>>),
     Budget(<<ACall, 2, 1, 1, 0, "none", ThePeers \cup {"interrupt"}, {"client", "server"}>>)}
=============================================================================
