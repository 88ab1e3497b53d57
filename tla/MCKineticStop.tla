---------------------------- MODULE MCKineticStop ----------------------------
(* Stop commands that cover the older epoch or both, and either one proxy  *)
(* of the newer epoch that is started three times, or two proxies of the   *)
(* session, the first of the older epoch, started once each.  Only the     *)
(* first may lose the control channel.                                     *)
EXTENDS KineticStop

TwoProxies == {"p1", "p2"}
TwoEpochs == [p1 |-> 1, p2 |-> 2]
TwoCommands == {"c1", "c2"}
TwoThroughs == [c1 |-> 1, c2 |-> 2]
RestartsOrPeers ==
    {[starts |-> [p1 |-> 0, p2 |-> 3], losses |-> 1],
     [starts |-> [p1 |-> 1, p2 |-> 1], losses |-> 0]}
=============================================================================
