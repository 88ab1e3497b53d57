--------------------------- MODULE RelayContract ---------------------------
(***************************************************************************)
(* What the proxy promises about requests, named by their numbers: each is *)
(* authorized at most once and relayed at most once, relayed only after it *)
(* was authorized, and never once the server has been contained.           *)
(* ToolsCall implements this.                                              *)
(***************************************************************************)
EXTENDS Sequences

CONSTANT Numbers \* numbers of the requests of a session

VARIABLES
    authorized, \* numbers of the requests with a durable allow record
    relayed,    \* numbers of the requests written to the server, in order
    contained   \* the server has been killed

Init == authorized = {} /\ relayed = <<>> /\ contained = FALSE

Authorize(n) ==
    /\ n \notin authorized
    /\ authorized' = authorized \cup {n}
    /\ UNCHANGED <<relayed, contained>>

Relay(n) ==
    /\ n \in authorized /\ ~contained
    /\ \A i \in DOMAIN relayed : relayed[i] # n
    /\ relayed' = Append(relayed, n)
    /\ UNCHANGED <<authorized, contained>>

Contain ==
    /\ contained' = TRUE
    /\ UNCHANGED <<authorized, relayed>>

Next == (\E n \in Numbers : Authorize(n) \/ Relay(n)) \/ Contain

Spec == Init /\ [][Next]_<<authorized, relayed, contained>>
=============================================================================
