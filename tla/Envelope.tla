------------------------------ MODULE Envelope ------------------------------
(***************************************************************************)
(* How a line of the client is classified (mcp/envelope.go), brought into   *)
(* its canonical form (mcp/canonicalize.go) and gated                       *)
(* (proxy/client_envelope.go).  A line is [batch, elements]: the objects of *)
(* a batch, or the JSON texts one after the other, of which there should be *)
(* one.  An object is the sequence of its members [key, val]; a member with *)
(* the key "broken" is the place where the text stops being JSON, and the   *)
(* value "number" is one that is neither a string nor null.                 *)
(***************************************************************************)
EXTENDS Naturals, Sequences, FiniteSets

ToolsCallMethod == "tools/call"

\* A key as the scan knows it, and in another case: encoding/json takes both for the same field.
Anycase == [method |-> {"method", "Method"}, id |-> {"id", "Id"}, jsonrpc |-> {"jsonrpc", "Jsonrpc"}]

Members == Seq([key : STRING, val : STRING])
Lines == {line \in [batch : BOOLEAN, elements : Seq(Members)] : line.batch \/ Len(line.elements) > 0}

Broken(members) == \E i \in DOMAIN members : members[i].key = "broken"

\* The members a decoder reads before it fails.
Readable(members) ==
    LET ok(n) == \A i \in 1 .. n : members[i].key # "broken"
    IN  SubSeq(members, 1, CHOOSE n \in 0 .. Len(members) : ok(n) /\ (n = Len(members) \/ ~ok(n + 1)))

Positions(members, keys) == {i \in DOMAIN members : members[i].key \in keys}

LastOf(members, at, default) ==
    IF at = {} THEN default ELSE members[CHOOSE i \in at : \A j \in at : j <= i].val

FirstOf(members, at, default) ==
    IF at = {} THEN default ELSE members[CHOOSE i \in at : \A j \in at : i <= j].val

scanClientEnvelope(members) ==
    LET read == Readable(members)
    IN  [call |-> \E i \in Positions(read, {"method"}) : read[i].val = ToolsCallMethod,
         methods |-> Cardinality(Positions(read, {"method"})),
         id |-> LastOf(read, Positions(read, {"id"}), "absent")]

hasResponseID(scan) == scan.id \notin {"absent", "null"}

\* The first element with a call, as far as the batch can be decoded.
scanBatchEnvelope(elements) ==
    LET calls == {i \in DOMAIN elements : /\ \A j \in 1 .. i : ~Broken(elements[j])
                                          /\ scanClientEnvelope(elements[i]).call}
    IN  IF calls = {} THEN [call |-> FALSE, methods |-> 0, id |-> "absent"]
        ELSE scanClientEnvelope(elements[CHOOSE i \in calls : \A j \in calls : i <= j])

\* json.Unmarshal into a Request fails on a text that is no JSON and on a method or version that is no string.
Unmarshals(members) ==
    ~Broken(members) /\ \A i \in Positions(members, Anycase.method \cup Anycase.jsonrpc) : members[i].val # "number"

\* What it leaves in a string field: null changes nothing.
StringField(members, keys) ==
    LastOf(members, {i \in Positions(members, keys) : members[i].val # "null"}, "")

classifyScannedToolsCall(scan) == IF hasResponseID(scan) THEN "malformed" ELSE "notification"

classifyBatchEnvelope(elements) ==
    LET scan == scanBatchEnvelope(elements)
    IN  IF scan.call THEN classifyScannedToolsCall(scan) ELSE "forward"

\* Only the first of several texts is scanned, and json.Unmarshal fails on them.
classifySingle(texts) ==
    LET members == texts[1]
        scan == scanClientEnvelope(members)
        scanned == IF scan.call THEN classifyScannedToolsCall(scan) ELSE "forward"
    IN  IF Len(texts) > 1 \/ ~Unmarshals(members) \/ StringField(members, Anycase.method) # ToolsCallMethod
        THEN scanned
        ELSE IF scan.methods > 1 THEN classifyScannedToolsCall(scan)
        ELSE IF LastOf(members, Positions(members, Anycase.id), "null") = "null" THEN "notification"
        ELSE IF StringField(members, Anycase.jsonrpc) # "2.0" THEN "malformed" ELSE "request"

FaultyClassifyClientEnvelope(line) ==           \* only what encoding/json reads counts
    IF ~line.batch /\ Unmarshals(line.elements[1])
       /\ StringField(line.elements[1], Anycase.method) = ToolsCallMethod
    THEN classifySingle(line.elements) ELSE "forward"

ClassifyClientEnvelope(line) ==
    IF line.batch THEN classifyBatchEnvelope(line.elements) ELSE classifySingle(line.elements)

\* One member for each key, the last one, in the order of the keys: capitals come first.
CanonicalizeJSONLine(line) ==
    LET members == line.elements[1]
        only(key) == IF Positions(members, {key}) = {} THEN <<>>
                     ELSE <<[key |-> key, val |-> LastOf(members, Positions(members, {key}), "")]>>
    IN  [line EXCEPT !.elements = <<only("Id") \o only("Jsonrpc") \o only("Method")
                                      \o only("id") \o only("jsonrpc") \o only("method")>>]

\* The classification of the line and the form in which it may be relayed.
Gate(line) ==
    LET kind == ClassifyClientEnvelope(line)
        canonical == CanonicalizeJSONLine(line)
    IN  IF kind # "request" THEN [kind |-> kind, line |-> line]
        ELSE [kind |-> IF ClassifyClientEnvelope(canonical) = "request" THEN "request" ELSE "malformed",
              line |-> canonical]

-----------------------------------------------------------------------------
(* What a server may read that takes a line for one JSON text.              *)

\* Keys as they are spelled, and the first or the last of several members.
StrictReads(line) ==
    IF (~line.batch /\ Len(line.elements) # 1) \/ \E i \in DOMAIN line.elements : Broken(line.elements[i]) THEN {}
    ELSE UNION {LET at == Positions(line.elements[i], {"method"})
                IN  {FirstOf(line.elements[i], at, "none"), LastOf(line.elements[i], at, "none")} :
                i \in DOMAIN line.elements}

\* Keys in any case and the last member, by the decoder of the proxy itself: a request, not a batch.
RequestReads(line) ==
    IF line.batch \/ Len(line.elements) # 1 \/ ~Unmarshals(line.elements[1]) THEN {}
    ELSE {StringField(line.elements[1], Anycase.method)}

Reads(line) == StrictReads(line) \cup RequestReads(line)
=============================================================================
