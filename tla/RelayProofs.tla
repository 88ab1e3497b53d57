---------------------------- MODULE RelayProofs ----------------------------
(***************************************************************************)
(* A session of the proxy with any lines, servers, policies and faults.     *)
(* Every line that a strict decoder, or the proxy's own, reads as a call is *)
(* seen by the scan or the decoder, and the form in which a call is relayed *)
(* has one method; a later SIEM target is written after those before it;    *)
(* an authorization reaches the ledger in the step that grants it; and the  *)
(* emitter holds an event in one of its places until every URL has it.      *)
(* The last section is about the redaction of the results.                  *)
(***************************************************************************)
EXTENDS Relay, SequenceTheorems, WellFoundedInduction, TLAPS

Deliveries == [event : Int, url : Int, try : Int]

\* Types, and the bounds the budget puts on the lines and the generations.
TypeInv ==
    /\ transport \in Transports /\ budget \in Budgets /\ gen \in 1 .. Len(Generations)
    /\ main \in {"start", "initialize", "response", "third", "relaying", "stop", "log_ended", "close_log",
                 "close_sinks", "exit", "exited"}
    /\ gate = [pc |-> gate.pc, line |-> gate.line, allowed |-> gate.allowed] /\ gate.allowed \in BOOLEAN
    /\ gate.pc \in {"off", "read", "relay", "write", "commit", "refuse", "denied", "ignored", "error"}
    /\ back = [pc |-> back.pc, message |-> back.message, from |-> back.from]
    /\ back.pc \in {"off", "read", "redact", "log", "send", "error", "finished"}
    /\ lines \in 0 .. MaxLines
    /\ log \in {"open", "failed", "closed"} /\ ledger \subseteq Started .. Reloaded
    /\ pending \in [Loggers -> NoEvent .. Reloaded]

\* What may be relayed unauthorized, and as an authorized call.
NoCall(line) == ToolsCallMethod \notin Reads(line)
OneWay(line) == Reads(line) \subseteq {ToolsCallMethod, "none", "null"}

\* A line on its way to the server was gated, and a call is in the ledger from the
\* step that allowed it.
GateInv ==
    /\ gate.pc = "commit" => OneWay(gate.line)
    /\ gate.pc \in {"relay", "write"} /\ gate.allowed => OneWay(gate.line) /\ lines \in allowEvents
    /\ gate.pc \in {"relay", "write"} /\ ~gate.allowed => NoCall(gate.line)
    /\ forwarded.allowed \in BOOLEAN
    /\ forwarded.allowed => OneWay(forwarded.line) /\ forwarded.event \in allowEvents
    /\ ~forwarded.allowed => NoCall(forwarded.line)
    /\ allowEvents \subseteq ledger

\* The URLs before the one that is tried have the event.
ExportInv ==
    /\ queue \in Seq(Int) /\ Len(queue) <= BufferSize
    /\ loop \in Deliveries
    /\ received \in [1 .. Urls -> SUBSET Int] /\ written \in [1 .. Writers -> SUBSET Int]
    /\ sleeping \subseteq Int /\ accepted \subseteq Int \ {NoEvent}
    /\ loop # NoDelivery => loop.url \in 1 .. Urls /\ \A u \in 1 .. Urls : u < loop.url => loop.event \in received[u]
    /\ LaterTargetsHoldNoMore /\ AcceptedIsAccounted

\* A logger in the exporter has an event, and the targets before its next one have that event.
SiemInv ==
    /\ emitted \subseteq Loggers /\ \A l \in emitted : pending[l] # NoEvent
    /\ \/ siem = NoExport
       \/ /\ siem.by \in emitted /\ siem.target \in 1 .. Writers
          /\ \A w \in 1 .. Writers : w < siem.target => pending[siem.by] \in written[w]

IndInv == TypeInv /\ GateInv /\ ExportInv /\ SiemInv
-----------------------------------------------------------------------------
(***************************************************************************)
(* The gate.                                                               *)
(***************************************************************************)
\* The first and the last of the positions of a sequence.
LEMMA FirstExists ==
    ASSUME NEW n \in Nat, NEW S \in SUBSET (1 .. n), S # {}
    PROVE  \E i \in S : \A j \in S : i <= j
  <1>1. S \subseteq Nat
    OBVIOUS
  <1>2. PICK i \in S : \A j \in S : ~(<<j, i>> \in OpToRel(<, Nat))
    BY <1>1, WFMin, NatLessThanWellFounded
  <1>3. \A j \in S : ~(j < i)
    BY <1>1, <1>2 DEF OpToRel
  <1> QED
    BY <1>1, <1>3

LEMMA LastExists ==
    ASSUME NEW n \in Nat, NEW S \in SUBSET (1 .. n), S # {}
    PROVE  \E i \in S : \A j \in S : j <= i
  <1> DEFINE T == {n + 1 - i : i \in S}
  <1>0. \A i \in S : i \in 1 .. n /\ n + 1 - i \in 1 .. n
    OBVIOUS
  <1>1. T \in SUBSET (1 .. n) /\ T # {}
    BY <1>0
  <1>2. \A i \in S : n + 1 - i \in T
    OBVIOUS
  <1>3. \A t \in T : \E i \in S : t = n + 1 - i
    OBVIOUS
  <1> HIDE DEF T
  <1>4. PICK t \in T : \A u \in T : t <= u
    BY <1>1, FirstExists
  <1>5. PICK i \in S : t = n + 1 - i
    BY <1>3
  <1>6. \A j \in S : n + 1 - i <= n + 1 - j
    BY <1>2, <1>4, <1>5
  <1> QED
    BY <1>6

LEMMA PositionsAre ==
    ASSUME NEW M, NEW m \in Seq(M), NEW keys
    PROVE  Len(m) \in Nat /\ DOMAIN m = 1 .. Len(m) /\ Positions(m, keys) \in SUBSET (1 .. Len(m))
  BY DEF Positions

\* The value of a member that is found is the value of a member with that key.
LEMMA LastIsOne ==
    ASSUME NEW M, NEW m \in Seq(M), NEW at \in SUBSET (1 .. Len(m)), NEW default
    PROVE  \/ at = {} /\ LastOf(m, at, default) = default
           \/ \E i \in at : LastOf(m, at, default) = m[i].val /\ \A j \in at : j <= i
  <1> DEFINE last == CHOOSE i \in at : \A j \in at : j <= i
  <1>1. CASE at = {}
    BY <1>1 DEF LastOf
  <1>2. CASE at # {}
    <2>1. \E i \in at : \A j \in at : j <= i
      BY <1>2, PositionsAre, LastExists
    <2>2. last \in at /\ \A j \in at : j <= last
      BY <2>1, Zenon
    <2>3. LastOf(m, at, default) = m[last].val
      BY <1>2 DEF LastOf
    <2> HIDE DEF last
    <2> QED
      BY <2>2, <2>3
  <1> QED
    BY <1>1, <1>2

LEMMA FirstIsOne ==
    ASSUME NEW M, NEW m \in Seq(M), NEW at \in SUBSET (1 .. Len(m)), NEW default
    PROVE  \/ at = {} /\ FirstOf(m, at, default) = default
           \/ \E i \in at : FirstOf(m, at, default) = m[i].val
  <1> DEFINE first == CHOOSE i \in at : \A j \in at : i <= j
  <1>1. CASE at = {}
    BY <1>1 DEF FirstOf
  <1>2. CASE at # {}
    <2>1. \E i \in at : \A j \in at : i <= j
      BY <1>2, PositionsAre, FirstExists
    <2>2. first \in at
      BY <2>1, Zenon
    <2>3. FirstOf(m, at, default) = m[first].val
      BY <1>2 DEF FirstOf
    <2> HIDE DEF first
    <2> QED
      BY <2>2, <2>3
  <1> QED
    BY <1>1, <1>2

\* A text that is JSON is read to its end.
LEMMA ReadableIsAll ==
    ASSUME NEW M, NEW m \in Seq(M), ~Broken(m)
    PROVE  Readable(m) = m
  <1> DEFINE ok(n) == \A i \in 1 .. n : m[i].key # "broken"
             P(n) == ok(n) /\ (n = Len(m) \/ ~ok(n + 1))
             c == CHOOSE n \in 0 .. Len(m) : P(n)
  <1>1. Len(m) \in Nat /\ \A i \in 1 .. Len(m) : m[i].key # "broken"
    BY DEF Broken
  <1>2. P(Len(m)) /\ \A n \in 0 .. Len(m) : P(n) => n = Len(m)
    BY <1>1
  <1>3. Len(m) \in 0 .. Len(m)
    BY <1>1
  <1> HIDE DEF P
  <1>4. c \in 0 .. Len(m) /\ P(c)
    BY <1>2, <1>3, Zenon
  <1>5. c = Len(m)
    BY <1>2, <1>4
  <1>6. Readable(m) = SubSeq(m, 1, c)
    BY DEF Readable, P
  <1> QED
    BY <1>5, <1>6, SubSeqFull

\* What the scan does not see as a call no strict decoder reads as one.
LEMMA ScanSeesCalls ==
    ASSUME NEW m \in Members, ~Broken(m), ~scanClientEnvelope(m).call
    PROVE  LET at == Positions(m, {"method"})
           IN  ToolsCallMethod \notin {FirstOf(m, at, "none"), LastOf(m, at, "none")}
  <1> DEFINE at == Positions(m, {"method"})
  <1>0. PICK M : m \in Seq(M)
    BY DEF Members
  <1>1. \A i \in at : m[i].val # ToolsCallMethod
    BY <1>0, ReadableIsAll DEF scanClientEnvelope
  <1>2. "none" # ToolsCallMethod
    BY DEF ToolsCallMethod
  <1>3. at \in SUBSET (1 .. Len(m))
    BY <1>0, PositionsAre
  <1> HIDE DEF at
  <1> QED
    BY <1>0, <1>1, <1>2, <1>3, FirstIsOne, LastIsOne DEF at

\* A batch that holds a call in a readable element is not passed on.
LEMMA BatchScanned ==
    ASSUME NEW es \in Seq(Members), NEW i \in DOMAIN es, \A j \in DOMAIN es : ~Broken(es[j]),
           scanClientEnvelope(es[i]).call
    PROVE  classifyBatchEnvelope(es) # "forward"
  <1> DEFINE found == {k \in DOMAIN es : /\ \A j \in 1 .. k : ~Broken(es[j])
                                         /\ scanClientEnvelope(es[k]).call}
             first == CHOOSE k \in found : \A j \in found : k <= j
  <1>1. Len(es) \in Nat /\ DOMAIN es = 1 .. Len(es)
    OBVIOUS
  <1>2. i \in found /\ found \in SUBSET (1 .. Len(es))
    BY <1>1
  <1>3. \E k \in found : \A j \in found : k <= j
    BY <1>1, <1>2, FirstExists
  <1>4. \A k \in found : scanClientEnvelope(es[k]).call
    OBVIOUS
  <1>5. found # {} => scanBatchEnvelope(es) = scanClientEnvelope(es[first])
    BY DEF scanBatchEnvelope
  <1> HIDE DEF found
  <1>6. first \in found
    BY <1>3, Zenon
  <1> HIDE DEF first
  <1>7. scanBatchEnvelope(es).call
    BY <1>4, <1>5, <1>6
  <1> QED
    BY <1>7 DEF classifyBatchEnvelope, classifyScannedToolsCall

\* A single object whose scan sees a call is not passed on, and neither is one that is decoded as a call.
LEMMA SingleScanned ==
    ASSUME NEW texts, scanClientEnvelope(texts[1]).call
    PROVE  classifySingle(texts) # "forward"
  BY DEF classifySingle, classifyScannedToolsCall

LEMMA SingleDecoded ==
    ASSUME NEW texts, ~(Len(texts) > 1), Unmarshals(texts[1]), StringField(texts[1], Anycase.method) = ToolsCallMethod
    PROVE  classifySingle(texts) # "forward"
  BY DEF classifySingle, classifyScannedToolsCall

\* No server reads a call in a line that the gate passes on.
LEMMA ForwardHasNoCall ==
    ASSUME NEW line \in Lines, Gate(line).kind = "forward"
    PROVE  NoCall(Gate(line).line)
  <1>1. Gate(line).line = line /\ ClassifyClientEnvelope(line) = "forward"
    BY DEF Gate
  <1>2. line.elements \in Seq(Members)
    BY DEF Lines
  <1>3. ToolsCallMethod \notin RequestReads(line)
    <2>1. CASE line.batch \/ Len(line.elements) # 1 \/ ~Unmarshals(line.elements[1])
      BY <2>1 DEF RequestReads
    <2>2. CASE ~line.batch /\ Len(line.elements) = 1 /\ Unmarshals(line.elements[1])
      <3>1. classifySingle(line.elements) = "forward" /\ ~(Len(line.elements) > 1)
        BY <1>1, <2>2 DEF ClassifyClientEnvelope
      <3>2. StringField(line.elements[1], Anycase.method) # ToolsCallMethod
        BY <2>2, <3>1, SingleDecoded
      <3> QED
        BY <2>2, <3>2 DEF RequestReads
    <2> QED
      BY <2>1, <2>2
  <1>4. CASE (~line.batch /\ Len(line.elements) # 1) \/ \E i \in DOMAIN line.elements : Broken(line.elements[i])
    <2>1. StrictReads(line) = {}
      BY <1>4 DEF StrictReads
    <2> QED
      BY <1>1, <1>3, <2>1 DEF NoCall, Reads
  <1>5. CASE (line.batch \/ Len(line.elements) = 1) /\ \A i \in DOMAIN line.elements : ~Broken(line.elements[i])
    <2>1. ASSUME NEW i \in DOMAIN line.elements PROVE ~scanClientEnvelope(line.elements[i]).call
      <3>1. CASE line.batch
        BY <1>1, <1>2, <1>5, <2>1, <3>1, BatchScanned DEF ClassifyClientEnvelope
      <3>2. CASE ~line.batch
        <4>1. i = 1
          BY <1>2, <1>5, <2>1, <3>2
        <4> QED
          BY <1>1, <3>2, <4>1, SingleScanned DEF ClassifyClientEnvelope
      <3> QED
        BY <3>1, <3>2
    <2>2. \A i \in DOMAIN line.elements : line.elements[i] \in Members
      BY <1>2
    <2>3. \A i \in DOMAIN line.elements :
             LET at == Positions(line.elements[i], {"method"})
             IN  ToolsCallMethod \notin {FirstOf(line.elements[i], at, "none"), LastOf(line.elements[i], at, "none")}
      BY <1>5, <2>1, <2>2, ScanSeesCalls
    <2>4. ToolsCallMethod \notin StrictReads(line)
      BY <1>5, <2>3 DEF StrictReads
    <2> QED
      BY <1>1, <1>3, <2>4 DEF NoCall, Reads
  <1> QED
    BY <1>4, <1>5
LEMMA OneMember ==
    ASSUME NEW M, NEW x \in M
    PROVE  <<x>> \in Seq(M) /\ Len(<<x>>) = 1 /\ \A i \in 1 .. Len(<<x>>) : <<x>>[i] = x
  OBVIOUS

\* A key that neither of two sequences has, their concatenation has not.
LEMMA ConcatLacksKey ==
    ASSUME NEW M, NEW x \in Seq(M), NEW y \in Seq(M), NEW k,
           \A i \in 1 .. Len(x) : x[i].key # k, \A i \in 1 .. Len(y) : y[i].key # k
    PROVE  x \o y \in Seq(M) /\ \A i \in 1 .. Len(x \o y) : (x \o y)[i].key # k
  <1> DEFINE z == x \o y
  <1>1. /\ z \in Seq(M) /\ Len(z) = Len(x) + Len(y) /\ Len(x) \in Nat /\ Len(y) \in Nat
        /\ \A i \in 1 .. Len(x) + Len(y) : z[i] = IF i <= Len(x) THEN x[i] ELSE y[i - Len(x)]
    BY ConcatProperties
  <1> HIDE DEF z
  <1>2. ASSUME NEW i \in 1 .. Len(z) PROVE z[i].key # k
    <2>1. CASE i <= Len(x)
      <3>1. z[i] = x[i] /\ i \in 1 .. Len(x)
        BY <1>1, <2>1
      <3> QED
        BY <3>1
    <2>2. CASE ~(i <= Len(x))
      <3>1. z[i] = y[i - Len(x)] /\ i - Len(x) \in 1 .. Len(y)
        BY <1>1, <2>2
      <3> QED
        BY <3>1
    <2> QED
      BY <2>1, <2>2
  <1> QED
    BY <1>1, <1>2 DEF z

\* The canonical form of a line: at most one member with the key method, the last one.
LEMMA CanonicalForm ==
    ASSUME NEW line \in Lines, ~line.batch
    PROVE  LET c == CanonicalizeJSONLine(line).elements[1]
           IN  /\ CanonicalizeJSONLine(line).elements = <<c>> /\ ~CanonicalizeJSONLine(line).batch
               /\ \E M : c \in Seq(M)
               /\ \A i \in DOMAIN c : c[i].key = "method" => i = Len(c)
  <1> DEFINE m == line.elements[1]
             Names == {"Id", "Jsonrpc", "Method", "id", "jsonrpc", "method"}
             member(key) == [key |-> key, val |-> LastOf(m, Positions(m, {key}), "")]
             M == {member(key) : key \in Names}
             only(key) == IF Positions(m, {key}) = {} THEN <<>> ELSE <<member(key)>>
             c == only("Id") \o only("Jsonrpc") \o only("Method") \o only("id") \o only("jsonrpc") \o only("method")
  <1>1. line \in [batch : BOOLEAN, elements : Seq(Members)]
    BY DEF Lines
  <1>2. CanonicalizeJSONLine(line) = [line EXCEPT !.elements = <<c>>]
    BY DEF CanonicalizeJSONLine
  <1>3. ASSUME NEW key \in Names
        PROVE  /\ only(key) \in Seq(M) /\ Len(only(key)) \in {0, 1}
               /\ \A i \in 1 .. Len(only(key)) : only(key)[i].key = key
    <2> HIDE DEF m
    <2>1. member(key) \in M /\ member(key).key = key
      OBVIOUS
    <2> HIDE DEF member, M
    <2>2. CASE Positions(m, {key}) = {}
      BY <2>2
    <2>3. CASE Positions(m, {key}) # {}
      <3>1. only(key) = <<member(key)>>
        BY <2>3
      <3> HIDE DEF only
      <3> QED
        BY <2>1, <3>1, OneMember
    <2> QED
      BY <2>2, <2>3
  <1> HIDE DEF only, m, M
  <1> DEFINE lacks(q) == q \in Seq(M) /\ \A i \in 1 .. Len(q) : q[i].key # "method"
             a == only("Id")
             b == only("Jsonrpc")
             d == only("Method")
             e == only("id")
             f == only("jsonrpc")
             o == only("method")
             p2 == a \o b
             p3 == p2 \o d
             p4 == p3 \o e
             p == p4 \o f
  <1>4. lacks(a) /\ lacks(b) /\ lacks(d) /\ lacks(e) /\ lacks(f) /\ o \in Seq(M) /\ Len(o) \in {0, 1}
    BY <1>3
  <1>5. c = p \o o
    OBVIOUS
  <1>6. \A x, y : lacks(x) /\ lacks(y) => lacks(x \o y)
    BY ConcatLacksKey
  <1> HIDE DEF a, b, d, e, f, o, c, lacks
  <1>7. p \in Seq(M) /\ \A i \in 1 .. Len(p) : p[i].key # "method"
    <2>1. lacks(p2)
      BY <1>4, <1>6
    <2> HIDE DEF p2
    <2>2. lacks(p3)
      BY <1>4, <1>6, <2>1
    <2> HIDE DEF p3
    <2>3. lacks(p4)
      BY <1>4, <1>6, <2>2
    <2> HIDE DEF p4
    <2>4. lacks(p)
      BY <1>4, <1>6, <2>3
    <2> HIDE DEF p
    <2> QED
      BY <2>4 DEF lacks
  <1> HIDE DEF p
  <1>8. c \in Seq(M) /\ \A i \in DOMAIN c : c[i].key = "method" => i = Len(c)
    <2>1. /\ c \in Seq(M) /\ Len(c) = Len(p) + Len(o) /\ Len(p) \in Nat
          /\ \A i \in 1 .. Len(p) + Len(o) : i <= Len(p) => c[i] = p[i]
      BY <1>4, <1>5, <1>7, ConcatProperties
    <2>2. ASSUME NEW i \in DOMAIN c, c[i].key = "method" PROVE i = Len(c)
      <3>1. i \in 1 .. Len(p) + Len(o) /\ i \in Nat
        BY <1>4, <2>1
      <3>2. ~(i <= Len(p))
        BY <1>7, <2>1, <2>2, <3>1
      <3>3. Len(o) = 0 \/ Len(o) = 1
        BY <1>4
      <3>4. CASE Len(o) = 0
        BY <2>1, <3>1, <3>2, <3>4
      <3>5. CASE Len(o) = 1
        BY <2>1, <3>1, <3>2, <3>5
      <3> QED
        BY <3>3, <3>4, <3>5
    <2> QED
      BY <2>1, <2>2
  <1>9. CanonicalizeJSONLine(line).elements = <<c>> /\ CanonicalizeJSONLine(line).batch = line.batch
    BY <1>1, <1>2
  <1>10. CanonicalizeJSONLine(line).elements[1] = c
    BY <1>9
  <1> QED
    BY <1>8, <1>9, <1>10

\* A call is relayed in a form in which no server reads another method.
LEMMA RequestReadsOneWay ==
    ASSUME NEW line \in Lines, Gate(line).kind = "request"
    PROVE  OneWay(Gate(line).line)
  <1> DEFINE l == CanonicalizeJSONLine(line)
             c == l.elements[1]
  <1>1. ClassifyClientEnvelope(line) = "request" /\ Gate(line).line = l /\ ClassifyClientEnvelope(l) = "request"
    BY DEF Gate
  <1>2. \A es : classifyBatchEnvelope(es) # "request"
    BY DEF classifyBatchEnvelope, classifyScannedToolsCall
  <1>3. ~line.batch
    BY <1>1, <1>2 DEF ClassifyClientEnvelope
  <1>4. /\ l.elements = <<c>> /\ ~l.batch /\ \E M : c \in Seq(M)
        /\ \A i \in DOMAIN c : c[i].key = "method" => i = Len(c)
    BY <1>3, CanonicalForm
  <1> HIDE DEF l, c
  <1>5. classifySingle(l.elements) = "request"
    BY <1>1, <1>4 DEF ClassifyClientEnvelope
  <1>6. StringField(c, Anycase.method) = ToolsCallMethod
    BY <1>5 DEF classifySingle, classifyScannedToolsCall, c
  <1>7. \A i \in Positions(c, {"method"}) : c[i].val \in {ToolsCallMethod, "null"}
    <2> DEFINE held == {k \in Positions(c, Anycase.method) : c[k].val # "null"}
    <2> SUFFICES ASSUME NEW i \in Positions(c, {"method"}), c[i].val # "null" PROVE c[i].val = ToolsCallMethod
      OBVIOUS
    <2>0. held \in SUBSET (1 .. Len(c))
      BY <1>4, PositionsAre
    <2>1. i \in held /\ i = Len(c) /\ i \in 1 .. Len(c)
      BY <1>4, PositionsAre DEF Positions, Anycase
    <2>9. StringField(c, Anycase.method) = LastOf(c, held, "")
      BY DEF StringField
    <2> HIDE DEF held
    <2>2. PICK k \in held : LastOf(c, held, "") = c[k].val /\ \A j \in held : j <= k
      BY <1>4, <2>0, <2>1, LastIsOne
    <2>3. k \in 1 .. Len(c) /\ i <= k
      BY <2>0, <2>1, <2>2
    <2>4. k = i
      BY <1>4, <2>1, <2>3, PositionsAre
    <2> QED
      BY <1>6, <2>2, <2>4, <2>9
  <1>8. LET at == Positions(c, {"method"})
        IN  {FirstOf(c, at, "none"), LastOf(c, at, "none")} \subseteq {ToolsCallMethod, "none", "null"}
    <2> DEFINE at == Positions(c, {"method"})
    <2>1. at \in SUBSET (1 .. Len(c))
      BY <1>4, PositionsAre
    <2> HIDE DEF at
    <2> QED
      BY <1>4, <1>7, <2>1, FirstIsOne, LastIsOne DEF at
  <1>9. DOMAIN l.elements = {1} /\ l.elements[1] = c
    BY <1>4
  <1>10. StrictReads(l) \subseteq {ToolsCallMethod, "none", "null"}
    BY <1>8, <1>9 DEF StrictReads
  <1>11. RequestReads(l) \subseteq {ToolsCallMethod}
    BY <1>6, <1>9 DEF RequestReads
  <1> QED
    BY <1>1, <1>10, <1>11 DEF OneWay, Reads
-----------------------------------------------------------------------------
(***************************************************************************)
(* The steps of a session.                                                 *)
(***************************************************************************)
LEMMA EventRange ==
    /\ MaxLines \in Nat /\ Started = 0 /\ Reloaded = MaxLines + 2 /\ NoEvent = -1
    /\ Started \in Started .. Reloaded /\ Ended \in Started .. Reloaded /\ Reloaded \in Started .. Reloaded
    /\ NoEvent \in NoEvent .. Reloaded /\ Started .. Reloaded \subseteq NoEvent .. Reloaded
    /\ \A n \in 0 .. MaxLines : n \in Started .. Reloaded
  BY RelayConstants DEF Started, Ended, Reloaded, NoEvent

\* What logging an event does to the ledger and to the event to be forwarded.
LEMMA LogKeeps ==
    ASSUME TypeInv, NEW logger \in Loggers, NEW e \in Started .. Reloaded, Log(logger, e)
    PROVE  /\ pending' \in [Loggers -> NoEvent .. Reloaded]
           /\ log' \in {"open", "failed", "closed"}
           /\ ledger' \subseteq Started .. Reloaded /\ ledger \subseteq ledger'
  BY EventRange DEF TypeInv, Log

LEMMA InitInd == ASSUME Init PROVE IndInv
  <1>1. TypeInv
    BY EventRange, RelayConstants DEF Init, TypeInv
  <1>2. GateInv
    <2>1. Reads(NoLine) = {}
      BY DEF Reads, StrictReads, RequestReads, NoLine
    <2> QED
      BY <2>1 DEF Init, GateInv, NoCall
  <1>3. ExportInv
    <2>1. queue \in Seq(Int) /\ Len(queue) <= BufferSize /\ loop \in Deliveries
      BY ExportConstants DEF Init, ExportInit, NoDelivery, Deliveries
    <2>2. received \in [1 .. Urls -> SUBSET Int] /\ written \in [1 .. Writers -> SUBSET Int]
      BY DEF Init, ExportInit
    <2>3. LaterTargetsHoldNoMore /\ AcceptedIsAccounted
      BY DEF Init, ExportInit, LaterTargetsHoldNoMore, AcceptedIsAccounted
    <2> QED
      BY <2>1, <2>2, <2>3 DEF Init, ExportInit, ExportInv
  <1>4. SiemInv
    BY DEF Init, ExportInit, SiemInv
  <1> QED
    BY <1>1, <1>2, <1>3, <1>4 DEF IndInv

LEMMA BudgetBounds ==
    ASSUME TypeInv
    PROVE  /\ budget.lines \in 0 .. MaxLines /\ budget.generations \in 1 .. Len(Generations)
           /\ budget.send \subseteq Lines /\ Len(Generations) \in Nat
  BY RelayConstants DEF TypeInv

LEMMA TypeStep == ASSUME TypeInv, Next PROVE TypeInv'
  <1> USE DEF session, audit, Loggers
  <1>1. CASE StartFails
    BY <1>1 DEF TypeInv, StartFails
  <1>2. CASE RelayInitialize
    BY <1>2 DEF TypeInv, RelayInitialize
  <1>3. CASE EndOfInput
    BY <1>3 DEF TypeInv, EndOfInput
  <1>4. CASE Denied
    BY <1>4 DEF TypeInv, Denied
  <1>5. CASE ReadServer
    BY <1>5 DEF TypeInv, ReadServer
  <1>6. CASE EndOfOutput
    BY <1>6 DEF TypeInv, EndOfOutput
  <1>7. CASE StreamTimeout
    BY <1>7 DEF TypeInv, StreamTimeout
  <1>8. CASE Redact
    BY <1>8 DEF TypeInv, Redact
  <1>9. CASE logServerMessage
    BY <1>9 DEF TypeInv, logServerMessage
  <1>10. CASE ForwardToClient
    BY <1>10 DEF TypeInv, ForwardToClient
  <1>11. CASE RelaysReturn
    BY <1>11 DEF TypeInv, RelaysReturn
  <1>12. CASE HandshakeReturns
    BY <1>12 DEF TypeInv, HandshakeReturns
  <1>13. CASE stopServerProcess
    BY <1>13 DEF TypeInv, stopServerProcess
  <1>14. CASE CloseLog
    BY <1>14 DEF TypeInv, CloseLog
  <1>15. CASE closeEventSinks
    BY <1>15 DEF TypeInv, closeEventSinks
  <1>16. CASE Exit
    BY <1>16 DEF TypeInv, Exit
  <1>17. CASE ClientCloses
    BY <1>17 DEF TypeInv, ClientCloses
  <1>18. CASE ServerCloses
    BY <1>18 DEF TypeInv, ServerCloses
  <1>19. CASE Interrupt
    BY <1>19 DEF TypeInv, Interrupt
  <1>20. CASE KillServer
    BY <1>20 DEF TypeInv, KillServer
  <1>21. CASE Cancelled
    BY <1>21 DEF TypeInv, Cancelled
  <1>22. CASE RelayInitializeResponse
    BY <1>22 DEF TypeInv, RelayInitializeResponse
  <1>23. CASE LogStarted
    <2>1. Log("main", Started)
      BY <1>23 DEF LogStarted
    <2>2. /\ pending' \in [Loggers -> NoEvent .. Reloaded] /\ log' \in {"open", "failed", "closed"}
          /\ ledger' \subseteq Started .. Reloaded
      BY <2>1, LogKeeps, EventRange
    <2> QED
      BY <1>23, <2>2 DEF TypeInv, LogStarted
  <1>24. CASE LogEnded
    <2>1. Log("main", Ended)
      BY <1>24 DEF LogEnded
    <2>2. /\ pending' \in [Loggers -> NoEvent .. Reloaded] /\ log' \in {"open", "failed", "closed"}
          /\ ledger' \subseteq Started .. Reloaded
      BY <2>1, LogKeeps, EventRange
    <2> QED
      BY <1>24, <2>2 DEF TypeInv, LogEnded
  <1>25. CASE Reload
    <2>1. Log("reload", Reloaded)
      BY <1>25 DEF Reload
    <2>2. /\ pending' \in [Loggers -> NoEvent .. Reloaded] /\ log' \in {"open", "failed", "closed"}
          /\ ledger' \subseteq Started .. Reloaded
      BY <2>1, LogKeeps, EventRange
    <2>3. gen' \in 1 .. Len(Generations)
      BY <1>25, BudgetBounds DEF TypeInv, Reload
    <2> QED
      BY <1>25, <2>2, <2>3 DEF TypeInv, Reload
  <1>26. ASSUME NEW line \in budget.send, interceptClientToServerEnvelope(line) PROVE TypeInv'
    <2>1. lines' \in 0 .. MaxLines /\ lines' = lines + 1 /\ lines + 1 \in Started .. Reloaded
      BY <1>26, BudgetBounds, EventRange DEF TypeInv, interceptClientToServerEnvelope
    <2>2. UNCHANGED <<transport, budget, gen, main, back>>
      BY <1>26 DEF interceptClientToServerEnvelope
    <2>3. /\ gate' = [pc |-> gate'.pc, line |-> gate'.line, allowed |-> gate'.allowed] /\ gate'.allowed \in BOOLEAN
          /\ gate'.pc \in {"off", "read", "relay", "write", "commit", "refuse", "denied", "ignored", "error"}
      <3>1. \/ gate' = [pc |-> "relay", line |-> Gate(line).line, allowed |-> FALSE]
            \/ \E p \in {"refuse", "denied", "ignored"} : gate' = [gate EXCEPT !.pc = p]
            \/ gate' = [pc |-> "commit", line |-> Gate(line).line, allowed |-> FALSE]
        BY <1>26 DEF interceptClientToServerEnvelope
      <3>2. CASE gate' = [pc |-> "relay", line |-> Gate(line).line, allowed |-> FALSE]
        BY <3>2
      <3>3. CASE \E p \in {"refuse", "denied", "ignored"} : gate' = [gate EXCEPT !.pc = p]
        BY <3>3 DEF TypeInv
      <3>4. CASE gate' = [pc |-> "commit", line |-> Gate(line).line, allowed |-> FALSE]
        BY <3>4
      <3> QED
        BY <3>1, <3>2, <3>3, <3>4
    <2>4. Logger \in Loggers
      BY DEF Logger
    <2>5. CASE Log(Logger, lines + 1)
      <3>1. PICK k \in Loggers, e \in Started .. Reloaded : Log(k, e)
        BY <2>1, <2>4, <2>5
      <3>2. /\ pending' \in [Loggers -> NoEvent .. Reloaded] /\ log' \in {"open", "failed", "closed"}
            /\ ledger' \subseteq Started .. Reloaded
        BY <3>1, LogKeeps
      <3> QED
        BY <2>1, <2>2, <2>3, <3>2 DEF TypeInv
    <2>6. CASE UNCHANGED <<log, ledger, pending>>
      BY <2>1, <2>2, <2>3, <2>6 DEF TypeInv
    <2> QED
      BY <1>26, <2>5, <2>6 DEF interceptClientToServerEnvelope
  <1>27. CASE CommitAuthorization
    <2>1. Logger \in Loggers /\ lines \in Started .. Reloaded /\ lines \in NoEvent .. Reloaded
      BY EventRange DEF Logger, TypeInv
    <2>2. pending' \in [Loggers -> NoEvent .. Reloaded] /\ ledger' \subseteq Started .. Reloaded
      BY <1>27, <2>1 DEF TypeInv, CommitAuthorization
    <2> QED
      BY <1>27, <2>2 DEF TypeInv, CommitAuthorization
  <1>28. CASE Relay
    BY <1>28 DEF TypeInv, Relay
  <1>29. ASSUME NEW k \in Loggers, forwardAudit(k) PROVE TypeInv'
    <2>1. /\ UNCHANGED <<transport, budget, gen, main, gate, back, lines, log, ledger>>
          /\ pending' = pending \/ pending' = [pending EXCEPT ![k] = NoEvent]
      BY <1>29 DEF forwardAudit, EmitEvent, Export
    <2> QED
      BY <2>1, EventRange DEF TypeInv
  <1>30. CASE Sink(EmitterStep) \/ Sink(PutBack)
    BY <1>30 DEF TypeInv, Sink
  <1>31. CASE Refuse
    <2>1. Logger \in Loggers /\ lines \in Started .. Reloaded
      BY EventRange DEF Logger, TypeInv
    <2>2. PICK k \in Loggers, e \in Started .. Reloaded : Log(k, e)
      BY <1>31, <2>1 DEF Refuse
    <2>3. /\ pending' \in [Loggers -> NoEvent .. Reloaded] /\ log' \in {"open", "failed", "closed"}
          /\ ledger' \subseteq Started .. Reloaded
      BY <2>2, LogKeeps
    <2>4. gate' = [gate EXCEPT !.pc = "ignored"] /\ UNCHANGED <<transport, budget, gen, main, back, lines>>
      BY <1>31 DEF Refuse
    <2> QED
      BY <2>3, <2>4 DEF TypeInv
  <1>32. CASE logClientMessage
    BY <1>32 DEF TypeInv, logClientMessage
  <1>33. ASSUME NEW peer, Stall(peer) PROVE TypeInv'
    BY <1>33 DEF TypeInv, Stall
  <1> QED
    BY <1>31, <1>32, <1>33, <1>1, <1>2, <1>3, <1>4, <1>5, <1>6, <1>7, <1>8, <1>9, <1>10, <1>11, <1>12, <1>13, <1>14, <1>15, <1>16, <1>17, <1>18, <1>19, <1>20, <1>21, <1>22, <1>23, <1>24, <1>25, <1>26, <1>27, <1>28, <1>29, <1>30 DEF Next, MainStep, GateStep, BackStep

LEMMA GateKept ==
    ASSUME GateInv, UNCHANGED <<gate, lines, forwarded, allowEvents>>, ledger \subseteq ledger'
    PROVE  GateInv'
  BY DEF GateInv

LEMMA GateStepInd == ASSUME TypeInv, GateInv, Next PROVE GateInv'
  <1> USE DEF session, audit, history
  <1>1. CASE StartFails
    BY <1>1, GateKept DEF StartFails
  <1>2. CASE RelayInitialize
    BY <1>2, GateKept DEF RelayInitialize
  <1>3. CASE ReadServer
    BY <1>3, GateKept DEF ReadServer
  <1>4. CASE EndOfOutput
    BY <1>4, GateKept DEF EndOfOutput
  <1>5. CASE StreamTimeout
    BY <1>5, GateKept DEF StreamTimeout
  <1>6. CASE Redact
    BY <1>6, GateKept DEF Redact
  <1>7. CASE logServerMessage
    BY <1>7, GateKept DEF logServerMessage
  <1>8. CASE ForwardToClient
    BY <1>8, GateKept DEF ForwardToClient
  <1>9. CASE RelaysReturn
    BY <1>9, GateKept DEF RelaysReturn
  <1>10. CASE HandshakeReturns
    BY <1>10, GateKept DEF HandshakeReturns
  <1>11. CASE stopServerProcess
    BY <1>11, GateKept DEF stopServerProcess
  <1>12. CASE CloseLog
    BY <1>12, GateKept DEF CloseLog
  <1>13. CASE closeEventSinks
    BY <1>13, GateKept DEF closeEventSinks
  <1>14. CASE Exit
    BY <1>14, GateKept DEF Exit
  <1>15. CASE ClientCloses
    BY <1>15, GateKept DEF ClientCloses
  <1>16. CASE ServerCloses
    BY <1>16, GateKept DEF ServerCloses
  <1>17. CASE Interrupt
    BY <1>17, GateKept DEF Interrupt
  <1>18. CASE KillServer
    BY <1>18, GateKept DEF KillServer
  <1>19. CASE EndOfInput
    BY <1>19 DEF GateInv, TypeInv, EndOfInput
  <1>20. CASE Denied
    BY <1>20 DEF GateInv, TypeInv, Denied
  <1>21. CASE Cancelled
    BY <1>21 DEF GateInv, TypeInv, Cancelled
  <1>22. CASE RelayInitializeResponse
    BY <1>22 DEF GateInv, TypeInv, RelayInitializeResponse
  <1>23. CASE LogStarted
    <2>1. Log("main", Started) /\ "main" \in Loggers
      BY <1>23 DEF LogStarted, Loggers
    <2>2. ledger \subseteq ledger'
      BY <2>1, LogKeeps, EventRange
    <2> QED
      BY <1>23, <2>2, GateKept DEF LogStarted
  <1>24. CASE LogEnded
    <2>1. Log("main", Ended) /\ "main" \in Loggers
      BY <1>24 DEF LogEnded, Loggers
    <2>2. ledger \subseteq ledger'
      BY <2>1, LogKeeps, EventRange
    <2> QED
      BY <1>24, <2>2, GateKept DEF LogEnded
  <1>25. CASE Reload
    <2>1. Log("reload", Reloaded) /\ "reload" \in Loggers
      BY <1>25 DEF Reload, Loggers
    <2>2. ledger \subseteq ledger'
      BY <2>1, LogKeeps, EventRange
    <2> QED
      BY <1>25, <2>2, GateKept DEF Reload
  <1>26. ASSUME NEW line \in budget.send, interceptClientToServerEnvelope(line) PROVE GateInv'
    <2>1. line \in Lines /\ forwarded' = forwarded
      BY <1>26, BudgetBounds DEF interceptClientToServerEnvelope
    <2>2. CASE /\ Gate(line).kind = "forward"
               /\ gate' = [pc |-> "relay", line |-> Gate(line).line, allowed |-> FALSE]
               /\ UNCHANGED <<ledger, allowEvents>>
      <3>1. NoCall(Gate(line).line)
        BY <2>1, <2>2, ForwardHasNoCall
      <3>2. gate'.pc = "relay" /\ gate'.line = Gate(line).line /\ gate'.allowed = FALSE
        BY <2>2
      <3> QED
        BY <2>1, <2>2, <3>1, <3>2 DEF GateInv
    <2>3. CASE /\ Log(Logger, lines + 1) /\ allowEvents' = allowEvents
               /\ \E p \in {"denied", "ignored"} : gate' = [gate EXCEPT !.pc = p]
      <3>1. Logger \in Loggers /\ lines + 1 \in Started .. Reloaded
        BY <1>26, BudgetBounds, EventRange DEF TypeInv, interceptClientToServerEnvelope, Logger, Loggers
      <3>2. PICK k \in Loggers, e \in Started .. Reloaded : Log(k, e)
        BY <2>3, <3>1
      <3>3. ledger \subseteq ledger'
        BY <3>2, LogKeeps
      <3>4. gate'.pc \in {"denied", "ignored"}
        BY <2>3 DEF TypeInv
      <3> QED
        BY <2>1, <2>3, <3>3, <3>4 DEF GateInv
    <2>5. CASE gate' = [gate EXCEPT !.pc = "refuse"] /\ UNCHANGED <<ledger, allowEvents>>
      <3>1. gate'.pc = "refuse"
        BY <2>5 DEF TypeInv
      <3> QED
        BY <2>1, <2>5, <3>1 DEF GateInv
    <2>4. CASE /\ Gate(line).kind = "request"
               /\ gate' = [pc |-> "commit", line |-> Gate(line).line, allowed |-> FALSE]
               /\ UNCHANGED <<ledger, allowEvents>>
      <3>1. OneWay(Gate(line).line)
        BY <2>1, <2>4, RequestReadsOneWay
      <3>2. gate'.pc = "commit" /\ gate'.line = Gate(line).line
        BY <2>4
      <3> QED
        BY <2>1, <2>4, <3>1, <3>2 DEF GateInv
    <2> QED
      BY <1>26, <2>2, <2>3, <2>4, <2>5 DEF interceptClientToServerEnvelope
  <1>27. CASE CommitAuthorization
    <2>1. gate.pc = "commit" /\ OneWay(gate.line) /\ UNCHANGED <<lines, forwarded>>
      BY <1>27 DEF CommitAuthorization, GateInv
    <2>2. CASE /\ ledger' = ledger \cup {lines} /\ allowEvents' = allowEvents \cup {lines}
               /\ gate' = [gate EXCEPT !.pc = "relay", !.allowed = TRUE]
      <3>1. gate'.pc = "relay" /\ gate'.allowed = TRUE /\ gate'.line = gate.line
        BY <2>2 DEF TypeInv
      <3> QED
        BY <2>1, <2>2, <3>1 DEF GateInv
    <2>3. CASE UNCHANGED <<ledger, allowEvents>> /\ gate' = [gate EXCEPT !.pc = "denied"]
      <3>1. gate'.pc = "denied"
        BY <2>3 DEF TypeInv
      <3> QED
        BY <2>1, <2>3, <3>1 DEF GateInv
    <2> QED
      BY <1>27, <2>2, <2>3 DEF CommitAuthorization
  <1>28. CASE Relay
    <2>1. gate.pc = "write" /\ UNCHANGED <<lines, ledger, allowEvents>>
      BY <1>28 DEF Relay
    <2>2. CASE /\ forwarded' = [line |-> gate.line, allowed |-> gate.allowed,
                                event |-> IF gate.allowed THEN lines ELSE NoEvent]
               /\ gate' = [gate EXCEPT !.pc = "read", !.line = NoLine, !.allowed = FALSE]
      <3>1. gate'.pc = "read" /\ gate.allowed \in BOOLEAN
        BY <2>2 DEF TypeInv
      <3>2. forwarded'.line = gate.line /\ forwarded'.allowed = gate.allowed /\ (gate.allowed => forwarded'.event = lines)
        BY <2>2
      <3> QED
        BY <2>1, <3>1, <3>2 DEF GateInv
    <2>3. CASE gate' = [gate EXCEPT !.pc = "error"] /\ forwarded' = forwarded
      <3>1. gate'.pc = "error"
        BY <2>3 DEF TypeInv
      <3> QED
        BY <2>1, <2>3, <3>1 DEF GateInv
    <2> QED
      BY <1>28, <2>2, <2>3 DEF Relay
  <1>29. ASSUME NEW k \in Loggers, forwardAudit(k) PROVE GateInv'
    BY <1>29, GateKept DEF forwardAudit, EmitEvent, Export
  <1>30. CASE Sink(EmitterStep) \/ Sink(PutBack)
    BY <1>30, GateKept DEF Sink
  <1>31. CASE Refuse
    <2>1. Logger \in Loggers /\ lines \in Started .. Reloaded
      BY EventRange DEF Logger, Loggers, TypeInv
    <2>2. PICK k \in Loggers, e \in Started .. Reloaded : Log(k, e)
      BY <1>31, <2>1 DEF Refuse
    <2>3. ledger \subseteq ledger'
      BY <2>2, LogKeeps
    <2>4. gate'.pc = "ignored" /\ UNCHANGED <<lines, forwarded, allowEvents>>
      BY <1>31 DEF Refuse, TypeInv
    <2> QED
      BY <2>3, <2>4 DEF GateInv
  <1>32. CASE logClientMessage
    <2>1. gate.pc = "relay" /\ gate' = [gate EXCEPT !.pc = "write"]
          /\ UNCHANGED <<lines, forwarded, ledger, allowEvents>>
      BY <1>32 DEF logClientMessage
    <2>2. gate'.pc = "write" /\ gate'.line = gate.line /\ gate'.allowed = gate.allowed
      BY <2>1 DEF TypeInv
    <2> QED
      BY <2>1, <2>2 DEF GateInv
  <1>33. ASSUME NEW peer, Stall(peer) PROVE GateInv'
    BY <1>33, GateKept DEF Stall
  <1> QED
    BY <1>31, <1>32, <1>33, <1>1, <1>2, <1>3, <1>4, <1>5, <1>6, <1>7, <1>8, <1>9, <1>10, <1>11, <1>12, <1>13, <1>14, <1>15, <1>16, <1>17, <1>18, <1>19, <1>20, <1>21, <1>22, <1>23, <1>24, <1>25, <1>26, <1>27, <1>28, <1>29, <1>30 DEF Next, MainStep, GateStep, BackStep, Loggers

-----------------------------------------------------------------------------
(***************************************************************************)
(* The sinks.                                                              *)
(***************************************************************************)
LEMMA ExportKept ==
    ASSUME ExportInv, UNCHANGED <<queue, loop, sleeping, accepted, dropped, received, written>>
    PROVE  ExportInv'
  BY DEF ExportInv, LaterTargetsHoldNoMore, AcceptedIsAccounted

InQueue(e) == \E i \in DOMAIN queue : queue[i] = e

\* Where an accepted event may be.
LEMMA Places ==
    AcceptedIsAccounted <=>
       \A e \in accepted :
          e \in sleeping \/ e \in dropped \/ e = loop.event \/ InQueue(e) \/ \A u \in 1 .. Urls : e \in received[u]
  BY DEF AcceptedIsAccounted, InQueue

LEMMA PlacesNext ==
    AcceptedIsAccounted' <=>
       \A e \in accepted' :
          e \in sleeping' \/ e \in dropped' \/ e = loop'.event \/ InQueue(e)'
             \/ \A u \in 1 .. Urls : e \in received'[u]
  BY DEF AcceptedIsAccounted, InQueue

\* An event put at the end of the queue is in it, with those that were there.
LEMMA QueueGrows ==
    ASSUME queue \in Seq(Int), NEW e \in Int, Len(queue) < BufferSize, queue' = Append(queue, e)
    PROVE  /\ queue' \in Seq(Int) /\ Len(queue') <= BufferSize
           /\ InQueue(e)' /\ \A f : InQueue(f) => InQueue(f)'
  <1>1. /\ queue' \in Seq(Int) /\ Len(queue') = Len(queue) + 1 /\ Len(queue) \in Nat
        /\ queue'[Len(queue) + 1] = e /\ \A i \in 1 .. Len(queue) : queue'[i] = queue[i]
        /\ DOMAIN queue = 1 .. Len(queue) /\ DOMAIN queue' = 1 .. Len(queue) + 1
    OBVIOUS
  <1>2. InQueue(e)'
    BY <1>1 DEF InQueue
  <1>3. \A f : InQueue(f) => InQueue(f)'
    BY <1>1 DEF InQueue
  <1> QED
    BY <1>1, <1>2, <1>3, ExportConstants

LEMMA QueueShrinks ==
    ASSUME queue \in Seq(Int), queue # <<>>, Len(queue) <= BufferSize, queue' = Tail(queue)
    PROVE  /\ queue' \in Seq(Int) /\ Len(queue') <= BufferSize /\ Head(queue) \in Int
           /\ \A f : InQueue(f) => f = Head(queue) \/ InQueue(f)'
  <1>1. /\ queue' \in Seq(Int) /\ Len(queue') = Len(queue) - 1 /\ Len(queue) \in Nat /\ Head(queue) = queue[1]
        /\ \A i \in 1 .. Len(queue) - 1 : queue'[i] = queue[i + 1]
        /\ DOMAIN queue = 1 .. Len(queue) /\ DOMAIN queue' = 1 .. Len(queue) - 1 /\ Head(queue) \in Int
    BY HeadTailProperties
  <1>2. ASSUME NEW f, InQueue(f), f # Head(queue) PROVE InQueue(f)'
    <2>1. PICK i \in DOMAIN queue : queue[i] = f
      BY <1>2 DEF InQueue
    <2>2. i - 1 \in 1 .. Len(queue) - 1 /\ queue'[i - 1] = f
      BY <1>1, <1>2, <2>1
    <2> QED
      BY <1>1, <2>2 DEF InQueue
  <1> QED
    BY <1>1, <1>2, ExportConstants

\* A URL receives the event in hand after those before it.
LEMMA ReceivedInOrder ==
    ASSUME ExportInv, loop # NoDelivery, received' = [received EXCEPT ![loop.url] = @ \cup {loop.event}]
    PROVE  /\ received' \in [1 .. Urls -> SUBSET Int]
           /\ \A i, j \in 1 .. Urls : i < j => received'[j] \subseteq received'[i]
           /\ \A u \in 1 .. Urls : received[u] \subseteq received'[u]
           /\ loop.event \in received'[loop.url]
  <1>1. /\ loop.url \in 1 .. Urls /\ loop.event \in Int /\ received \in [1 .. Urls -> SUBSET Int]
        /\ \A u \in 1 .. Urls : u < loop.url => loop.event \in received[u]
        /\ \A i, j \in 1 .. Urls : i < j => received[j] \subseteq received[i]
    BY DEF ExportInv, Deliveries, LaterTargetsHoldNoMore
  <1>2. \A u \in 1 .. Urls : received'[u] = IF u = loop.url THEN received[u] \cup {loop.event} ELSE received[u]
    BY <1>1
  <1>3. received' \in [1 .. Urls -> SUBSET Int]
    BY <1>1
  <1>4. ASSUME NEW i \in 1 .. Urls, NEW j \in 1 .. Urls, i < j PROVE received'[j] \subseteq received'[i]
    BY <1>1, <1>2, <1>4
  <1> QED
    BY <1>1, <1>2, <1>3, <1>4

LEMMA EmitterStepInd == ASSUME ExportInv, EmitterStep \/ PutBack PROVE ExportInv'
  <1>0. /\ queue \in Seq(Int) /\ Len(queue) <= BufferSize /\ loop \in Deliveries
        /\ \A e \in accepted :
              e \in sleeping \/ e \in dropped \/ e = loop.event \/ InQueue(e) \/ \A u \in 1 .. Urls : e \in received[u]
    BY Places DEF ExportInv
  <1>u. Urls \in Nat \ {0}
    BY ExportConstants
  <1>n. NoDelivery \in Deliveries /\ NoDelivery.event = -1
    BY DEF NoDelivery, Deliveries
  <1>1. CASE Take
    <2>1. /\ queue # <<>> /\ queue' = Tail(queue) /\ loop = NoDelivery
          /\ loop' = [event |-> Head(queue), url |-> 1, try |-> 1]
          /\ UNCHANGED <<sleeping, accepted, dropped, received, written>>
      BY <1>1 DEF Take
    <2>2. /\ queue' \in Seq(Int) /\ Len(queue') <= BufferSize /\ Head(queue) \in Int
          /\ \A f : InQueue(f) => f = Head(queue) \/ InQueue(f)'
      BY <1>0, <2>1, QueueShrinks
    <2>3. loop' \in Deliveries /\ loop'.url = 1 /\ loop'.event = Head(queue)
      BY <2>1, <2>2 DEF Deliveries
    <2>4. loop'.url \in 1 .. Urls /\ \A u \in 1 .. Urls : ~(u < loop'.url)
      BY <1>u, <2>3
    <2>5. LaterTargetsHoldNoMore'
      BY <2>1 DEF ExportInv, LaterTargetsHoldNoMore
    <2>6. AcceptedIsAccounted'
      <3>1. ASSUME NEW e \in accepted'
            PROVE  e \in sleeping' \/ e \in dropped' \/ e = loop'.event \/ InQueue(e)'
                      \/ \A u \in 1 .. Urls : e \in received'[u]
        <4>1. e # -1 => e # loop.event
          BY <1>n, <2>1
        <4>2. e # -1
          BY <2>1, <3>1 DEF ExportInv, NoEvent
        <4> QED
          BY <1>0, <2>1, <2>2, <2>3, <3>1, <4>1, <4>2
      <3> QED
        BY <3>1, PlacesNext
    <2> QED
      BY <2>1, <2>2, <2>3, <2>4, <2>5, <2>6 DEF ExportInv
  <1>2. CASE LoopReturns
    BY <1>2, ExportKept DEF LoopReturns
  <1>3. CASE PostSucceeds
    <2>1. /\ loop # NoDelivery /\ received' = [received EXCEPT ![loop.url] = @ \cup {loop.event}]
          /\ loop' = IF loop.url = Urls THEN NoDelivery ELSE [loop EXCEPT !.url = @ + 1, !.try = 1]
          /\ UNCHANGED <<queue, sleeping, accepted, dropped, written>>
      BY <1>3 DEF PostSucceeds
    <2>2. /\ received' \in [1 .. Urls -> SUBSET Int]
          /\ \A i, j \in 1 .. Urls : i < j => received'[j] \subseteq received'[i]
          /\ \A u \in 1 .. Urls : received[u] \subseteq received'[u]
          /\ loop.event \in received'[loop.url]
      BY <2>1, ReceivedInOrder
    <2>3. loop.url \in 1 .. Urls /\ \A u \in 1 .. Urls : u < loop.url => loop.event \in received[u]
      BY <2>1 DEF ExportInv
    <2>4. \A u \in 1 .. Urls : u <= loop.url => loop.event \in received'[u]
      BY <1>u, <2>2, <2>3
    <2>5. LaterTargetsHoldNoMore'
      BY <2>1, <2>2 DEF ExportInv, LaterTargetsHoldNoMore
    <2>6. CASE loop.url = Urls
      <3>1. loop' = NoDelivery /\ \A u \in 1 .. Urls : loop.event \in received'[u]
        BY <1>u, <2>1, <2>4, <2>6
      <3>2. AcceptedIsAccounted'
        <4>1. \A f : InQueue(f)' <=> InQueue(f)
          BY <2>1 DEF InQueue
        <4> QED
          BY <1>0, <2>1, <2>2, <3>1, <4>1, PlacesNext
      <3> QED
        BY <1>0, <1>n, <2>1, <2>2, <2>5, <3>1, <3>2 DEF ExportInv
    <2>7. CASE loop.url # Urls
      <3>1. loop' \in Deliveries /\ loop'.url = loop.url + 1 /\ loop'.event = loop.event
        <4>1. loop' = [loop EXCEPT !.url = @ + 1, !.try = 1]
          BY <2>1, <2>7
        <4>2. loop = [event |-> loop.event, url |-> loop.url, try |-> loop.try]
              /\ loop.event \in Int /\ loop.url \in Int
          BY <1>0 DEF Deliveries
        <4>3. loop' = [event |-> loop.event, url |-> loop.url + 1, try |-> 1]
          BY <4>1, <4>2
        <4> QED
          BY <4>2, <4>3 DEF Deliveries
      <3>2. loop'.url \in 1 .. Urls /\ \A u \in 1 .. Urls : u < loop'.url => loop'.event \in received'[u]
        BY <1>u, <2>3, <2>4, <2>7, <3>1
      <3>3. AcceptedIsAccounted'
        <4>1. \A f : InQueue(f)' <=> InQueue(f)
          BY <2>1 DEF InQueue
        <4> QED
          BY <1>0, <2>1, <2>2, <3>1, <4>1, PlacesNext
      <3> QED
        BY <1>0, <2>1, <2>2, <2>5, <3>1, <3>2, <3>3 DEF ExportInv
    <2> QED
      BY <2>6, <2>7
  <1>4. CASE PostFails
    <2>1. /\ loop # NoDelivery /\ loop' = [loop EXCEPT !.try = @ + 1]
          /\ received' = received \/ received' = [received EXCEPT ![loop.url] = @ \cup {loop.event}]
          /\ UNCHANGED <<queue, sleeping, accepted, dropped, written>>
      BY <1>4 DEF PostFails
    <2>2. /\ received' \in [1 .. Urls -> SUBSET Int]
          /\ \A i, j \in 1 .. Urls : i < j => received'[j] \subseteq received'[i]
          /\ \A u \in 1 .. Urls : received[u] \subseteq received'[u]
      <3>1. CASE received' = received
        BY <3>1 DEF ExportInv, LaterTargetsHoldNoMore
      <3>2. CASE received' = [received EXCEPT ![loop.url] = @ \cup {loop.event}]
        BY <2>1, <3>2, ReceivedInOrder
      <3> QED
        BY <2>1, <3>1, <3>2
    <2>3. loop' \in Deliveries /\ loop'.url = loop.url /\ loop'.event = loop.event
      BY <1>0, <2>1 DEF Deliveries
    <2>4. loop.url \in 1 .. Urls /\ \A u \in 1 .. Urls : u < loop.url => loop.event \in received[u]
      BY <2>1 DEF ExportInv
    <2>5. LaterTargetsHoldNoMore'
      BY <2>1, <2>2 DEF ExportInv, LaterTargetsHoldNoMore
    <2>6. AcceptedIsAccounted'
      <3>1. \A f : InQueue(f)' <=> InQueue(f)
        BY <2>1 DEF InQueue
      <3> QED
        BY <1>0, <2>1, <2>2, <2>3, <3>1, PlacesNext
    <2> QED
      BY <1>0, <2>1, <2>2, <2>3, <2>4, <2>5, <2>6 DEF ExportInv
  <1>5. CASE GiveUp
    <2>1. /\ loop # NoDelivery /\ sleeping' = sleeping \cup {loop.event} /\ loop' = NoDelivery
          /\ UNCHANGED <<queue, accepted, dropped, received, written>>
      BY <1>5 DEF GiveUp
    <2>2. loop.event \in Int
      BY <1>0 DEF Deliveries
    <2>3. LaterTargetsHoldNoMore'
      BY <2>1 DEF ExportInv, LaterTargetsHoldNoMore
    <2>4. AcceptedIsAccounted'
      <3>1. \A f : InQueue(f)' <=> InQueue(f)
        BY <2>1 DEF InQueue
      <3> QED
        BY <1>0, <2>1, <3>1, PlacesNext
    <2> QED
      BY <1>0, <1>n, <2>1, <2>2, <2>3, <2>4 DEF ExportInv
  <1>6. CASE PutBack
    <2>1. PICK e \in sleeping :
             /\ sleeping' = sleeping \ {e}
             /\ \/ Len(queue) < BufferSize /\ queue' = Append(queue, e) /\ dropped' = dropped
                \/ queue' = queue /\ dropped' = dropped \cup {e}
      BY <1>6 DEF PutBack
    <2>2. UNCHANGED <<loop, accepted, received, written>>
      BY <1>6 DEF PutBack
    <2>3. e \in Int
      BY <2>1 DEF ExportInv
    <2>4. LaterTargetsHoldNoMore'
      BY <2>2 DEF ExportInv, LaterTargetsHoldNoMore
    <2>5. CASE Len(queue) < BufferSize /\ queue' = Append(queue, e) /\ dropped' = dropped
      <3>1. /\ queue' \in Seq(Int) /\ Len(queue') <= BufferSize
            /\ InQueue(e)' /\ \A f : InQueue(f) => InQueue(f)'
        BY <1>0, <2>3, <2>5, QueueGrows
      <3>2. AcceptedIsAccounted'
        BY <1>0, <2>1, <2>2, <2>5, <3>1, PlacesNext
      <3> QED
        BY <1>0, <2>1, <2>2, <2>4, <3>1, <3>2 DEF ExportInv
    <2>6. CASE queue' = queue /\ dropped' = dropped \cup {e}
      <3>1. \A f : InQueue(f)' <=> InQueue(f)
        BY <2>6 DEF InQueue
      <3>2. AcceptedIsAccounted'
        BY <1>0, <2>1, <2>2, <2>6, <3>1, PlacesNext
      <3> QED
        BY <1>0, <2>1, <2>2, <2>4, <2>6, <3>2 DEF ExportInv
    <2> QED
      BY <2>1, <2>5, <2>6
  <1> QED
    BY <1>1, <1>2, <1>3, <1>4, <1>5, <1>6 DEF EmitterStep

\* An event is offered to the emitter.
LEMMA EmitInd ==
    ASSUME TypeInv, ExportInv, NEW k \in Loggers, EmitEvent(k)
    PROVE  ExportInv'
  <1>1. PICK e : e = pending[k]
    OBVIOUS
  <1>2. e \in Int \ {NoEvent}
    BY <1>1, EventRange DEF TypeInv, EmitEvent
  <1>3. Emit(e) /\ UNCHANGED <<loop, sleeping, dropped, received, written>>
    BY <1>1 DEF EmitEvent
  <1>5. written' \in [1 .. Writers -> SUBSET Int]
    BY <1>3 DEF ExportInv
  <1>7. LaterTargetsHoldNoMore'
    BY <1>3 DEF ExportInv, LaterTargetsHoldNoMore
  <1>8. \A f \in accepted :
           f \in sleeping \/ f \in dropped \/ f = loop.event \/ InQueue(f) \/ \A u \in 1 .. Urls : f \in received[u]
    BY Places DEF ExportInv
  <1>9. CASE queue' = Append(queue, e) /\ Len(queue) < BufferSize /\ accepted' = accepted \cup {e}
    <2>1. /\ queue' \in Seq(Int) /\ Len(queue') <= BufferSize
          /\ InQueue(e)' /\ \A f : InQueue(f) => InQueue(f)'
      BY <1>2, <1>9, QueueGrows DEF ExportInv
    <2>2. AcceptedIsAccounted'
      BY <1>3, <1>8, <1>9, <2>1, PlacesNext
    <2> QED
      BY <1>2, <1>3, <1>5, <1>7, <1>9, <2>1, <2>2 DEF ExportInv
  <1>10. CASE UNCHANGED <<queue, accepted>>
    BY <1>3, <1>10, ExportKept
  <1> QED
    BY <1>3, <1>9, <1>10 DEF Emit

\* A target is written after those before it.
LEMMA WriteInd ==
    ASSUME TypeInv, ExportInv, SiemInv, NEW k \in Loggers, Export(k)
    PROVE  ExportInv' /\ SiemInv'
  <1> DEFINE e == pending[k]
             t == NextTarget
  <1>1. /\ k \in emitted /\ MayExport(k) /\ UNCHANGED <<queue, loop, sleeping, accepted, dropped, received>>
        /\ IF siem' = NoExport THEN pending' = [pending EXCEPT ![k] = NoEvent] /\ emitted' = emitted \ {k}
           ELSE UNCHANGED <<pending, emitted>>
        /\ \/ /\ written' = [written EXCEPT ![t] = @ \cup {e}]
              /\ siem' = IF t = Writers THEN NoExport ELSE [by |-> k, target |-> t + 1]
           \/ siem' = NoExport /\ written' = written
    BY DEF Export, WriteTarget, WriteFails
  <1>2. /\ e \in Int \ {NoEvent} /\ Writers \in Nat \ {0} /\ written \in [1 .. Writers -> SUBSET Int]
        /\ \A i, j \in 1 .. Writers : i < j => written[j] \subseteq written[i]
        /\ \A i, j \in 1 .. Urls : i < j => received[j] \subseteq received[i]
    BY <1>1, ExportConstants, EventRange DEF TypeInv, SiemInv, ExportInv, LaterTargetsHoldNoMore
  <1>3. t \in 1 .. Writers /\ \A w \in 1 .. Writers : w < t => e \in written[w]
    <2>1. CASE siem = NoExport
      <3>1. t = 1
        BY <2>1 DEF NextTarget
      <3> QED BY <1>2, <3>1
    <2>2. CASE siem # NoExport
      <3>1. t = siem.target /\ siem.by = k
        BY <1>1, <2>2 DEF NextTarget, MayExport
      <3> QED BY <2>2, <3>1 DEF SiemInv
    <2> QED BY <2>1, <2>2
  <1> HIDE DEF t, e
  <1>4. /\ written' \in [1 .. Writers -> SUBSET Int]
        /\ \A w \in 1 .. Writers : written'[w] = written[w] \/ (w = t /\ written'[w] = written[w] \cup {e})
    BY <1>1, <1>2, <1>3
  <1>5. \A i, j \in 1 .. Writers : i < j => written'[j] \subseteq written'[i]
    <2> TAKE i, j \in 1 .. Writers
    <2> HAVE i < j
    <2>1. written[j] \subseteq written[i] /\ written[i] \subseteq written'[i]
      BY <1>2, <1>4
    <2>2. j = t => e \in written[i]
      BY <1>3
    <2> QED
      BY <1>4, <2>1, <2>2
  <1>6. ExportInv'
    <2>1. LaterTargetsHoldNoMore'
      BY <1>1, <1>2, <1>5 DEF LaterTargetsHoldNoMore
    <2>2. AcceptedIsAccounted'
      BY <1>1 DEF ExportInv, AcceptedIsAccounted
    <2> QED
      BY <1>1, <1>4, <2>1, <2>2 DEF ExportInv
  <1>7. SiemInv'
    <2>0. emitted \subseteq Loggers /\ pending \in [Loggers -> NoEvent .. Reloaded]
          /\ \A l \in emitted : pending[l] # NoEvent
      BY DEF SiemInv, TypeInv
    <2>1. CASE siem' = NoExport
      <3>1. emitted' = emitted \ {k} /\ pending' = [pending EXCEPT ![k] = NoEvent]
        BY <1>1, <2>1
      <3>2. \A l \in emitted' : l \in emitted /\ pending'[l] = pending[l]
        BY <2>0, <3>1
      <3> QED BY <2>0, <2>1, <3>1, <3>2 DEF SiemInv
    <2>2. CASE siem' # NoExport
      <3>1. /\ UNCHANGED <<pending, emitted>> /\ siem' = [by |-> k, target |-> t + 1] /\ t # Writers
            /\ written' = [written EXCEPT ![t] = @ \cup {e}]
        BY <1>1, <2>2
      <3>2. siem'.by = k /\ siem'.target = t + 1 /\ pending'[k] = e
        BY <3>1 DEF e
      <3>3. t + 1 \in 1 .. Writers /\ \A w \in 1 .. Writers : w < t + 1 => e \in written'[w]
        BY <1>2, <1>3, <3>1
      <3> QED BY <1>1, <2>0, <3>1, <3>2, <3>3 DEF SiemInv
    <2> QED BY <2>1, <2>2
  <1> QED
    BY <1>6, <1>7

LEMMA ExportStepInd == ASSUME TypeInv, ExportInv, SiemInv, Next PROVE ExportInv'
  <1> USE DEF exportVars
  <1>1. CASE StartFails
    BY <1>1, ExportKept DEF StartFails
  <1>2. CASE RelayInitialize
    BY <1>2, ExportKept DEF RelayInitialize
  <1>3. CASE EndOfInput
    BY <1>3, ExportKept DEF EndOfInput
  <1>4. CASE Denied
    BY <1>4, ExportKept DEF Denied
  <1>5. CASE ReadServer
    BY <1>5, ExportKept DEF ReadServer
  <1>6. CASE EndOfOutput
    BY <1>6, ExportKept DEF EndOfOutput
  <1>7. CASE StreamTimeout
    BY <1>7, ExportKept DEF StreamTimeout
  <1>8. CASE Redact
    BY <1>8, ExportKept DEF Redact
  <1>9. CASE logServerMessage
    BY <1>9, ExportKept DEF logServerMessage
  <1>10. CASE ForwardToClient
    BY <1>10, ExportKept DEF ForwardToClient
  <1>11. CASE RelaysReturn
    BY <1>11, ExportKept DEF RelaysReturn
  <1>12. CASE HandshakeReturns
    BY <1>12, ExportKept DEF HandshakeReturns
  <1>13. CASE stopServerProcess
    BY <1>13, ExportKept DEF stopServerProcess
  <1>14. CASE CloseLog
    BY <1>14, ExportKept DEF CloseLog
  <1>15. CASE closeEventSinks
    BY <1>15, ExportKept DEF closeEventSinks
  <1>16. CASE Exit
    BY <1>16, ExportKept DEF Exit
  <1>17. CASE ClientCloses
    BY <1>17, ExportKept DEF ClientCloses
  <1>18. CASE ServerCloses
    BY <1>18, ExportKept DEF ServerCloses
  <1>19. CASE Interrupt
    BY <1>19, ExportKept DEF Interrupt
  <1>20. CASE KillServer
    BY <1>20, ExportKept DEF KillServer
  <1>21. CASE Cancelled
    BY <1>21, ExportKept DEF Cancelled
  <1>22. CASE RelayInitializeResponse
    BY <1>22, ExportKept DEF RelayInitializeResponse
  <1>23. CASE Relay
    BY <1>23, ExportKept DEF Relay
  <1>24. CASE LogStarted
    BY <1>24, ExportKept DEF LogStarted, exportRest
  <1>25. CASE LogEnded
    BY <1>25, ExportKept DEF LogEnded, exportRest
  <1>26. CASE Reload
    BY <1>26, ExportKept DEF Reload, exportRest
  <1>27. CASE CommitAuthorization
    BY <1>27, ExportKept DEF CommitAuthorization, exportRest
  <1>28. ASSUME NEW line \in budget.send, interceptClientToServerEnvelope(line) PROVE ExportInv'
    BY <1>28, ExportKept DEF interceptClientToServerEnvelope, exportRest
  <1>29. ASSUME NEW k \in Loggers, forwardAudit(k) PROVE ExportInv'
    BY <1>29, EmitInd, WriteInd DEF forwardAudit
  <1>30. CASE Sink(EmitterStep) \/ Sink(PutBack)
    BY <1>30, EmitterStepInd DEF Sink
  <1>31. CASE Refuse
    BY <1>31, ExportKept DEF Refuse, exportRest
  <1>32. CASE logClientMessage
    BY <1>32, ExportKept DEF logClientMessage
  <1>33. ASSUME NEW peer, Stall(peer) PROVE ExportInv'
    BY <1>33, ExportKept DEF Stall
  <1> QED
    BY <1>31, <1>32, <1>33, <1>1, <1>2, <1>3, <1>4, <1>5, <1>6, <1>7, <1>8, <1>9, <1>10, <1>11, <1>12, <1>13, <1>14, <1>15, <1>16, <1>17, <1>18, <1>19, <1>20, <1>21, <1>22, <1>23, <1>24, <1>25, <1>26, <1>27, <1>28, <1>29, <1>30 DEF Next, MainStep, GateStep, BackStep, Loggers

\* A step that leaves the exporter and the events of those in it.
LEMMA SiemKept ==
    ASSUME SiemInv, UNCHANGED <<emitted, siem, written>>, \A l \in emitted : pending'[l] = pending[l]
    PROVE  SiemInv'
  BY DEF SiemInv

\* Only a logger that has nothing to forward logs.
LEMMA SiemLogs ==
    ASSUME TypeInv, SiemInv, NEW k \in Loggers, pending[k] = NoEvent, UNCHANGED <<emitted, siem, written>>, NEW e,
           pending' = pending \/ pending' = [pending EXCEPT ![k] = e]
    PROVE  SiemInv'
  <1>1. \A l \in emitted : pending'[l] = pending[l]
    BY DEF TypeInv, SiemInv
  <1> QED
    BY <1>1, SiemKept

LEMMA SiemStepInd == ASSUME TypeInv, ExportInv, SiemInv, Next PROVE SiemInv'
  <1> USE DEF exportVars, audit
  <1>1. CASE StartFails
    BY <1>1, SiemKept DEF StartFails
  <1>2. CASE RelayInitialize
    BY <1>2, SiemKept DEF RelayInitialize
  <1>3. CASE EndOfInput
    BY <1>3, SiemKept DEF EndOfInput
  <1>4. CASE Denied
    BY <1>4, SiemKept DEF Denied
  <1>5. CASE ReadServer
    BY <1>5, SiemKept DEF ReadServer
  <1>6. CASE EndOfOutput
    BY <1>6, SiemKept DEF EndOfOutput
  <1>7. CASE StreamTimeout
    BY <1>7, SiemKept DEF StreamTimeout
  <1>8. CASE Redact
    BY <1>8, SiemKept DEF Redact
  <1>9. CASE logServerMessage
    BY <1>9, SiemKept DEF logServerMessage
  <1>10. CASE ForwardToClient
    BY <1>10, SiemKept DEF ForwardToClient
  <1>11. CASE RelaysReturn
    BY <1>11, SiemKept DEF RelaysReturn
  <1>12. CASE HandshakeReturns
    BY <1>12, SiemKept DEF HandshakeReturns
  <1>13. CASE stopServerProcess
    BY <1>13, SiemKept DEF stopServerProcess
  <1>14. CASE CloseLog
    BY <1>14, SiemKept DEF CloseLog
  <1>15. CASE closeEventSinks
    BY <1>15, SiemKept DEF closeEventSinks
  <1>16. CASE Exit
    BY <1>16, SiemKept DEF Exit
  <1>17. CASE ClientCloses
    BY <1>17, SiemKept DEF ClientCloses
  <1>18. CASE ServerCloses
    BY <1>18, SiemKept DEF ServerCloses
  <1>19. CASE Interrupt
    BY <1>19, SiemKept DEF Interrupt
  <1>20. CASE KillServer
    BY <1>20, SiemKept DEF KillServer
  <1>21. CASE Cancelled
    BY <1>21, SiemKept DEF Cancelled
  <1>22. CASE RelayInitializeResponse
    BY <1>22, SiemKept DEF RelayInitializeResponse
  <1>23. CASE Relay
    BY <1>23, SiemKept DEF Relay
  <1>24. CASE logClientMessage
    BY <1>24, SiemKept DEF logClientMessage
  <1>25. CASE LogStarted
    <2>1. /\ pending["main"] = NoEvent /\ pending' = [pending EXCEPT !["main"] = Started]
          /\ UNCHANGED <<emitted, siem, written>>
      BY <1>25 DEF LogStarted, Log, exportRest
    <2>2. "main" \in Loggers
      BY DEF Loggers
    <2> QED
      BY <2>1, <2>2, SiemLogs
  <1>26. CASE LogEnded
    <2>1. /\ pending["main"] = NoEvent /\ pending' = [pending EXCEPT !["main"] = Ended]
          /\ UNCHANGED <<emitted, siem, written>>
      BY <1>26 DEF LogEnded, Log, exportRest
    <2>2. "main" \in Loggers
      BY DEF Loggers
    <2> QED
      BY <2>1, <2>2, SiemLogs
  <1>27. CASE Reload
    <2>1. /\ pending["reload"] = NoEvent /\ pending' = [pending EXCEPT !["reload"] = Reloaded]
          /\ UNCHANGED <<emitted, siem, written>>
      BY <1>27 DEF Reload, Log, exportRest
    <2>2. "reload" \in Loggers
      BY DEF Loggers
    <2> QED
      BY <2>1, <2>2, SiemLogs
  <1>28. CASE CommitAuthorization
    <2>1. /\ pending[Logger] = NoEvent /\ (pending' = pending \/ pending' = [pending EXCEPT ![Logger] = lines])
          /\ UNCHANGED <<emitted, siem, written>>
      BY <1>28 DEF CommitAuthorization, Log, GateOpen, exportRest
    <2>2. Logger \in Loggers
      BY DEF Logger, Loggers
    <2> QED
      BY <2>1, <2>2, SiemLogs
  <1>29. CASE Refuse
    <2>1. /\ pending[Logger] = NoEvent /\ (pending' = pending \/ pending' = [pending EXCEPT ![Logger] = lines])
          /\ UNCHANGED <<emitted, siem, written>>
      BY <1>29 DEF Refuse, Log, GateOpen, exportRest
    <2>2. Logger \in Loggers
      BY DEF Logger, Loggers
    <2> QED
      BY <2>1, <2>2, SiemLogs
  <1>30. ASSUME NEW line \in budget.send, interceptClientToServerEnvelope(line) PROVE SiemInv'
    <2>1. /\ pending[Logger] = NoEvent /\ (pending' = pending \/ pending' = [pending EXCEPT ![Logger] = lines + 1])
          /\ UNCHANGED <<emitted, siem, written>>
      BY <1>30 DEF interceptClientToServerEnvelope, Log, GateOpen, exportRest
    <2>2. Logger \in Loggers
      BY DEF Logger, Loggers
    <2> QED
      BY <2>1, <2>2, SiemLogs
  <1>31. ASSUME NEW l \in Loggers, EmitEvent(l) PROVE SiemInv'
    <2>1. /\ pending[l] # NoEvent /\ l \notin emitted /\ UNCHANGED <<siem, written>>
          /\ \/ pending' = [pending EXCEPT ![l] = NoEvent] /\ emitted' = emitted
             \/ pending' = pending /\ emitted' = emitted \cup {l}
      BY <1>31 DEF EmitEvent
    <2>2. \A i \in emitted : pending'[i] = pending[i]
      BY <2>1 DEF TypeInv, SiemInv
    <2> QED
      BY <2>1, <2>2 DEF SiemInv
  <1>32. ASSUME NEW l \in Loggers, forwardAudit(l) PROVE SiemInv'
    BY <1>32, <1>31, WriteInd DEF forwardAudit
  <1>33. CASE Sink(EmitterStep) \/ Sink(PutBack)
    BY <1>33, SiemKept DEF Sink, EmitterStep, Take, LoopReturns, PostSucceeds, PostFails, GiveUp, PutBack
  <1>34. ASSUME NEW peer, Stall(peer) PROVE SiemInv'
    BY <1>34, SiemKept DEF Stall
  <1> QED
    BY <1>1, <1>2, <1>3, <1>4, <1>5, <1>6, <1>7, <1>8, <1>9, <1>10, <1>11, <1>12, <1>13, <1>14, <1>15, <1>16, <1>17, <1>18, <1>19, <1>20, <1>21, <1>22, <1>23, <1>24, <1>25, <1>26, <1>27, <1>28, <1>29, <1>30, <1>31, <1>32, <1>33, <1>34
       DEF Next, MainStep, GateStep, BackStep, Loggers

\* The inductive invariant holds of every session.
THEOREM SessionInd == Spec => []IndInv
  <1>1. Init => IndInv
    BY InitInd
  <1>2. IndInv /\ [Next]_vars => IndInv'
    <2> SUFFICES ASSUME IndInv, [Next]_vars PROVE IndInv'
      OBVIOUS
    <2>1. CASE Next
      BY <2>1, TypeStep, GateStepInd, ExportStepInd, SiemStepInd DEF IndInv
    <2>2. CASE UNCHANGED vars
      <3>1. TypeInv'
        BY <2>2 DEF vars, session, audit, IndInv, TypeInv
      <3>2. GateInv'
        BY <2>2, GateKept DEF vars, audit, history, IndInv
      <3>3. ExportInv'
        BY <2>2, ExportKept DEF vars, exportVars, IndInv
      <3>4. SiemInv'
        BY <2>2, SiemKept DEF vars, audit, exportVars, IndInv
      <3> QED
        BY <3>1, <3>2, <3>3, <3>4 DEF IndInv
    <2> QED
      BY <2>1, <2>2
  <1> QED
    BY <1>1, <1>2, PTL DEF Spec

\* Whatever lines the client sends, single or in batches, cut off, ill-typed, or with a
\* method repeated or spelled in any way: none reaches the server in which a decoder that
\* takes the keys as spelled, or the proxy's own, reads a call that was not authorized,
\* and an authorized one is read by them as that call only.
THEOREM NoCallPassesTheGate == Spec => []GateHolds
  <1>1. IndInv => GateHolds
    BY DEF IndInv, GateInv, GateHolds, CallsPassTheGate, AuthorizedReadsOneWay, NoCall, OneWay
  <1> QED
    BY <1>1, SessionInd, PTL

\* A call that was relayed, and an authorization a sink was told of, are in the
\* ledger, also when the log fails or is closed while the relays still run.
THEOREM RelayedCallsAreInLedger == Spec => []RelayedCallIsInLedger
  <1>1. IndInv => RelayedCallIsInLedger
    BY DEF IndInv, GateInv, RelayedCallIsInLedger
  <1> QED
    BY <1>1, SessionInd, PTL

\* However often posts fail and are repeated, a later target holds no event that one
\* before it lacks, and an accepted event is delivered, waiting or counted as dropped.
THEOREM DeliveriesAreKept == Spec => []DeliveriesHold
  <1>1. IndInv => DeliveriesHold
    BY DEF IndInv, TypeInv, ExportInv, SiemInv, NoExport, DeliveriesHold, TypeOK
  <1> QED
    BY <1>1, SessionInd, PTL

-----------------------------------------------------------------------------
(***************************************************************************)
(* The redaction.  A pattern of symbols of its own is met by the scan only  *)
(* at its beginning, so that every occurrence goes, and the others stay     *)
(* whole for the patterns that follow; what cuts a text afterwards adds no   *)
(* part of a secret.                                                        *)
(***************************************************************************)
\* A set of naturals that is not empty has a least element.
LEMMA LeastExists ==
    ASSUME NEW S \in SUBSET Nat, S # {}
    PROVE  \E i \in S : \A j \in S : i <= j
  <1>1. PICK i \in S : \A j \in S : ~(<<j, i>> \in OpToRel(<, Nat))
    BY WFMin, NatLessThanWellFounded
  <1>2. \A j \in S : ~(j < i)
    BY <1>1 DEF OpToRel
  <1> QED
    BY <1>2

\* Induction over the naturals, for a set.
LEMMA NatSetInduction ==
    ASSUME NEW S, 0 \in S, \A n \in Nat : n \in S => n + 1 \in S
    PROVE  Nat \subseteq S
  <1> SUFFICES ASSUME Nat \ S # {} PROVE FALSE
    OBVIOUS
  <1>1. PICK i \in Nat \ S : \A j \in Nat \ S : i <= j
    BY LeastExists
  <1>2. i # 0 /\ i - 1 \in Nat /\ i - 1 \in S
    BY <1>1
  <1> QED
    BY <1>1, <1>2

\* The pattern w is in t at place i.
At(w, t, i) == i + Len(w) - 1 <= Len(t) /\ SubSeq(t, i, i + Len(w) - 1) = w

\* The recursion of ReplaceAllString, from place a on.
IsReplacing(f, w, t, a) ==
    f = [i \in a .. Len(t) + Len(w) |->
           IF i > Len(t) THEN <<>> ELSE IF At(w, t, i) THEN <<Mask>> \o f[i + Len(w)] ELSE <<t[i]>> \o f[i + 1]]

\* What it says of each place.
LEMMA ReplacingIs ==
    ASSUME NEW f, NEW w, NEW t, NEW a, IsReplacing(f, w, t, a)
    PROVE  \A i \in a .. Len(t) + Len(w) :
              f[i] = IF i > Len(t) THEN <<>> ELSE IF At(w, t, i) THEN <<Mask>> \o f[i + Len(w)] ELSE <<t[i]>> \o f[i + 1]
  <1> DEFINE F(g) == [i \in a .. Len(t) + Len(w) |->
           IF i > Len(t) THEN <<>> ELSE IF At(w, t, i) THEN <<Mask>> \o g[i + Len(w)] ELSE <<t[i]>> \o g[i + 1]]
  <1>1. f = F(f)
    BY DEF IsReplacing
  <1>2. \A g : \A i \in a .. Len(t) + Len(w) :
           F(g)[i] = IF i > Len(t) THEN <<>> ELSE IF At(w, t, i) THEN <<Mask>> \o g[i + Len(w)] ELSE <<t[i]>> \o g[i + 1]
    OBVIOUS
  <1> HIDE DEF F
  <1> QED
    BY <1>1, <1>2

\* There is such a function: it is built from the end of the text.
LEMMA ReplacingExists ==
    ASSUME NEW w, NEW t, Len(w) \in Nat \ {0}, Len(t) \in Nat
    PROVE  \E f : IsReplacing(f, w, t, 1)
  <1> DEFINE n == Len(w)
             T == Len(t)
             S == {k \in Nat : k <= T => \E f : IsReplacing(f, w, t, T + 1 - k)}
  <1>1. 0 \in S
    <2> DEFINE f == [i \in T + 1 .. T + n |-> <<>>]
    <2>1. \A i \in T + 1 .. T + n : i > T
      OBVIOUS
    <2>2. f = [i \in T + 1 .. T + n |->
                 IF i > Len(t) THEN <<>> ELSE IF At(w, t, i) THEN <<Mask>> \o f[i + Len(w)] ELSE <<t[i]>> \o f[i + 1]]
      BY <2>1
    <2>3. IsReplacing(f, w, t, T + 1)
      BY <2>2 DEF IsReplacing
    <2>4. T + 1 - 0 = T + 1
      OBVIOUS
    <2> QED
      BY <2>3, <2>4
  <1>2. ASSUME NEW k \in Nat, k \in S PROVE k + 1 \in S
    <2> SUFFICES ASSUME k + 1 <= T PROVE \E f : IsReplacing(f, w, t, T + 1 - (k + 1))
      OBVIOUS
    <2> DEFINE a == T + 1 - k
               b == T + 1 - (k + 1)
    <2>1. b = a - 1 /\ b \in 1 .. T /\ a \in 2 .. T + 1 /\ n \in Nat \ {0} /\ T \in Nat
      OBVIOUS
    <2>2. PICK f : IsReplacing(f, w, t, a)
      BY <1>2
    <2> HIDE DEF a, b
    <2>3. \A i \in a .. T + n :
             f[i] = IF i > T THEN <<>> ELSE IF At(w, t, i) THEN <<Mask>> \o f[i + n] ELSE <<t[i]>> \o f[i + 1]
      BY <2>2, ReplacingIs
    <2> DEFINE new == IF At(w, t, b) THEN <<Mask>> \o f[b + n] ELSE <<t[b]>> \o f[b + 1]
               g == [i \in b .. T + n |-> IF i = b THEN new ELSE f[i]]
    <2> HIDE DEF new, n, T
    <2>4. \A i \in a .. T + n : g[i] = f[i] /\ i \in b .. T + n /\ i # b
      BY <2>1
    <2>5. g[b] = new
      BY <2>1
    <2>6. \A i \in b .. T + n :
             g[i] = IF i > T THEN <<>> ELSE IF At(w, t, i) THEN <<Mask>> \o g[i + n] ELSE <<t[i]>> \o g[i + 1]
      <3> TAKE i \in b .. T + n
      <3>1. i = b \/ i \in a .. T + n
        BY <2>1
      <3> HIDE DEF g
      <3>2. CASE i = b
        <4>1. b + n \in a .. T + n /\ b + 1 \in a .. T + n /\ ~(b > T)
          BY <2>1
        <4>2. g[b + n] = f[b + n] /\ g[b + 1] = f[b + 1]
          BY <2>4, <4>1
        <4> QED
          BY <2>5, <3>2, <4>1, <4>2 DEF new
      <3>3. CASE i \in a .. T + n
        <4>1. CASE i > T
          BY <2>3, <2>4, <3>3, <4>1
        <4>2. CASE ~(i > T)
          <5>1. i + n \in a .. T + n /\ i + 1 \in a .. T + n
            BY <2>1, <3>3, <4>2
          <5>2. g[i + n] = f[i + n] /\ g[i + 1] = f[i + 1]
            BY <2>4, <5>1
          <5> QED
            BY <2>3, <2>4, <3>3, <4>2, <5>2
        <4> QED
          BY <4>1, <4>2
      <3> QED
        BY <3>1, <3>2, <3>3
    <2>7. IsReplacing(g, w, t, b)
      <3>1. g = [i \in b .. T + n |-> g[i]]
        OBVIOUS
      <3> HIDE DEF g
      <3> QED
        BY <2>6, <3>1 DEF IsReplacing, T, n
    <2> QED
      BY <2>7 DEF b, T
  <1>3. Nat \subseteq S
    <2> HIDE DEF S
    <2> QED
      BY <1>1, <1>2, NatSetInduction
  <1>4. T \in S
    BY <1>3
  <1>5. T + 1 - T = 1
    OBVIOUS
  <1> QED
    BY <1>4, <1>5

\* ReplaceAllString is the value at the first place of a function with these equations.
LEMMA ReplaceAllIs ==
    ASSUME NEW w, NEW t, Len(w) \in Nat \ {0}, Len(t) \in Nat
    PROVE  \E f : /\ ReplaceAllString(w, t) = f[1]
                  /\ \A i \in 1 .. Len(t) + Len(w) :
                        f[i] = IF i > Len(t) THEN <<>>
                               ELSE IF At(w, t, i) THEN <<Mask>> \o f[i + Len(w)] ELSE <<t[i]>> \o f[i + 1]
  <1> DEFINE f == CHOOSE g : IsReplacing(g, w, t, 1)
  <1>1. IsReplacing(f, w, t, 1)
    BY ReplacingExists
  <1>2. ReplaceAllString(w, t) = f[1]
    BY DEF ReplaceAllString, IsReplacing, At
  <1> HIDE DEF f
  <1> QED
    BY <1>1, <1>2, ReplacingIs

\* One more element in front.
LEMMA ConsIs ==
    ASSUME NEW S, NEW x \in S, NEW s \in Seq(S)
    PROVE  /\ <<x>> \o s \in Seq(S) /\ Len(<<x>> \o s) = Len(s) + 1 /\ Len(s) \in Nat
           /\ (<<x>> \o s)[1] = x
           /\ \A k \in 2 .. Len(s) + 1 : (<<x>> \o s)[k] = s[k - 1]
  <1>1. <<x>> \in Seq(S) /\ Len(<<x>>) = 1 /\ <<x>>[1] = x /\ Len(s) \in Nat
    OBVIOUS
  <1> DEFINE a == <<x>>
  <1>2. a \in Seq(S) /\ Len(a) = 1 /\ a[1] = x
    BY <1>1
  <1> HIDE DEF a
  <1>3. /\ a \o s \in Seq(S) /\ Len(a \o s) = Len(a) + Len(s)
        /\ \A i \in 1 .. Len(a) + Len(s) : (a \o s)[i] = IF i <= Len(a) THEN a[i] ELSE s[i - Len(a)]
    BY <1>2, ConcatProperties
  <1>4. /\ a \o s \in Seq(S) /\ Len(a \o s) = Len(s) + 1 /\ (a \o s)[1] = x
        /\ \A k \in 2 .. Len(s) + 1 : (a \o s)[k] = s[k - 1]
    BY <1>1, <1>2, <1>3
  <1> QED
    BY <1>1, <1>4 DEF a

\* The places of a pattern found in a text.
LEMMA AtIs ==
    ASSUME NEW S, NEW w \in Seq(S), NEW t \in Seq(S), Len(w) # 0, NEW i \in 1 .. Len(t)
    PROVE  /\ At(w, t, i) => /\ i + Len(w) - 1 \in 1 .. Len(t)
                             /\ \A j \in 1 .. Len(w) : t[i + j - 1] = w[j]
           /\ (i + Len(w) - 1 <= Len(t) /\ \A j \in 1 .. Len(w) : t[i + j - 1] = w[j]) => At(w, t, i)
  <1> DEFINE n == Len(w)
             e == i + n - 1
             q == SubSeq(t, i, e)
  <1>1. n \in Nat \ {0} /\ Len(t) \in Nat /\ e \in Int /\ i \in Int
    BY LenProperties
  <1>2. ASSUME e <= Len(t)
        PROVE  q \in Seq(S) /\ Len(q) = n /\ \A j \in 1 .. n : q[j] = t[i + j - 1]
    <2>1. \A k \in i .. e : t[k] \in S
      BY <1>1, <1>2, ElementOfSeq
    <2>2. /\ q \in Seq(S) /\ Len(q) = IF i <= e THEN e - i + 1 ELSE 0
          /\ \A k \in 1 .. e - i + 1 : q[k] = t[i + k - 1]
      BY <1>1, <2>1, SubSeqProperties
    <2> HIDE DEF q
    <2> QED BY <1>1, <2>2
  <1> HIDE DEF q
  <1>3. At(w, t, i) <=> e <= Len(t) /\ q = w
    BY DEF At, q
  <1>4. ASSUME At(w, t, i) PROVE e \in 1 .. Len(t) /\ \A j \in 1 .. n : t[i + j - 1] = w[j]
    BY <1>1, <1>2, <1>3, <1>4
  <1>5. ASSUME e <= Len(t), \A j \in 1 .. n : t[i + j - 1] = w[j] PROVE At(w, t, i)
    <2>1. q \in Seq(S) /\ Len(q) = Len(w) /\ \A j \in 1 .. Len(q) : q[j] = w[j]
      BY <1>2, <1>5
    <2>2. q = w
      BY <2>1, SeqEqual
    <2> QED BY <2>2, <1>3, <1>5
  <1> QED
    BY <1>4, <1>5

\* An occurrence of w in t lies inside t, and begins and ends as w does.
LEMMA AtEnds ==
    ASSUME NEW S, NEW w \in Seq(S), NEW t \in Seq(S), Len(w) # 0
    PROVE  \A i \in 1 .. Len(t) :
              At(w, t, i) => /\ i + Len(w) - 1 \in 1 .. Len(t)
                             /\ t[i] = w[1] /\ t[i + Len(w) - 1] = w[Len(w)]
  <1> SUFFICES ASSUME NEW i \in 1 .. Len(t), At(w, t, i)
               PROVE  /\ i + Len(w) - 1 \in 1 .. Len(t)
                      /\ t[i] = w[1] /\ t[i + Len(w) - 1] = w[Len(w)]
    OBVIOUS
  <1>1. i + Len(w) - 1 \in 1 .. Len(t) /\ \A j \in 1 .. Len(w) : t[i + j - 1] = w[j]
    BY AtIs
  <1>2. Len(w) \in Nat \ {0} /\ i \in Nat
    BY LenProperties
  <1>3. 1 \in 1 .. Len(w) /\ Len(w) \in 1 .. Len(w) /\ i + 1 - 1 = i
    BY <1>2
  <1>4. t[i + 1 - 1] = w[1] /\ t[i + Len(w) - 1] = w[Len(w)]
    BY <1>1, <1>3, Zenon
  <1> QED BY <1>1, <1>3, <1>4

\* No symbol of w is in the text.
Absent(w, text) == \A k \in DOMAIN text, j \in DOMAIN w : text[k] # w[j]

\* What the replacement leaves of a text: symbols of it, and masks.
Left(t) == {t[i] : i \in 1 .. Len(t)} \cup {Mask}

\* Where a text holds w only whole, its first symbol begins w.
LEMMA FirstBegins ==
    ASSUME NEW S, NEW w \in Seq(S), NEW t \in Seq(S), Len(w) # 0, HoldsWhole(w, t),
           NEW i \in 1 .. Len(t), t[i] = w[1]
    PROVE  At(w, t, i)
  <1> DEFINE n == Len(w)
             P == {k \in Nat : k < n => i + k \in 1 .. Len(t) /\ t[i + k] = w[k + 1]}
  <1>1. n \in Nat \ {0} /\ Len(t) \in Nat /\ DOMAIN w = 1 .. n /\ DOMAIN t = 1 .. Len(t) /\ i \in Nat
    BY LenProperties
  <1>2. 0 \in P
    BY <1>1
  <1>3. ASSUME NEW k \in Nat, k \in P PROVE k + 1 \in P
    <2> SUFFICES ASSUME k + 1 < n PROVE i + (k + 1) \in 1 .. Len(t) /\ t[i + (k + 1)] = w[(k + 1) + 1]
      OBVIOUS
    <2> DEFINE p == i + k
               j == k + 1
    <2>1. p \in 1 .. Len(t) /\ t[p] = w[j] /\ j \in 1 .. n /\ j < n
      BY <1>1, <1>3
    <2>2. p + 1 = i + (k + 1) /\ j + 1 = (k + 1) + 1
      BY <1>1
    <2> HIDE DEF p, j
    <2>3. p < Len(t) /\ t[p + 1] = w[j + 1]
      BY <2>1, <1>1 DEF HoldsWhole
    <2>4. p + 1 \in 1 .. Len(t)
      BY <2>1, <2>3, <1>1
    <2> QED BY <2>2, <2>3, <2>4
  <1>4. Nat \subseteq P
    <2> HIDE DEF P
    <2> QED BY <1>2, <1>3, NatSetInduction
  <1>5. ASSUME NEW j \in 1 .. n PROVE i + j - 1 \in 1 .. Len(t) /\ t[i + j - 1] = w[j]
    <2> DEFINE k == j - 1
    <2>1. k \in Nat /\ k < n /\ i + k = i + j - 1 /\ k + 1 = j
      BY <1>1
    <2> HIDE DEF k
    <2>2. k \in P /\ k < n /\ i + k = i + j - 1 /\ k + 1 = j
      <3> HIDE DEF P
      <3> QED BY <1>4, <2>1
    <2>3. i + k \in 1 .. Len(t) /\ t[i + k] = w[k + 1]
      BY <2>2
    <2> QED BY <2>2, <2>3
  <1>6. i + n - 1 <= Len(t)
    BY <1>1, <1>5
  <1> QED
    BY <1>5, <1>6, AtIs

\* The scan meets w only at its first symbol, so all of it is replaced; what is left are
\* symbols of the text and masks.
LEMMA ReplaceClears ==
    ASSUME NEW S, Mask \in S, NEW w \in Seq(S), NEW t \in Seq(S), IsSecret(w), HoldsWhole(w, t)
    PROVE  /\ ReplaceAllString(w, t) \in Seq(Left(t))
           /\ Absent(w, ReplaceAllString(w, t))
  <1> DEFINE n == Len(w)
             T == Len(t)
             R == Left(t)
             Sync(i) == i <= T => \A j \in 2 .. n : t[i] # w[j]
  <1>1. n \in Nat \ {0} /\ T \in Nat /\ DOMAIN w = 1 .. n /\ DOMAIN t = 1 .. T
    BY LenProperties DEF IsSecret
  <1>2. PICK f : /\ ReplaceAllString(w, t) = f[1]
                 /\ \A i \in 1 .. T + n :
                       f[i] = IF i > T THEN <<>> ELSE IF At(w, t, i) THEN <<Mask>> \o f[i + n] ELSE <<t[i]>> \o f[i + 1]
    BY <1>1, ReplaceAllIs
  <1>3. \A i, j \in 1 .. n : w[i] = w[j] => i = j
    BY <1>1 DEF IsSecret
  <1>4. \A i \in 1 .. n : w[i] # Mask
    BY <1>1 DEF IsSecret
  <1>5. \A i \in 1 .. T : At(w, t, i) => /\ i + n - 1 \in 1 .. T
                                        /\ t[i] = w[1] /\ t[i + n - 1] = w[n]
    <2>1. Len(w) # 0
      BY <1>1
    <2> QED BY <2>1, AtEnds, Zenon
  <1>6. \A i \in 1 .. T : t[i] = w[1] => At(w, t, i)
    BY <1>1, FirstBegins
  <1>7. \A k \in 1 .. T, j \in 2 .. n : t[k] = w[j] => k > 1 /\ t[k - 1] = w[j - 1]
    <2> TAKE k \in 1 .. T, j \in 2 .. n
    <2>1. j \in 1 .. n /\ j > 1
      BY <1>1
    <2> QED BY <1>1, <2>1 DEF HoldsWhole
  <1> HIDE DEF R
  <1>8. Mask \in R /\ \A i \in 1 .. T : t[i] \in R
    BY DEF R, Left
  <1> DEFINE Good(i) == /\ f[i] \in Seq(R)
                        /\ Sync(i) => \A k \in 1 .. Len(f[i]), j \in 1 .. n : f[i][k] # w[j]
             P == {k \in Nat : \A i \in 1 .. T + n : i + k >= T + 1 => Good(i)}
  <1>9. ASSUME NEW i \in 1 .. T + n, i > T PROVE Good(i)
    <2>1. f[i] = <<>>
      BY <1>2, <1>9
    <2>2. <<>> \in Seq(R) /\ Len(<<>>) = 0
      OBVIOUS
    <2> QED BY <2>1, <2>2
  <1>10. ASSUME NEW i \in 1 .. T, Good(i + 1), Good(i + n) PROVE Good(i)
    <2>0. i \in 1 .. T + n /\ ~(i > T)
      BY <1>1
    <2>1. CASE At(w, t, i)
      <3> DEFINE s == f[i + n]
      <3>1. f[i] = <<Mask>> \o s
        BY <1>2, <2>0, <2>1
      <3>2. s \in Seq(R) /\ (Sync(i + n) => \A k \in 1 .. Len(s), j \in 1 .. n : s[k] # w[j])
        BY <1>10
      <3>3. i + n - 1 \in 1 .. T /\ t[i + n - 1] = w[n]
        BY <1>5, <2>1
      <3>4. Sync(i + n)
        <4> SUFFICES ASSUME i + n <= T, NEW j \in 2 .. n, t[i + n] = w[j] PROVE FALSE
          OBVIOUS
        <4>1. i + n \in 1 .. T /\ (i + n) - 1 = i + n - 1
          BY <1>1
        <4>2. t[i + n - 1] = w[j - 1]
          BY <1>7, <4>1
        <4>3. j - 1 \in 1 .. n /\ n \in 1 .. n /\ j - 1 # n
          BY <1>1
        <4> QED BY <1>3, <3>3, <4>2, <4>3
      <3> HIDE DEF s, Sync
      <3>5. /\ <<Mask>> \o s \in Seq(R) /\ Len(<<Mask>> \o s) = Len(s) + 1 /\ Len(s) \in Nat
            /\ (<<Mask>> \o s)[1] = Mask
            /\ \A k \in 2 .. Len(s) + 1 : (<<Mask>> \o s)[k] = s[k - 1]
        BY <1>8, <3>2, ConsIs
      <3> DEFINE c == <<Mask>> \o s
      <3> HIDE DEF c
      <3>6. \A k \in 1 .. Len(c), j \in 1 .. n : c[k] # w[j]
        <4> SUFFICES ASSUME NEW k \in 1 .. Len(c), NEW j \in 1 .. n PROVE c[k] # w[j]
          OBVIOUS
        <4>1. CASE k = 1
          BY <1>4, <3>5, <4>1 DEF c
        <4>2. CASE k # 1
          <5>1. k \in 2 .. Len(s) + 1 /\ k - 1 \in 1 .. Len(s)
            BY <3>5, <4>2 DEF c
          <5> QED BY <3>2, <3>4, <3>5, <5>1 DEF c
        <4> QED BY <4>1, <4>2
      <3> QED BY <3>1, <3>5, <3>6 DEF c
    <2>2. CASE ~At(w, t, i)
      <3> DEFINE s == f[i + 1]
      <3>1. f[i] = <<t[i]>> \o s
        BY <1>2, <2>0, <2>2
      <3>2. s \in Seq(R) /\ (Sync(i + 1) => \A k \in 1 .. Len(s), j \in 1 .. n : s[k] # w[j])
        BY <1>10
      <3>3. t[i] # w[1]
        BY <1>6, <2>2
      <3>4. Sync(i) => \A j \in 1 .. n : t[i] # w[j]
        <4> SUFFICES ASSUME Sync(i), NEW j \in 1 .. n PROVE t[i] # w[j]
          OBVIOUS
        <4>1. j = 1 \/ j \in 2 .. n
          BY <1>1
        <4> QED BY <3>3, <4>1, <2>0
      <3>5. Sync(i) => Sync(i + 1)
        <4> SUFFICES ASSUME Sync(i), i + 1 <= T, NEW j \in 2 .. n, t[i + 1] = w[j] PROVE FALSE
          OBVIOUS
        <4>1. i + 1 \in 1 .. T /\ (i + 1) - 1 = i /\ j - 1 \in 1 .. n
          BY <1>1
        <4>2. t[i] = w[j - 1]
          BY <1>7, <4>1
        <4> QED BY <3>4, <4>1, <4>2
      <3> HIDE DEF s, Sync
      <3>6. /\ <<t[i]>> \o s \in Seq(R) /\ Len(<<t[i]>> \o s) = Len(s) + 1 /\ Len(s) \in Nat
            /\ (<<t[i]>> \o s)[1] = t[i]
            /\ \A k \in 2 .. Len(s) + 1 : (<<t[i]>> \o s)[k] = s[k - 1]
        BY <1>8, <3>2, ConsIs
      <3> DEFINE c == <<t[i]>> \o s
      <3> HIDE DEF c
      <3>7. Sync(i) => \A k \in 1 .. Len(c), j \in 1 .. n : c[k] # w[j]
        <4> SUFFICES ASSUME Sync(i), NEW k \in 1 .. Len(c), NEW j \in 1 .. n PROVE c[k] # w[j]
          OBVIOUS
        <4>1. CASE k = 1
          BY <3>4, <3>6, <4>1 DEF c
        <4>2. CASE k # 1
          <5>1. k \in 2 .. Len(s) + 1 /\ k - 1 \in 1 .. Len(s)
            BY <3>6, <4>2 DEF c
          <5> QED BY <3>2, <3>5, <3>6, <5>1 DEF c
        <4> QED BY <4>1, <4>2
      <3> QED BY <3>1, <3>6, <3>7 DEF c
    <2> QED BY <2>1, <2>2
  <1> HIDE DEF Good
  <1>11. 0 \in P
    BY <1>1, <1>9
  <1>12. ASSUME NEW k \in Nat, k \in P PROVE k + 1 \in P
    <2> SUFFICES ASSUME NEW i \in 1 .. T + n, i + (k + 1) >= T + 1 PROVE Good(i)
      OBVIOUS
    <2>1. CASE i > T
      BY <1>9, <2>1
    <2>2. CASE ~(i > T)
      <3>1. i \in 1 .. T /\ i + 1 \in 1 .. T + n /\ i + n \in 1 .. T + n
            /\ (i + 1) + k >= T + 1 /\ (i + n) + k >= T + 1
        BY <1>1, <2>2
      <3>2. Good(i + 1) /\ Good(i + n)
        BY <1>12, <3>1
      <3> QED BY <1>10, <3>1, <3>2
    <2> QED BY <2>1, <2>2
  <1>13. Nat \subseteq P
    <2> HIDE DEF P
    <2> QED BY <1>11, <1>12, NatSetInduction
  <1>14. Good(1)
    <2>1. T \in P
      <3> HIDE DEF P
      <3> QED BY <1>1, <1>13
    <2>2. 1 \in 1 .. T + n /\ 1 + T >= T + 1
      BY <1>1
    <2> QED BY <2>1, <2>2
  <1>15. Sync(1)
    <2> SUFFICES ASSUME 1 <= T, NEW j \in 2 .. n, t[1] = w[j] PROVE FALSE
      OBVIOUS
    <2>1. 1 \in 1 .. T
      BY <1>1
    <2>2. 1 > 1
      BY <1>7, <2>1
    <2> QED BY <2>2
  <1>16. f[1] \in Seq(R) /\ \A k \in 1 .. Len(f[1]), j \in 1 .. n : f[1][k] # w[j]
    BY <1>14, <1>15 DEF Good
  <1>17. DOMAIN f[1] = 1 .. Len(f[1])
    BY <1>16, LenProperties
  <1> QED
    BY <1>1, <1>2, <1>16, <1>17 DEF Absent, R

\* The replacement of w leaves whole what another pattern v matches.
LEMMA ReplaceKeepsWhole ==
    ASSUME NEW S, Mask \in S, NEW w \in Seq(S), NEW t \in Seq(S), Len(w) # 0,
           NEW v \in Seq(S), HoldsWhole(v, t), \A j \in DOMAIN v : v[j] # Mask,
           \A i \in DOMAIN w, j \in DOMAIN v : w[i] # v[j]
    PROVE  HoldsWhole(v, ReplaceAllString(w, t))
  <1> DEFINE n == Len(w)
             m == Len(v)
             T == Len(t)
  <1>1. n \in Nat \ {0} /\ m \in Nat /\ T \in Nat /\ DOMAIN w = 1 .. n /\ DOMAIN v = 1 .. m /\ DOMAIN t = 1 .. T
    BY LenProperties
  <1>2. PICK f : /\ ReplaceAllString(w, t) = f[1]
                 /\ \A i \in 1 .. T + n :
                       f[i] = IF i > T THEN <<>> ELSE IF At(w, t, i) THEN <<Mask>> \o f[i + n] ELSE <<t[i]>> \o f[i + 1]
    <2>1. Len(w) \in Nat \ {0} /\ Len(t) \in Nat
      BY <1>1
    <2>2. \E f : /\ ReplaceAllString(w, t) = f[1]
                 /\ \A i \in 1 .. Len(t) + Len(w) :
                       f[i] = IF i > Len(t) THEN <<>>
                              ELSE IF At(w, t, i) THEN <<Mask>> \o f[i + Len(w)] ELSE <<t[i]>> \o f[i + 1]
      BY <2>1, ReplaceAllIs
    <2> QED BY <2>2
  <1>3. \A i \in 1 .. T : At(w, t, i) => /\ i + n - 1 \in 1 .. T
                                        /\ t[i] = w[1] /\ t[i + n - 1] = w[n]
    <2>1. \A i \in 1 .. Len(t) :
              At(w, t, i) => /\ i + Len(w) - 1 \in 1 .. Len(t)
                             /\ t[i] = w[1] /\ t[i + Len(w) - 1] = w[Len(w)]
      BY AtEnds
    <2> QED BY <2>1
  <1>4. \A k \in 1 .. T, j \in 1 .. m :
           t[k] = v[j] => /\ j < m => k < T /\ t[k + 1] = v[j + 1]
                          /\ j > 1 => k > 1 /\ t[k - 1] = v[j - 1]
    BY <1>1 DEF HoldsWhole
  <1>5. (\A j \in 1 .. m : v[j] # Mask) /\ \A i \in 1 .. n, j \in 1 .. m : w[i] # v[j]
    BY <1>1
  <1>6. \A i \in 1 .. T : t[i] \in S
    BY ElementOfSeq
  <1> DEFINE \* what is left of t from place i on begins with the symbol there, unless w was there
             Begins(i) == IF i > T THEN Len(f[i]) = 0
                          ELSE Len(f[i]) # 0 /\ (f[i][1] = t[i] \/ (f[i][1] = Mask /\ \A j \in 1 .. m : t[i] # v[j]))
             Whole(i) == \A k \in 1 .. Len(f[i]), j \in 1 .. m :
                            f[i][k] = v[j] => /\ j < m => k < Len(f[i]) /\ f[i][k + 1] = v[j + 1]
                                              /\ j > 1 /\ k > 1 => f[i][k - 1] = v[j - 1]
             Good(i) == f[i] \in Seq(S) /\ Begins(i) /\ Whole(i)
             P == {k \in Nat : \A i \in 1 .. T + n : i + k >= T + 1 => Good(i)}
  <1>7. ASSUME NEW i \in 1 .. T + n, i > T PROVE Good(i)
    <2>1. f[i] = <<>>
      BY <1>2, <1>7
    <2>2. <<>> \in Seq(S) /\ Len(<<>>) = 0
      OBVIOUS
    <2> QED BY <2>1, <2>2, <1>7
  <1>8. ASSUME NEW i \in 1 .. T, NEW d \in {1, n}, Good(i + d), NEW x \in S, f[i] = <<x>> \o f[i + d],
               x = t[i] \/ (x = Mask /\ \A j \in 1 .. m : t[i] # v[j]),
               \A j \in 1 .. m : x = v[j] /\ j < m => d = 1 /\ i < T /\ t[i + 1] = v[j + 1],
               \A j \in 2 .. m : i + d <= T /\ t[i + d] = v[j] => x = v[j - 1]
        PROVE  Good(i)
    <2> DEFINE s == f[i + d]
               c == <<x>> \o s
    <2>1. s \in Seq(S) /\ Begins(i + d) /\ Whole(i + d)
      BY <1>8
    <2>2. Len(s) \in Nat /\ i + d \in Nat /\ d \in Nat
      <3> HIDE DEF s, n, T, Begins, Whole
      <3>1. Len(s) \in Nat
        BY <2>1, LenProperties
      <3>2. d \in Nat /\ i \in Nat
        BY <1>1
      <3> QED BY <3>1, <3>2
    <2>3. /\ c \in Seq(S) /\ Len(c) = Len(s) + 1 /\ c[1] = x
          /\ \A k \in 2 .. Len(s) + 1 : c[k] = s[k - 1]
      <3> HIDE DEF s
      <3> QED BY <2>1, ConsIs
    <2>4. f[i] = c
      BY <1>8
    <2>5. Begins(i)
      <3> HIDE DEF c
      <3>1. Len(f[i]) # 0 /\ f[i][1] = x
        BY <2>2, <2>3, <2>4
      <3> QED BY <3>1, <1>8
    <2>6. IF i + d > T THEN Len(s) = 0
          ELSE Len(s) # 0 /\ (s[1] = t[i + d] \/ (s[1] = Mask /\ \A j \in 1 .. m : t[i + d] # v[j]))
      BY <2>1
    <2>7. \A k \in 1 .. Len(s), j \in 1 .. m :
             s[k] = v[j] => /\ j < m => k < Len(s) /\ s[k + 1] = v[j + 1]
                            /\ j > 1 /\ k > 1 => s[k - 1] = v[j - 1]
      BY <2>1
    <2> HIDE DEF c, s, Begins, Good, P
    <2>8. ASSUME NEW k \in 1 .. Len(c), NEW j \in 1 .. m, c[k] = v[j], j < m
          PROVE  k < Len(c) /\ c[k + 1] = v[j + 1]
      <3>1. CASE k = 1
        <4>1. x = v[j] /\ d = 1 /\ i < T /\ t[i + 1] = v[j + 1]
          BY <1>8, <2>3, <2>8, <3>1
        <4>2. ~(i + d > T) /\ j + 1 \in 1 .. m
          BY <4>1, <1>1, <2>8
        <4>3. Len(s) # 0 /\ s[1] = t[i + d]
          BY <2>6, <4>1, <4>2
        <4>4. c[2] = s[1] /\ 1 < Len(c)
          <5>1. 2 \in 2 .. Len(s) + 1 /\ 2 - 1 = 1 /\ 1 < Len(s) + 1
            BY <2>2, <4>3
          <5>2. c[2] = s[2 - 1]
            BY <2>3, <5>1
          <5> QED BY <2>3, <5>1, <5>2
        <4> QED BY <3>1, <4>1, <4>3, <4>4
      <3>2. CASE k # 1
        <4>1. k \in 2 .. Len(s) + 1 /\ k - 1 \in 1 .. Len(s)
          BY <2>2, <2>3, <3>2
        <4>2. s[k - 1] = v[j]
          BY <2>3, <2>8, <4>1
        <4> DEFINE p == k - 1
        <4>3. p \in 1 .. Len(s) /\ s[p] = v[j] /\ k = p + 1
          BY <4>1, <4>2
        <4> HIDE DEF p
        <4>4. p < Len(s) /\ s[p + 1] = v[j + 1]
          BY <2>7, <2>8, <4>3
        <4>5. k + 1 \in 2 .. Len(s) + 1 /\ (k + 1) - 1 = p + 1 /\ k < Len(c)
          BY <2>2, <2>3, <4>3, <4>4
        <4>6. c[k + 1] = s[p + 1]
          BY <2>3, <4>5
        <4> QED BY <4>4, <4>5, <4>6
      <3> QED BY <3>1, <3>2
    <2>9. ASSUME NEW k \in 1 .. Len(c), NEW j \in 1 .. m, c[k] = v[j], j > 1, k > 1
          PROVE  c[k - 1] = v[j - 1]
      <3>1. k \in 2 .. Len(s) + 1 /\ k - 1 \in 1 .. Len(s)
        BY <2>2, <2>3, <2>9
      <3>0. j \in 2 .. m
        <4>1. m \in Nat
          BY <1>1
        <4> HIDE DEF m, Whole
        <4> QED BY <2>9, <4>1
      <3>2. s[k - 1] = v[j] /\ j \in 2 .. m
        BY <2>3, <2>9, <3>0, <3>1
      <3>3. CASE k = 2
        <4>1. s[1] = v[j] /\ Len(s) # 0
          BY <3>1, <3>2, <3>3, <2>2
        <4>2. ~(i + d > T) /\ s[1] = t[i + d]
          BY <2>6, <4>1, <1>5
        <4>3. i + d <= T
          <5>1. T \in Nat /\ i + d \in Nat
            BY <2>2, <1>1
          <5> HIDE DEF T
          <5> QED BY <4>2, <5>1
        <4>4. x = v[j - 1]
          BY <1>8, <3>2, <4>1, <4>2, <4>3
        <4> QED BY <2>3, <3>3, <4>4
      <3>4. CASE k # 2
        <4> DEFINE p == k - 1
        <4>1. p \in 1 .. Len(s) /\ p > 1 /\ s[p] = v[j] /\ k - 1 = p /\ p \in 2 .. Len(s) + 1
          BY <3>1, <3>2, <3>4, <2>2
        <4> HIDE DEF p
        <4>2. s[p - 1] = v[j - 1]
          BY <2>7, <2>9, <4>1
        <4>3. c[p] = s[p - 1]
          BY <2>3, <4>1
        <4> QED BY <4>1, <4>2, <4>3
      <3> QED BY <3>3, <3>4
    <2>10. Whole(i)
      BY <2>4, <2>8, <2>9
    <2>11. f[i] \in Seq(S)
      BY <2>3, <2>4
    <2> QED BY <2>5, <2>10, <2>11 DEF Good
  <1>9. ASSUME NEW i \in 1 .. T, Good(i + 1), Good(i + n) PROVE Good(i)
    <2> HIDE DEF Good
    <2>0. i \in 1 .. T + n /\ ~(i > T) /\ 1 \in 1 .. n /\ n \in 1 .. n
      BY <1>1
    <2>1. CASE At(w, t, i)
      <3>1. f[i] = <<Mask>> \o f[i + n]
        BY <1>2, <2>0, <2>1
      <3>2. i + n - 1 \in 1 .. T /\ t[i] = w[1] /\ t[i + n - 1] = w[n]
        BY <1>3, <2>1
      <3>3. \A j \in 1 .. m : t[i] # v[j]
        BY <1>5, <2>0, <3>2
      <3>4. \A j \in 1 .. m : Mask = v[j] /\ j < m => n = 1 /\ i < T /\ t[i + 1] = v[j + 1]
        BY <1>5
      <3>5. \A j \in 2 .. m : i + n <= T /\ t[i + n] = v[j] => Mask = v[j - 1]
        <4> SUFFICES ASSUME NEW j \in 2 .. m, i + n <= T, t[i + n] = v[j] PROVE FALSE
          OBVIOUS
        <4>1. i + n \in 1 .. T /\ (i + n) - 1 = i + n - 1 /\ j \in 1 .. m /\ j > 1 /\ j - 1 \in 1 .. m
          BY <1>1
        <4>2. t[i + n - 1] = v[j - 1]
          BY <1>4, <4>1
        <4> QED BY <1>5, <2>0, <3>2, <4>1, <4>2
      <3>6. n \in {1, n} /\ Mask \in S
        OBVIOUS
      <3> QED BY <1>8, <1>9, <3>1, <3>3, <3>4, <3>5, <3>6
    <2>2. CASE ~At(w, t, i)
      <3>1. f[i] = <<t[i]>> \o f[i + 1]
        BY <1>2, <2>0, <2>2
      <3>2. \A j \in 1 .. m : t[i] = v[j] /\ j < m => 1 = 1 /\ i < T /\ t[i + 1] = v[j + 1]
        BY <1>4
      <3>3. \A j \in 2 .. m : i + 1 <= T /\ t[i + 1] = v[j] => t[i] = v[j - 1]
        <4> SUFFICES ASSUME NEW j \in 2 .. m, i + 1 <= T, t[i + 1] = v[j] PROVE t[i] = v[j - 1]
          OBVIOUS
        <4>1. i + 1 \in 1 .. T /\ (i + 1) - 1 = i /\ j \in 1 .. m /\ j > 1
          BY <1>1
        <4> QED BY <1>4, <4>1
      <3>4. 1 \in {1, n} /\ t[i] \in S
        BY <1>6
      <3> QED BY <1>8, <1>9, <3>1, <3>2, <3>3, <3>4
    <2> QED BY <2>1, <2>2
  <1> HIDE DEF Good
  <1>11. 0 \in P
    BY <1>1, <1>7
  <1>12. ASSUME NEW k \in Nat, k \in P PROVE k + 1 \in P
    <2> SUFFICES ASSUME NEW i \in 1 .. T + n, i + (k + 1) >= T + 1 PROVE Good(i)
      OBVIOUS
    <2>1. CASE i > T
      BY <1>7, <2>1
    <2>2. CASE ~(i > T)
      <3>1. i \in 1 .. T /\ i + 1 \in 1 .. T + n /\ i + n \in 1 .. T + n
            /\ (i + 1) + k >= T + 1 /\ (i + n) + k >= T + 1
        BY <1>1, <2>2
      <3>2. Good(i + 1) /\ Good(i + n)
        BY <1>12, <3>1
      <3> QED BY <1>9, <3>1, <3>2
    <2> QED BY <2>1, <2>2
  <1>13. Nat \subseteq P
    <2> HIDE DEF P
    <2> QED BY <1>11, <1>12, NatSetInduction
  <1>14. Good(1)
    <2>1. T \in P
      <3> HIDE DEF P
      <3> QED BY <1>1, <1>13
    <2>2. 1 \in 1 .. T + n /\ 1 + T >= T + 1
      BY <1>1
    <2> QED BY <2>1, <2>2
  <1> DEFINE r == f[1]
  <1>15. /\ r \in Seq(S)
         /\ IF 1 > T THEN Len(r) = 0 ELSE Len(r) # 0 /\ (r[1] = t[1] \/ r[1] = Mask)
         /\ \A k \in 1 .. Len(r), j \in 1 .. m :
               r[k] = v[j] => /\ j < m => k < Len(r) /\ r[k + 1] = v[j + 1]
                              /\ j > 1 /\ k > 1 => r[k - 1] = v[j - 1]
    BY <1>14 DEF Good
  <1> HIDE DEF r
  <1>16. DOMAIN r = 1 .. Len(r) /\ Len(r) \in Nat
    BY <1>15, LenProperties
  <1>17. ASSUME NEW j \in 1 .. m, j > 1, Len(r) # 0, r[1] = v[j] PROVE FALSE
    <2>1. ~(1 > T) /\ r[1] = t[1]
      BY <1>5, <1>15, <1>17
    <2>2. 1 \in 1 .. T
      BY <1>1, <2>1
    <2>3. t[1] = v[j]
      BY <1>17, <2>1
    <2>4. 1 > 1
      BY <1>4, <1>17, <2>2, <2>3
    <2> QED BY <2>4
  <1>18. HoldsWhole(v, r)
    <2> SUFFICES ASSUME NEW k \in 1 .. Len(r), NEW j \in 1 .. m, r[k] = v[j]
                 PROVE  /\ j < m => k < Len(r) /\ r[k + 1] = v[j + 1]
                        /\ j > 1 => k > 1 /\ r[k - 1] = v[j - 1]
      BY <1>1, <1>16 DEF HoldsWhole
    <2>1. j > 1 => k > 1
      BY <1>16, <1>17
    <2> QED BY <1>15, <2>1
  <1> QED
    BY <1>2, <1>18 DEF r

\* What a text may be made of.
Glyphs == STRING \cup {Mask, Cut}

\* The texts of the server are made of them.
LEMMA TextsAre == Seq(STRING) \subseteq Seq(Glyphs)
  BY SeqMonotonic DEF Glyphs

\* A text without a symbol of w holds it whole, that is not at all.
LEMMA AbsentIsWhole ==
    ASSUME NEW w, NEW text, Absent(w, text)
    PROVE  HoldsWhole(w, text)
  BY DEF Absent, HoldsWhole

\* What is left of a text after a replacement has no symbol the text and the mask lack.
LEMMA ReplaceKeepsAbsent ==
    ASSUME NEW t \in Seq(Glyphs), NEW v \in Seq(Glyphs), IsSecret(v), Absent(v, t),
           NEW r \in Seq(Left(t))
    PROVE  Absent(v, r)
  <1> DEFINE R == Left(t)
  <1>1. \A k \in DOMAIN r : r[k] \in R
    <2> HIDE DEF R
    <2>1. r \in Seq(R)
      BY DEF R
    <2>2. DOMAIN r = 1 .. Len(r)
      BY <2>1, LenProperties
    <2> QED BY <2>1, <2>2, ElementOfSeq
  <1>2. DOMAIN t = 1 .. Len(t)
    BY LenProperties
  <1>3. ASSUME NEW k \in DOMAIN r, NEW j \in DOMAIN v PROVE r[k] # v[j]
    <2>1. r[k] = Mask \/ \E i \in DOMAIN t : r[k] = t[i]
      BY <1>1, <1>2 DEF Left
    <2>2. v[j] # Mask
      BY DEF IsSecret
    <2>3. \A i \in DOMAIN t : t[i] # v[j]
      BY DEF Absent
    <2> QED BY <2>1, <2>2, <2>3
  <1> QED BY <1>3 DEF Absent

\* The recursion of RedactOutput over the first n patterns.
IsRedacting(f, all, text, n) ==
    f = [i \in 0 .. n |-> IF i = 0 THEN text ELSE ReplaceAllString(all[i].matches, f[i - 1])]

\* What it says of each pattern.
LEMMA RedactingIs ==
    ASSUME NEW f, NEW all, NEW text, NEW n \in Nat, IsRedacting(f, all, text, n)
    PROVE  f[0] = text /\ \A i \in 1 .. n : f[i] = ReplaceAllString(all[i].matches, f[i - 1])
  <1> DEFINE F(g) == [i \in 0 .. n |-> IF i = 0 THEN text ELSE ReplaceAllString(all[i].matches, g[i - 1])]
  <1>1. f = F(f)
    BY DEF IsRedacting
  <1>2. \A g : F(g)[0] = text /\ \A i \in 1 .. n : F(g)[i] = ReplaceAllString(all[i].matches, g[i - 1])
    OBVIOUS
  <1> HIDE DEF F
  <1> QED
    BY <1>1, <1>2

\* There is such a function: it is built pattern by pattern.
LEMMA RedactingExists ==
    ASSUME NEW all, NEW text, NEW n \in Nat
    PROVE  \E f : IsRedacting(f, all, text, n)
  <1> DEFINE S == {k \in Nat : \E f : IsRedacting(f, all, text, k)}
  <1>1. 0 \in S
    <2> DEFINE f == [i \in 0 .. 0 |-> text]
    <2>1. f = [i \in 0 .. 0 |-> IF i = 0 THEN text ELSE ReplaceAllString(all[i].matches, f[i - 1])]
      OBVIOUS
    <2>2. IsRedacting(f, all, text, 0)
      BY <2>1 DEF IsRedacting
    <2> QED BY <2>2
  <1>2. ASSUME NEW k \in Nat, k \in S PROVE k + 1 \in S
    <2>1. PICK f : IsRedacting(f, all, text, k)
      BY <1>2
    <2>2. f[0] = text /\ \A i \in 1 .. k : f[i] = ReplaceAllString(all[i].matches, f[i - 1])
      BY <2>1, RedactingIs
    <2> DEFINE new == ReplaceAllString(all[k + 1].matches, f[k])
               g == [i \in 0 .. k + 1 |-> IF i = k + 1 THEN new ELSE f[i]]
    <2> HIDE DEF new
    <2>3. g[k + 1] = new /\ \A i \in 0 .. k : g[i] = f[i]
      OBVIOUS
    <2>4. g = [i \in 0 .. k + 1 |-> g[i]]
      OBVIOUS
    <2> HIDE DEF g
    <2>5. \A i \in 0 .. k + 1 : g[i] = IF i = 0 THEN text ELSE ReplaceAllString(all[i].matches, g[i - 1])
      <3> TAKE i \in 0 .. k + 1
      <3>1. CASE i = 0
        BY <2>2, <2>3, <3>1
      <3>2. CASE i \in 1 .. k
        <4>1. i - 1 \in 0 .. k /\ i \in 0 .. k /\ i # 0
          BY <3>2
        <4> QED BY <2>2, <2>3, <3>2, <4>1
      <3>3. CASE i = k + 1
        <4>1. i - 1 = k /\ k \in 0 .. k /\ i # 0
          BY <3>3
        <4> QED BY <2>3, <3>3, <4>1 DEF new
      <3> QED BY <3>1, <3>2, <3>3
    <2>6. IsRedacting(g, all, text, k + 1)
      BY <2>4, <2>5 DEF IsRedacting
    <2> QED BY <2>6
  <1>3. Nat \subseteq S
    <2> HIDE DEF S
    <2> QED BY <1>1, <1>2, NatSetInduction
  <1> QED
    BY <1>3

\* Pattern by pattern: what was replaced stays away, what comes later stays whole.
LEMMA RedactOutputClears ==
    ASSUME NEW engine, NEW text \in Seq(Glyphs), engine.patterns \o engine.output \in Seq(Patterns),
           \A i, j \in 1 .. Len(engine.patterns \o engine.output) :
              LET v == (engine.patterns \o engine.output)[i].matches
                  w == (engine.patterns \o engine.output)[j].matches
              IN  /\ IsSecret(v) /\ HoldsWhole(v, text)
                  /\ v = w \/ \A a \in DOMAIN v, b \in DOMAIN w : v[a] # w[b]
    PROVE  /\ RedactOutput(engine, text) \in Seq(Glyphs)
           /\ \A i \in 1 .. Len(engine.patterns \o engine.output) :
                 Absent((engine.patterns \o engine.output)[i].matches, RedactOutput(engine, text))
  <1> DEFINE all == engine.patterns \o engine.output
             n == Len(all)
             f == CHOOSE g : IsRedacting(g, all, text, n)
  <1>1. n \in Nat /\ all \in Seq(Patterns)
    BY LenProperties
  <1>2. RedactOutput(engine, text) = f[n]
    BY DEF RedactOutput, IsRedacting
  <1>3. ASSUME NEW i \in 1 .. n PROVE all[i].matches \in Seq(Glyphs) /\ IsSecret(all[i].matches) /\ HoldsWhole(all[i].matches, text)
    <2>1. IsSecret(all[i].matches) /\ HoldsWhole(all[i].matches, text)
      OBVIOUS
    <2> HIDE DEF all
    <2>2. all[i] \in Patterns
      BY <1>1, ElementOfSeq
    <2>3. all[i].matches \in Seq(STRING)
      BY <2>2 DEF Patterns
    <2> QED BY <2>1, <2>3, TextsAre
  <1>4. \A i, j \in 1 .. n : \/ all[i].matches = all[j].matches
                             \/ \A a \in DOMAIN all[i].matches, b \in DOMAIN all[j].matches :
                                   all[i].matches[a] # all[j].matches[b]
    OBVIOUS
  <1> HIDE DEF all
  <1>5. IsRedacting(f, all, text, n)
    <2>1. \E g : IsRedacting(g, all, text, n)
      <3> HIDE DEF n
      <3> QED BY <1>1, RedactingExists
    <2> QED BY <2>1
  <1> HIDE DEF f, n
  <1>6. f[0] = text /\ \A i \in 1 .. n : f[i] = ReplaceAllString(all[i].matches, f[i - 1])
    BY <1>1, <1>5, RedactingIs
  <1> DEFINE Good(k) == /\ f[k] \in Seq(Glyphs)
                        /\ \A i \in 1 .. n : /\ HoldsWhole(all[i].matches, f[k])
                                             /\ i <= k => Absent(all[i].matches, f[k])
             P == {k \in Nat : k <= n => Good(k)}
  <1>7. 0 \in P
    BY <1>1, <1>3, <1>6
  <1>8. ASSUME NEW k \in Nat, k \in P PROVE k + 1 \in P
    <2> SUFFICES ASSUME k + 1 <= n PROVE Good(k + 1)
      OBVIOUS
    <2>0. k <= n /\ k + 1 \in 1 .. n /\ (k + 1) - 1 = k
      BY <1>1
    <2>1. Good(k)
      BY <1>8, <2>0
    <2> DEFINE w == all[k + 1].matches
               t == f[k]
               r == f[k + 1]
    <2>2. r = ReplaceAllString(w, t)
      BY <1>6, <2>0
    <2>3. w \in Seq(Glyphs) /\ IsSecret(w) /\ t \in Seq(Glyphs) /\ HoldsWhole(w, t)
      BY <1>3, <2>0, <2>1
    <2>4. \A i \in 1 .. n : all[i].matches = w \/ \A a \in DOMAIN w, b \in DOMAIN all[i].matches : w[a] # all[i].matches[b]
      BY <1>4, <2>0
    <2>5. \A i \in 1 .. n : HoldsWhole(all[i].matches, t) /\ (i <= k => Absent(all[i].matches, t))
      BY <2>1
    <2> HIDE DEF w, t, r, Good, P
    <2>6. Mask \in Glyphs
      BY DEF Glyphs
    <2>7. r \in Seq(Left(t)) /\ Absent(w, r)
      BY <2>2, <2>3, <2>6, ReplaceClears
    <2>8. r \in Seq(Glyphs)
      <3>1. \A i \in 1 .. Len(t) : t[i] \in Glyphs
        BY <2>3, ElementOfSeq
      <3>2. Left(t) \subseteq Glyphs
        BY <3>1, <2>6 DEF Left
      <3> QED BY <2>7, <3>2, SeqMonotonic
    <2>9. ASSUME NEW i \in 1 .. n
          PROVE  /\ HoldsWhole(all[i].matches, r)
                 /\ i <= k + 1 => Absent(all[i].matches, r)
      <3> DEFINE v == all[i].matches
      <3>1. v \in Seq(Glyphs) /\ IsSecret(v) /\ HoldsWhole(v, t) /\ (i <= k => Absent(v, t))
        BY <1>3, <2>5
      <3>2. v = w \/ \A a \in DOMAIN w, b \in DOMAIN v : w[a] # v[b]
        BY <2>4
      <3>3. i = k + 1 => v = w
        BY DEF w
      <3> HIDE DEF v
      <3>4. CASE v = w
        <4>1. Absent(v, r)
          BY <2>7, <3>4
        <4> QED BY <4>1, AbsentIsWhole DEF v
      <3>5. CASE v # w
        <4>1. Len(w) # 0 /\ \A j \in DOMAIN v : v[j] # Mask
          BY <2>3, <3>1 DEF IsSecret
        <4>2. \A a \in DOMAIN w, b \in DOMAIN v : w[a] # v[b]
          BY <3>2, <3>5
        <4>3. HoldsWhole(v, r)
          BY <2>2, <2>3, <2>6, <3>1, <4>1, <4>2, ReplaceKeepsWhole
        <4>4. i <= k => Absent(v, r)
          BY <2>3, <2>7, <3>1, ReplaceKeepsAbsent
        <4>5. i <= k + 1 => i <= k
          BY <3>3, <3>5
        <4> QED BY <4>3, <4>4, <4>5 DEF v
      <3> QED BY <3>4, <3>5
    <2> QED BY <2>8, <2>9 DEF Good, r
  <1>9. Nat \subseteq P
    <2> HIDE DEF P
    <2> QED BY <1>7, <1>8, NatSetInduction
  <1>10. Good(n)
    <2>1. n \in P
      <3> HIDE DEF P
      <3> QED BY <1>1, <1>9
    <2>2. n <= n
      BY <1>1
    <2> QED BY <2>1, <2>2
  <1>11. f[n] \in Seq(Glyphs) /\ \A i \in 1 .. n : Absent(all[i].matches, f[n])
    BY <1>1, <1>10
  <1> QED
    BY <1>2, <1>11 DEF n, all

\* An element of a sequence.
Occurs(q, s) == \E i \in DOMAIN s : s[i] = q

\* What occurs in a sequence with one more element.
LEMMA AppendOccurs ==
    ASSUME NEW S, NEW s \in Seq(S), NEW x \in S
    PROVE  Append(s, x) \in Seq(S) /\ \A q : Occurs(q, Append(s, x)) <=> Occurs(q, s) \/ q = x
  <1> DEFINE a == Append(s, x)
  <1>1. /\ a \in Seq(S) /\ Len(a) = Len(s) + 1 /\ a[Len(s) + 1] = x
        /\ \A i \in 1 .. Len(s) : a[i] = s[i]
    BY AppendProperties
  <1>2. DOMAIN s = 1 .. Len(s) /\ Len(s) \in Nat
    BY LenProperties
  <1> HIDE DEF a
  <1>3. DOMAIN a = 1 .. Len(s) + 1
    BY <1>1, LenProperties
  <1>4. \A q : Occurs(q, a) <=> Occurs(q, s) \/ q = x
    <2> TAKE q
    <2>1. ASSUME NEW i \in DOMAIN a, a[i] = q PROVE Occurs(q, s) \/ q = x
      <3>1. i = Len(s) + 1 \/ i \in DOMAIN s
        BY <1>2, <1>3
      <3> QED BY <1>1, <1>2, <2>1, <3>1 DEF Occurs
    <2>2. ASSUME NEW i \in DOMAIN s, s[i] = q PROVE Occurs(q, a)
      <3>1. i \in DOMAIN a /\ a[i] = q
        BY <1>1, <1>2, <1>3, <2>2
      <3> QED BY <3>1 DEF Occurs
    <2>3. x = q => Occurs(q, a)
      <3>1. Len(s) + 1 \in DOMAIN a
        BY <1>2, <1>3
      <3> QED BY <1>1, <3>1 DEF Occurs
    <2> QED BY <2>1, <2>2, <2>3 DEF Occurs
  <1> QED
    BY <1>1, <1>4 DEF a

\* What occurs in two sequences joined.
LEMMA ConcatOccurs ==
    ASSUME NEW S, NEW s \in Seq(S), NEW t \in Seq(S)
    PROVE  s \o t \in Seq(S) /\ \A q : Occurs(q, s \o t) <=> Occurs(q, s) \/ Occurs(q, t)
  <1> DEFINE a == s \o t
  <1>1. /\ a \in Seq(S) /\ Len(a) = Len(s) + Len(t)
        /\ \A i \in 1 .. Len(s) + Len(t) : a[i] = IF i <= Len(s) THEN s[i] ELSE t[i - Len(s)]
    BY ConcatProperties
  <1>2. DOMAIN s = 1 .. Len(s) /\ Len(s) \in Nat /\ DOMAIN t = 1 .. Len(t) /\ Len(t) \in Nat
    BY LenProperties
  <1> HIDE DEF a
  <1>3. DOMAIN a = 1 .. Len(s) + Len(t)
    BY <1>1, LenProperties
  <1>4. \A q : Occurs(q, a) <=> Occurs(q, s) \/ Occurs(q, t)
    <2> TAKE q
    <2>1. ASSUME NEW i \in DOMAIN a, a[i] = q PROVE Occurs(q, s) \/ Occurs(q, t)
      <3>1. CASE i <= Len(s)
        <4>1. i \in DOMAIN s
          BY <1>2, <1>3, <3>1
        <4>2. s[i] = q
          BY <1>1, <1>3, <2>1, <3>1
        <4> QED BY <4>1, <4>2 DEF Occurs
      <3>2. CASE ~(i <= Len(s))
        <4>1. i - Len(s) \in DOMAIN t
          BY <1>2, <1>3, <3>2
        <4>2. t[i - Len(s)] = q
          BY <1>1, <1>3, <2>1, <3>2
        <4> QED BY <4>1, <4>2 DEF Occurs
      <3> QED BY <3>1, <3>2
    <2>2. ASSUME NEW i \in DOMAIN s, s[i] = q PROVE Occurs(q, a)
      <3>1. i \in DOMAIN a /\ i \in 1 .. Len(s) + Len(t) /\ i <= Len(s)
        BY <1>2, <1>3
      <3>2. a[i] = q
        BY <1>1, <2>2, <3>1
      <3> QED BY <3>1, <3>2 DEF Occurs
    <2>3. ASSUME NEW i \in DOMAIN t, t[i] = q PROVE Occurs(q, a)
      <3> DEFINE k == Len(s) + i
      <3>1. k \in DOMAIN a /\ k \in 1 .. Len(s) + Len(t) /\ ~(k <= Len(s)) /\ k - Len(s) = i
        BY <1>2, <1>3
      <3> HIDE DEF k
      <3>2. a[k] = q
        BY <1>1, <2>3, <3>1
      <3> QED BY <3>1, <3>2 DEF Occurs
    <2> QED BY <2>1, <2>2, <2>3 DEF Occurs
  <1> QED
    BY <1>1, <1>4 DEF a

\* The recursion of compilePatterns over the first n patterns.
IsCompiling(f, list, n) ==
    f = [i \in 0 .. n |-> IF i = 0 THEN <<>> ELSE IF list[i].compiles THEN Append(f[i - 1], list[i]) ELSE f[i - 1]]

\* What it says of each pattern of the list.
LEMMA CompilingIs ==
    ASSUME NEW f, NEW list, NEW n \in Nat, IsCompiling(f, list, n)
    PROVE  f[0] = <<>> /\ \A i \in 1 .. n : f[i] = IF list[i].compiles THEN Append(f[i - 1], list[i]) ELSE f[i - 1]
  <1> DEFINE F(g) == [i \in 0 .. n |->
                        IF i = 0 THEN <<>> ELSE IF list[i].compiles THEN Append(g[i - 1], list[i]) ELSE g[i - 1]]
  <1>1. f = F(f)
    BY DEF IsCompiling
  <1>2. \A g : /\ F(g)[0] = <<>>
               /\ \A i \in 1 .. n : F(g)[i] = IF list[i].compiles THEN Append(g[i - 1], list[i]) ELSE g[i - 1]
    OBVIOUS
  <1> HIDE DEF F
  <1> QED
    BY <1>1, <1>2

\* There is such a function: it is built pattern by pattern.
LEMMA CompilingExists ==
    ASSUME NEW list, NEW n \in Nat
    PROVE  \E f : IsCompiling(f, list, n)
  <1> DEFINE S == {k \in Nat : \E f : IsCompiling(f, list, k)}
  <1>1. 0 \in S
    <2> DEFINE f == [i \in 0 .. 0 |-> <<>>]
    <2>1. f = [i \in 0 .. 0 |->
                 IF i = 0 THEN <<>> ELSE IF list[i].compiles THEN Append(f[i - 1], list[i]) ELSE f[i - 1]]
      OBVIOUS
    <2>2. IsCompiling(f, list, 0)
      BY <2>1 DEF IsCompiling
    <2> QED BY <2>2
  <1>2. ASSUME NEW k \in Nat, k \in S PROVE k + 1 \in S
    <2>1. PICK f : IsCompiling(f, list, k)
      BY <1>2
    <2>2. f[0] = <<>> /\ \A i \in 1 .. k : f[i] = IF list[i].compiles THEN Append(f[i - 1], list[i]) ELSE f[i - 1]
      BY <2>1, CompilingIs
    <2> DEFINE new == IF list[k + 1].compiles THEN Append(f[k], list[k + 1]) ELSE f[k]
               g == [i \in 0 .. k + 1 |-> IF i = k + 1 THEN new ELSE f[i]]
    <2> HIDE DEF new
    <2>3. g[k + 1] = new /\ \A i \in 0 .. k : g[i] = f[i]
      OBVIOUS
    <2>4. g = [i \in 0 .. k + 1 |-> g[i]]
      OBVIOUS
    <2> HIDE DEF g
    <2>5. \A i \in 0 .. k + 1 :
             g[i] = IF i = 0 THEN <<>> ELSE IF list[i].compiles THEN Append(g[i - 1], list[i]) ELSE g[i - 1]
      <3> TAKE i \in 0 .. k + 1
      <3>1. CASE i = 0
        BY <2>2, <2>3, <3>1
      <3>2. CASE i \in 1 .. k
        <4>1. i - 1 \in 0 .. k /\ i \in 0 .. k /\ i # 0
          BY <3>2
        <4> QED BY <2>2, <2>3, <3>2, <4>1
      <3>3. CASE i = k + 1
        <4>1. i - 1 = k /\ k \in 0 .. k /\ i # 0
          BY <3>3
        <4> QED BY <2>3, <3>3, <4>1 DEF new
      <3> QED BY <3>1, <3>2, <3>3
    <2>6. IsCompiling(g, list, k + 1)
      BY <2>4, <2>5 DEF IsCompiling
    <2> QED BY <2>6
  <1>3. Nat \subseteq S
    <2> HIDE DEF S
    <2> QED BY <1>1, <1>2, NatSetInduction
  <1> QED
    BY <1>3

\* The patterns of the list that compile, and no others.
LEMMA CompiledAre ==
    ASSUME NEW list \in Seq(Patterns)
    PROVE  /\ compilePatterns(list) \in Seq(Patterns)
           /\ \A q : Occurs(q, compilePatterns(list)) <=> Occurs(q, list) /\ q.compiles
  <1> DEFINE n == Len(list)
             f == CHOOSE g : IsCompiling(g, list, n)
  <1>1. n \in Nat /\ DOMAIN list = 1 .. n
    BY LenProperties
  <1>2. compilePatterns(list) = f[n]
    BY DEF compilePatterns, IsCompiling
  <1>3. IsCompiling(f, list, n)
    <2>1. \E g : IsCompiling(g, list, n)
      <3> HIDE DEF n
      <3> QED BY <1>1, CompilingExists
    <2> QED BY <2>1
  <1> HIDE DEF f, n
  <1>4. f[0] = <<>> /\ \A i \in 1 .. n : f[i] = IF list[i].compiles THEN Append(f[i - 1], list[i]) ELSE f[i - 1]
    BY <1>1, <1>3, CompilingIs
  <1>5. \A i \in 1 .. n : list[i] \in Patterns
    BY ElementOfSeq DEF n
  <1> DEFINE Good(k) == /\ f[k] \in Seq(Patterns)
                        /\ \A q : Occurs(q, f[k]) <=> \E i \in 1 .. k : list[i] = q /\ q.compiles
             P == {k \in Nat : k <= n => Good(k)}
  <1>6. 0 \in P
    <2>1. f[0] \in Seq(Patterns) /\ DOMAIN f[0] = {}
      BY <1>4
    <2>2. 1 .. 0 = {}
      OBVIOUS
    <2> QED BY <2>1, <2>2 DEF Occurs
  <1>7. ASSUME NEW k \in Nat, k \in P PROVE k + 1 \in P
    <2> SUFFICES ASSUME k + 1 <= n PROVE Good(k + 1)
      OBVIOUS
    <2>0. k <= n /\ k + 1 \in 1 .. n /\ (k + 1) - 1 = k
      BY <1>1
    <2> DEFINE s == f[k]
               x == list[k + 1]
    <2>1. s \in Seq(Patterns) /\ \A q : Occurs(q, s) <=> \E i \in 1 .. k : list[i] = q /\ q.compiles
      BY <1>7, <2>0
    <2>2. x \in Patterns
      BY <1>5, <2>0
    <2>3. f[k + 1] = IF x.compiles THEN Append(s, x) ELSE s
      BY <1>4, <2>0
    <2>4. \A i : i \in 1 .. k + 1 <=> i \in 1 .. k \/ i = k + 1
      OBVIOUS
    <2>5. \A q : (\E i \in 1 .. k + 1 : list[i] = q /\ q.compiles)
                    <=> (\E i \in 1 .. k : list[i] = q /\ q.compiles) \/ (x = q /\ q.compiles)
      BY <2>4
    <2> HIDE DEF s, x
    <2>6. Append(s, x) \in Seq(Patterns) /\ \A q : Occurs(q, Append(s, x)) <=> Occurs(q, s) \/ q = x
      BY <2>1, <2>2, AppendOccurs
    <2>7. CASE x.compiles
      BY <2>1, <2>3, <2>5, <2>6, <2>7
    <2>8. CASE ~x.compiles
      BY <2>1, <2>3, <2>5, <2>8
    <2> QED BY <2>7, <2>8
  <1>8. Nat \subseteq P
    <2> HIDE DEF P
    <2> QED BY <1>6, <1>7, NatSetInduction
  <1>9. Good(n)
    <2>1. n \in P
      <3> HIDE DEF P
      <3> QED BY <1>1, <1>8
    <2>2. n <= n
      BY <1>1
    <2> QED BY <2>1, <2>2
  <1> QED
    BY <1>1, <1>2, <1>9 DEF Occurs

\* The patterns the engine applies are the compiling ones of the policy.
Applied(p) == NewEngine(p.redaction).patterns \o NewEngine(p.redaction).output

LEMMA EngineIs ==
    ASSUME NEW g \in 1 .. Len(Generations)
    PROVE  /\ Applied(Generations[g]) \in Seq(Patterns)
           /\ \A i \in 1 .. Len(Applied(Generations[g])) : Applied(Generations[g])[i] \in Compiling(Generations[g])
           /\ \A q \in Compiling(Generations[g]) :
                 \E i \in 1 .. Len(Applied(Generations[g])) : Applied(Generations[g])[i] = q
  <1> DEFINE all == Applied(Generations[g])
             a == Generations[g].redaction.patterns
             b == Generations[g].redaction.output
  <1>1. a \in Seq(Patterns) /\ b \in Seq(Patterns)
    BY RelayConstants
  <1>2. all = compilePatterns(a) \o compilePatterns(b)
    BY DEF NewEngine, Applied
  <1>3. \A q : q \in Compiling(Generations[g]) <=> (Occurs(q, a) \/ Occurs(q, b)) /\ q.compiles
    BY DEF Compiling, Occurs
  <1> HIDE DEF a, b, all
  <1>4. compilePatterns(a) \in Seq(Patterns) /\ \A q : Occurs(q, compilePatterns(a)) <=> Occurs(q, a) /\ q.compiles
    BY <1>1, CompiledAre
  <1>5. compilePatterns(b) \in Seq(Patterns) /\ \A q : Occurs(q, compilePatterns(b)) <=> Occurs(q, b) /\ q.compiles
    BY <1>1, CompiledAre
  <1>6. all \in Seq(Patterns) /\ \A q : Occurs(q, all) <=> Occurs(q, compilePatterns(a)) \/ Occurs(q, compilePatterns(b))
    BY <1>2, <1>4, <1>5, ConcatOccurs
  <1>7. DOMAIN all = 1 .. Len(all)
    BY <1>6, LenProperties
  <1>8. \A q : Occurs(q, all) <=> q \in Compiling(Generations[g])
    BY <1>3, <1>4, <1>5, <1>6
  <1> QED
    BY <1>6, <1>7, <1>8 DEF Occurs, all

\* A cut text has no symbol the text lacks but the note, and is no longer.
LEMMA TruncateIs ==
    ASSUME NEW max \in Int, NEW text \in Seq(Glyphs)
    PROVE  /\ Truncate(max, text) \in Seq(Glyphs)
           /\ \A i \in DOMAIN Truncate(max, text) :
                 Truncate(max, text)[i] = Cut \/ \E j \in DOMAIN text : Truncate(max, text)[i] = text[j]
           /\ Len(Truncate(max, text)) <= Len(text)
           /\ max > 0 => Len(Truncate(max, text)) <= max + 1
  <1>1. DOMAIN text = 1 .. Len(text) /\ Len(text) \in Nat
    BY LenProperties
  <1>2. CASE max > 0 /\ Len(text) > max
    <2> DEFINE s == SubSeq(text, 1, max)
               c == <<Cut>>
               r == s \o c
    <2>1. \A k \in 1 .. max : text[k] \in Glyphs
      BY <1>1, <1>2, ElementOfSeq
    <2>2. s \in Seq(Glyphs) /\ Len(s) = max /\ \A k \in 1 .. max : s[k] = text[k]
      <3>1. 1 \in Int /\ max \in Int /\ 1 <= max /\ max - 1 + 1 = max
        BY <1>2
      <3>2. /\ s \in Seq(Glyphs) /\ Len(s) = IF 1 <= max THEN max - 1 + 1 ELSE 0
            /\ \A k \in 1 .. max - 1 + 1 : s[k] = text[1 + k - 1]
        BY <2>1, <3>1, SubSeqProperties
      <3> HIDE DEF s
      <3>3. \A k \in 1 .. max : 1 + k - 1 = k
        OBVIOUS
      <3> QED BY <3>1, <3>2, <3>3
    <2>3. c \in Seq(Glyphs) /\ Len(c) = 1 /\ c[1] = Cut
      BY DEF Glyphs
    <2> HIDE DEF s, c
    <2>4. /\ r \in Seq(Glyphs) /\ Len(r) = Len(s) + Len(c)
          /\ \A i \in 1 .. Len(s) + Len(c) : r[i] = IF i <= Len(s) THEN s[i] ELSE c[i - Len(s)]
      BY <2>2, <2>3, ConcatProperties
    <2> HIDE DEF r
    <2>5. Len(r) = max + 1 /\ DOMAIN r = 1 .. max + 1
      <3>1. DOMAIN r = 1 .. Len(r)
        BY <2>4, LenProperties
      <3> QED BY <2>2, <2>3, <2>4, <3>1
    <2>6. ASSUME NEW i \in DOMAIN r PROVE r[i] = Cut \/ \E j \in DOMAIN text : r[i] = text[j]
      <3>1. CASE i <= max
        <4>1. i \in 1 .. max /\ i \in DOMAIN text /\ i \in 1 .. Len(s) + Len(c)
          BY <1>1, <1>2, <2>2, <2>3, <2>5, <3>1
        <4>2. r[i] = text[i]
          BY <2>2, <2>4, <3>1, <4>1
        <4> QED BY <4>1, <4>2
      <3>2. CASE ~(i <= max)
        <4>1. i - Len(s) = 1 /\ i \in 1 .. Len(s) + Len(c) /\ ~(i <= Len(s))
          BY <2>2, <2>3, <2>5, <3>2
        <4> QED BY <2>3, <2>4, <4>1
      <3> QED BY <3>1, <3>2
    <2>7. Truncate(max, text) = r
      BY <1>2 DEF Truncate, r, s, c
    <2>8. Len(r) <= Len(text) /\ Len(r) <= max + 1
      BY <1>1, <1>2, <2>5
    <2> QED BY <2>4, <2>6, <2>7, <2>8
  <1>3. CASE ~(max > 0 /\ Len(text) > max)
    <2>1. Truncate(max, text) = text
      BY <1>3 DEF Truncate
    <2>2. Len(text) <= Len(text) /\ (max > 0 => Len(text) <= max + 1)
      BY <1>1, <1>3
    <2> QED BY <2>1, <2>2
  <1> QED
    BY <1>2, <1>3

\* The note is part of no secret.
LEMMA CutIsNoSecret ==
    ASSUME SecretsAreWhole, NEW g \in 1 .. Len(Generations)
    PROVE  Cut \notin Symbols(Generations[g])
  BY DEF SecretsAreWhole, Symbols, IsSecret

\* The first part of Clean.
NoSymbol(p, text) == \A i \in DOMAIN text : text[i] \notin Symbols(p)

\* A text without a part of a secret has none after it is cut.
LEMMA TruncateKeepsClean ==
    ASSUME SecretsAreWhole, NEW g \in 1 .. Len(Generations), NEW max \in Int, NEW text \in Seq(Glyphs),
           NoSymbol(Generations[g], text)
    PROVE  NoSymbol(Generations[g], Truncate(max, text))
  <1>1. \A i \in DOMAIN Truncate(max, text) :
           Truncate(max, text)[i] = Cut \/ \E j \in DOMAIN text : Truncate(max, text)[i] = text[j]
    BY TruncateIs
  <1>2. Cut \notin Symbols(Generations[g])
    BY CutIsNoSecret
  <1> QED
    BY <1>1, <1>2 DEF NoSymbol

\* A text with the secrets whole is clean once it is redacted and truncated.
LEMMA RedactTextIsClean ==
    ASSUME SecretsAreWhole, NEW g \in 1 .. Len(Generations), NEW text \in Seq(STRING),
           \A q \in Compiling(Generations[g]) : HoldsWhole(q.matches, text)
    PROVE  /\ RedactText(Generations[g], text) \in Seq(Glyphs)
           /\ Clean(Generations[g], RedactText(Generations[g], text))
  <1> DEFINE p == Generations[g]
             e == NewEngine(p.redaction)
             all == e.patterns \o e.output
             r == RedactOutput(e, text)
  <1>1. /\ all \in Seq(Patterns)
        /\ \A i \in 1 .. Len(all) : all[i] \in Compiling(p)
        /\ \A q \in Compiling(p) : \E i \in 1 .. Len(all) : all[i] = q
    <2>1. all = Applied(Generations[g])
      BY DEF Applied
    <2> HIDE DEF all
    <2> QED BY <2>1, EngineIs
  <1>2. p.maxOutput \in Int /\ text \in Seq(Glyphs)
    BY RelayConstants, TextsAre
  <1>3. \A q \in Compiling(p) :
           /\ IsSecret(q.matches)
           /\ \A s \in Compiling(p) : \/ q.matches = s.matches
                                     \/ \A i \in DOMAIN q.matches, j \in DOMAIN s.matches : q.matches[i] # s.matches[j]
    BY DEF SecretsAreWhole
  <1>4. \A q \in Compiling(p) : HoldsWhole(q.matches, text)
    OBVIOUS
  <1>5. Symbols(p) = UNION {{q.matches[i] : i \in DOMAIN q.matches} : q \in Compiling(p)}
    BY DEF Symbols
  <1>6. RedactText(p, text) = Truncate(p.maxOutput, r)
    BY DEF RedactText
  <1> HIDE DEF p, e
  <1>7. \A i, j \in 1 .. Len(all) :
           /\ IsSecret(all[i].matches) /\ HoldsWhole(all[i].matches, text)
           /\ \/ all[i].matches = all[j].matches
              \/ \A a \in DOMAIN all[i].matches, b \in DOMAIN all[j].matches : all[i].matches[a] # all[j].matches[b]
    <2> HIDE DEF all
    <2> QED BY <1>1, <1>3, <1>4
  <1>8. r \in Seq(Glyphs) /\ \A i \in 1 .. Len(all) : Absent(all[i].matches, r)
    BY <1>1, <1>2, <1>7, RedactOutputClears
  <1> HIDE DEF r, all
  <1>9. NoSymbol(p, r)
    <2> SUFFICES ASSUME NEW k \in DOMAIN r, r[k] \in Symbols(p) PROVE FALSE
      BY DEF NoSymbol
    <2>1. PICK q \in Compiling(p) : \E j \in DOMAIN q.matches : r[k] = q.matches[j]
      BY <1>5
    <2>2. Absent(q.matches, r)
      BY <1>1, <1>8
    <2> QED BY <2>1, <2>2 DEF Absent
  <1>10. NoSymbol(p, Truncate(p.maxOutput, r))
    BY <1>2, <1>8, <1>9, TruncateKeepsClean DEF p
  <1>11. Truncate(p.maxOutput, r) \in Seq(Glyphs) /\ (p.maxOutput > 0 => Len(Truncate(p.maxOutput, r)) <= p.maxOutput + 1)
    BY <1>2, <1>8, TruncateIs
  <1>12. RedactText(p, text) \in Seq(Glyphs) /\ Clean(p, RedactText(p, text))
    BY <1>6, <1>10, <1>11 DEF Clean, NoSymbol
  <1> QED
    BY <1>12 DEF p

\* An empty text is clean.
LEMMA EmptyIsClean ==
    ASSUME NEW g \in 1 .. Len(Generations)
    PROVE  Clean(Generations[g], <<>>) /\ <<>> \in Seq(Glyphs)
  <1>1. Generations[g].maxOutput \in Int
    BY RelayConstants
  <1>2. Len(<<>>) = 0 /\ DOMAIN <<>> = {} /\ <<>> \in Seq(Glyphs)
    OBVIOUS
  <1> QED
    BY <1>1, <1>2 DEF Clean

\* What is on its way to the client, or reached it, while the generations from a to b
\* were in force.
CleanMessage(m, a, b) ==
    m.kind = "result" =>
       /\ m.content \in Seq(Seq(Glyphs))
       /\ \E g \in a .. b : g \in 1 .. Len(Generations) /\ \A i \in DOMAIN m.content : Clean(Generations[g], m.content[i])

CleanText(text, a, b) == \E g \in a .. b : Clean(Generations[g], text)

\* Every text of a result that was redacted is clean.
LEMMA ResponseIsClean ==
    ASSUME SecretsAreWhole, NEW m \in ServerLines, NEW g \in 1 .. Len(Generations)
    PROVE  CleanMessage(redactServerResponse(Generations[g], m), g, g)
  <1> DEFINE p == Generations[g]
             r == redactServerResponse(p, m)
             text(i) == IF m.content[i] = <<>> THEN m.content[i] ELSE RedactText(p, m.content[i])
  <1>1. m \in [kind : STRING, content : Seq(Seq(STRING))]
    BY RelayConstants
  <1>2. m = [kind |-> m.kind, content |-> m.content] /\ m.content \in Seq(Seq(STRING))
    BY <1>1
  <1>3. CASE m.kind # "result"
    <2>1. r = m
      BY <1>3 DEF redactServerResponse
    <2> QED BY <1>3, <2>1 DEF CleanMessage
  <1>4. CASE m.kind = "result"
    <2>1. r.content = [i \in DOMAIN m.content |-> text(i)]
      BY <1>2, <1>4 DEF redactServerResponse
    <2>2. DOMAIN m.content = 1 .. Len(m.content) /\ Len(m.content) \in Nat
      BY <1>2, LenProperties
    <2>3. ASSUME NEW i \in DOMAIN m.content PROVE text(i) \in Seq(Glyphs) /\ Clean(p, text(i))
      <3>1. m.content[i] \in Seq(STRING)
        BY <1>2, <2>2, ElementOfSeq
      <3>2. \A q \in Compiling(p) : HoldsWhole(q.matches, m.content[i])
        BY <1>4 DEF SecretsAreWhole
      <3>3. CASE m.content[i] = <<>>
        BY <3>3, EmptyIsClean
      <3>4. CASE m.content[i] # <<>>
        <4>1. RedactText(p, m.content[i]) \in Seq(Glyphs) /\ Clean(p, RedactText(p, m.content[i]))
          BY <3>1, <3>2, RedactTextIsClean
        <4> QED BY <3>4, <4>1
      <3> QED BY <3>3, <3>4
    <2> HIDE DEF r, text
    <2>4. r.content \in [1 .. Len(m.content) -> Seq(Glyphs)] /\ \A i \in DOMAIN r.content : Clean(p, r.content[i])
      BY <2>1, <2>2, <2>3
    <2>5. r.content \in Seq(Seq(Glyphs))
      <3> DEFINE S == Seq(Glyphs)
                 n == Len(m.content)
                 c == r.content
      <3>1. n \in Nat /\ c \in [1 .. n -> S]
        BY <2>2, <2>4
      <3> HIDE DEF S, n, c
      <3>2. c \in Seq(S)
        BY <3>1
      <3> QED BY <3>2 DEF S, c
    <2>6. g \in g .. g
      OBVIOUS
    <2> QED BY <2>4, <2>5, <2>6 DEF CleanMessage, r
  <1> QED
    BY <1>3, <1>4

\* The preview is the first text, shortened again.
LEMMA PreviewIsClean ==
    ASSUME SecretsAreWhole, NEW m, m.kind = "result", NEW a, NEW b, CleanMessage(m, a, b)
    PROVE  CleanText(Preview(m, PreviewLength), a, b)
  <1>1. PICK g \in a .. b : g \in 1 .. Len(Generations) /\ \A i \in DOMAIN m.content : Clean(Generations[g], m.content[i])
    BY DEF CleanMessage
  <1>2. m.content \in Seq(Seq(Glyphs))
    BY DEF CleanMessage
  <1>3. DOMAIN m.content = 1 .. Len(m.content) /\ Len(m.content) \in Nat
    BY <1>2, LenProperties
  <1> DEFINE texts == {i \in DOMAIN m.content : m.content[i] # <<>>}
             k == CHOOSE i \in texts : \A j \in texts : i <= j
  <1>4. CASE texts = {}
    <2>1. Preview(m, PreviewLength) = <<>>
      BY <1>4 DEF Preview
    <2> QED BY <1>1, <2>1, EmptyIsClean DEF CleanText
  <1>5. CASE texts # {}
    <2>1. \E i \in texts : \A j \in texts : i <= j
      <3>1. texts \in SUBSET (1 .. Len(m.content))
        BY <1>3
      <3> HIDE DEF texts
      <3> QED BY <1>3, <1>5, <3>1, FirstExists
    <2>2. k \in texts
      <3> HIDE DEF texts
      <3> QED BY <2>1
    <2>3. Preview(m, PreviewLength) = Truncate(PreviewLength, m.content[k])
      BY <1>5 DEF Preview
    <2> DEFINE t == m.content[k]
               r == Truncate(PreviewLength, t)
    <2>4. t \in Seq(Glyphs) /\ Clean(Generations[g], t)
      <3>1. k \in DOMAIN m.content
        BY <2>2
      <3> HIDE DEF k
      <3>2. m.content[k] \in Seq(Glyphs)
        BY <1>2, <1>3, <3>1, ElementOfSeq
      <3> QED BY <1>1, <3>1, <3>2
    <2>5. PreviewLength \in Int /\ Generations[g].maxOutput \in Int
      BY <1>1, RelayConstants
    <2> HIDE DEF t
    <2>6. NoSymbol(Generations[g], t) /\ (Generations[g].maxOutput > 0 => Len(t) <= Generations[g].maxOutput + 1)
      BY <2>4 DEF Clean, NoSymbol
    <2>7. NoSymbol(Generations[g], r)
      BY <1>1, <2>4, <2>5, <2>6, TruncateKeepsClean
    <2>8. r \in Seq(Glyphs) /\ Len(r) <= Len(t)
      BY <2>4, <2>5, TruncateIs
    <2>9. Len(r) \in Nat /\ Len(t) \in Nat
      <3> HIDE DEF r
      <3> QED BY <2>4, <2>8, LenProperties
    <2> HIDE DEF r
    <2>10. Generations[g].maxOutput > 0 => Len(r) <= Generations[g].maxOutput + 1
      BY <2>5, <2>6, <2>8, <2>9
    <2>11. Clean(Generations[g], r)
      BY <2>7, <2>10 DEF Clean, NoSymbol
    <2> QED BY <1>1, <2>3, <2>11 DEF CleanText, r, t
  <1> QED
    BY <1>4, <1>5

-----------------------------------------------------------------------------
\* A message is redacted before anybody sees it, under a policy that was in force since
\* it was read.
SecretInv ==
    /\ back.from \in 1 .. gen
    /\ back.pc = "redact" => back.message \in ServerLines
    /\ back.pc \in {"log", "send"} => CleanMessage(back.message, back.from, gen)
    /\ CleanMessage(delivered.message, delivered.from, delivered.to)
    /\ CleanText(preview.text, preview.from, preview.to)

\* A step that touches none of this keeps it.
LEMMA SecretKept ==
    ASSUME SecretInv, UNCHANGED <<back, gen, delivered, preview>>
    PROVE  SecretInv'
  BY DEF SecretInv

\* The server-to-client goroutine waits or stops: it holds no message.
LEMMA SecretWaits ==
    ASSUME SecretInv, back'.from = back.from, back'.pc \notin {"redact", "log", "send"},
           UNCHANGED <<gen, delivered, preview>>
    PROVE  SecretInv'
  BY DEF SecretInv

\* A message that was clean stays so when a further generation is loaded.
LEMMA CleanLonger ==
    ASSUME NEW m, NEW a \in Int, NEW b \in Int, CleanMessage(m, a, b), NEW c \in Int, c <= a, NEW d \in Int, b <= d
    PROVE  CleanMessage(m, c, d)
  BY DEF CleanMessage

\* Every step keeps the invariant.
LEMMA SecretStep == ASSUME SecretsAreWhole, TypeInv, SecretInv, Next PROVE SecretInv'
  <1> USE DEF session, audit, history
  <1>0. /\ gen \in 1 .. Len(Generations) /\ Len(Generations) \in Nat /\ gen \in Int
        /\ back = [pc |-> back.pc, message |-> back.message, from |-> back.from]
    BY RelayConstants DEF TypeInv
  <1>1. CASE StartFails
    BY <1>1, SecretKept DEF StartFails
  <1>2. CASE RelayInitialize
    BY <1>2, SecretKept DEF RelayInitialize
  <1>3. CASE RelayInitializeResponse
    BY <1>3, SecretKept DEF RelayInitializeResponse
  <1>4. CASE EndOfInput
    BY <1>4, SecretKept DEF EndOfInput
  <1>5. CASE Denied
    BY <1>5, SecretKept DEF Denied
  <1>6. CASE RelaysReturn
    BY <1>6, SecretKept DEF RelaysReturn
  <1>7. CASE HandshakeReturns
    BY <1>7, SecretKept DEF HandshakeReturns
  <1>8. CASE stopServerProcess
    BY <1>8, SecretKept DEF stopServerProcess
  <1>9. CASE CloseLog
    BY <1>9, SecretKept DEF CloseLog
  <1>10. CASE closeEventSinks
    BY <1>10, SecretKept DEF closeEventSinks
  <1>11. CASE Exit
    BY <1>11, SecretKept DEF Exit
  <1>12. CASE ClientCloses
    BY <1>12, SecretKept DEF ClientCloses
  <1>13. CASE ServerCloses
    BY <1>13, SecretKept DEF ServerCloses
  <1>14. CASE Interrupt
    BY <1>14, SecretKept DEF Interrupt
  <1>15. CASE KillServer
    BY <1>15, SecretKept DEF KillServer
  <1>16. CASE LogStarted
    BY <1>16, SecretKept DEF LogStarted
  <1>17. CASE LogEnded
    BY <1>17, SecretKept DEF LogEnded
  <1>18. CASE CommitAuthorization
    BY <1>18, SecretKept DEF CommitAuthorization
  <1>19. ASSUME NEW line \in budget.send, interceptClientToServerEnvelope(line) PROVE SecretInv'
    BY <1>19, SecretKept DEF interceptClientToServerEnvelope
  <1>20. ASSUME NEW k \in Loggers, forwardAudit(k) PROVE SecretInv'
    BY <1>20, SecretKept DEF forwardAudit, EmitEvent, Export
  <1>21. CASE Sink(EmitterStep) \/ Sink(PutBack)
    BY <1>21, SecretKept DEF Sink
  <1>22. CASE EndOfOutput
    <2>1. back'.from = back.from /\ back'.pc \in {"error", "finished"}
      BY <1>0, <1>22 DEF EndOfOutput
    <2> QED BY <1>22, <2>1, SecretWaits DEF EndOfOutput
  <1>23. CASE StreamTimeout
    <2>1. back'.from = back.from /\ back'.pc = "error"
      BY <1>0, <1>23 DEF StreamTimeout
    <2> QED BY <1>23, <2>1, SecretWaits DEF StreamTimeout
  <1>24. CASE Cancelled
    <2>1. CASE back' = back
      BY <1>24, <2>1, SecretKept DEF Cancelled
    <2>2. CASE back' # back
      <3>1. back'.from = back.from /\ back'.pc = "error"
        BY <1>0, <1>24, <2>2 DEF Cancelled
      <3> QED BY <1>24, <3>1, SecretWaits DEF Cancelled
    <2> QED BY <2>1, <2>2
  <1>25. CASE Relay
    <2>1. UNCHANGED <<gen, delivered, preview>>
      BY <1>25 DEF Relay
    <2>2. back' = back \/ (back'.from = back.from /\ back'.pc = "read")
      BY <1>0, <1>25 DEF Relay
    <2> QED BY <2>1, <2>2 DEF SecretInv
  <1>31. CASE logClientMessage
    <2>1. UNCHANGED <<gen, delivered, back>>
      BY <1>31 DEF logClientMessage
    <2>2. CleanText(preview.text, preview.from, preview.to)'
      <3>1. CASE preview' = preview
        BY <3>1 DEF SecretInv
      <3>2. CASE preview' # preview
        <4>1. preview' = [text |-> <<>>, from |-> gen, to |-> gen]
          BY <1>31, <3>2 DEF logClientMessage
        <4>2. Clean(Generations[gen], <<>>) /\ gen \in gen .. gen
          BY <1>0, EmptyIsClean
        <4>3. CleanText(<<>>, gen, gen)
          BY <4>2 DEF CleanText
        <4> QED BY <4>1, <4>3
      <3> QED BY <3>1, <3>2
    <2> QED BY <2>1, <2>2 DEF SecretInv
  <1>32. CASE Refuse
    BY <1>32, SecretKept DEF Refuse
  <1>33. ASSUME NEW peer, Stall(peer) PROVE SecretInv'
    BY <1>33, SecretKept DEF Stall
  <1>26. CASE ReadServer
    <2>1. PICK m \in ServerLines : back' = [pc |-> "redact", message |-> m, from |-> gen]
      BY <1>26 DEF ReadServer
    <2>2. back'.pc = "redact" /\ back'.message \in ServerLines /\ back'.from \in 1 .. gen
      BY <1>0, <2>1
    <2>3. UNCHANGED <<gen, delivered, preview>>
      BY <1>26 DEF ReadServer
    <2> QED BY <2>2, <2>3 DEF SecretInv
  <1>27. CASE Redact
    <2> DEFINE r == redactServerResponse(Generations[gen], back.message)
    <2>1. back'.pc = "log" /\ back'.message = r /\ back'.from = back.from /\ back.pc = "redact"
      BY <1>0, <1>27 DEF Redact
    <2>2. back.message \in ServerLines /\ back.from \in Int /\ back.from <= gen
      BY <1>0, <2>1 DEF SecretInv
    <2>3. CleanMessage(r, gen, gen)
      BY <1>0, <2>2, ResponseIsClean
    <2> HIDE DEF r
    <2>4. gen <= gen
      BY <1>0
    <2>5. CleanMessage(r, back.from, gen)
      BY <1>0, <2>2, <2>3, <2>4, CleanLonger
    <2>6. UNCHANGED <<gen, delivered, preview>>
      BY <1>27 DEF Redact
    <2> QED BY <2>1, <2>5, <2>6 DEF SecretInv
  <1>28. CASE logServerMessage
    <2>1. back'.pc = "send" /\ back'.message = back.message /\ back'.from = back.from /\ back.pc = "log"
      BY <1>0, <1>28 DEF logServerMessage
    <2>2. UNCHANGED <<gen, delivered>>
      BY <1>28 DEF logServerMessage
    <2>3. CleanMessage(back.message, back.from, gen)
      BY <2>1 DEF SecretInv
    <2>4. CleanText(preview.text, preview.from, preview.to)'
      <3>1. CASE preview' = preview
        BY <3>1 DEF SecretInv
      <3>2. CASE preview' # preview
        <4>1. /\ preview' = [text |-> Preview(back.message, PreviewLength), from |-> back.from, to |-> gen]
              /\ back.message.kind = "result"
          BY <1>28, <3>2 DEF logServerMessage
        <4>2. CleanText(Preview(back.message, PreviewLength), back.from, gen)
          BY <2>3, <4>1, PreviewIsClean
        <4> QED BY <4>1, <4>2
      <3> QED BY <3>1, <3>2
    <2> QED BY <2>1, <2>2, <2>3, <2>4 DEF SecretInv
  <1>29. CASE ForwardToClient
    <2>1. back'.from = back.from /\ back'.pc \in {"read", "error"} /\ back.pc = "send"
      BY <1>0, <1>29 DEF ForwardToClient
    <2>2. CleanMessage(back.message, back.from, gen)
      BY <2>1 DEF SecretInv
    <2>3. UNCHANGED <<gen, preview>>
      BY <1>29 DEF ForwardToClient
    <2>4. CleanMessage(delivered.message, delivered.from, delivered.to)'
      <3>1. CASE delivered' = delivered
        BY <3>1 DEF SecretInv
      <3>2. CASE delivered' = [message |-> back.message, from |-> back.from, to |-> gen]
        BY <2>2, <3>2
      <3> QED BY <1>29, <3>1, <3>2 DEF ForwardToClient
    <2> QED BY <2>1, <2>3, <2>4 DEF SecretInv
  <1>30. CASE Reload
    <2>1. gen' = gen + 1 /\ UNCHANGED <<back, delivered, preview>>
      BY <1>30 DEF Reload
    <2>2. back.from \in 1 .. gen
      BY DEF SecretInv
    <2>3. back.from \in 1 .. gen + 1 /\ back.from \in Int /\ gen + 1 \in Int /\ gen <= gen + 1 /\ back.from <= back.from
      BY <1>0, <2>2
    <2>4. CleanMessage(back.message, back.from, gen) => CleanMessage(back.message, back.from, gen + 1)
      BY <1>0, <2>3, CleanLonger
    <2> QED BY <2>1, <2>3, <2>4 DEF SecretInv
  <1> QED
    BY <1>1, <1>2, <1>3, <1>4, <1>5, <1>6, <1>7, <1>8, <1>9, <1>10, <1>11, <1>12, <1>13, <1>14, <1>15, <1>16, <1>17,
       <1>18, <1>19, <1>20, <1>21, <1>22, <1>23, <1>24, <1>25, <1>26, <1>27, <1>28, <1>29, <1>30, <1>31, <1>32, <1>33
       DEF Next, MainStep, GateStep, BackStep, Loggers

\* It holds when the session starts.
LEMMA SecretInit == ASSUME Init PROVE SecretInv
  <1>1. 1 \in 1 .. Len(Generations) /\ 1 \in 1 .. 1
    BY RelayConstants
  <1>2. CleanText(<<>>, 1, 1)
    BY <1>1, EmptyIsClean DEF CleanText
  <1>3. NoMessage.kind # "result"
    BY DEF NoMessage
  <1>4. CleanMessage(NoMessage, 1, 1)
    BY <1>3 DEF CleanMessage
  <1>5. /\ back.from = 1 /\ gen = 1 /\ back.pc = "off"
        /\ delivered = [message |-> NoMessage, from |-> 1, to |-> 1]
        /\ preview = [text |-> <<>>, from |-> 1, to |-> 1]
    BY DEF Init
  <1> QED
    BY <1>1, <1>2, <1>4, <1>5 DEF SecretInv

\* Whatever the server answers and whenever the policy is reloaded: if the results have
\* the secrets of each policy whole, as a pattern can find them, no part of one reaches the client or stays
\* in the session, not even where a text or its preview is cut.
THEOREM NoSecretPasses == SecretsAreWhole => (Spec => []SecretsStay)
  <1> SUFFICES ASSUME SecretsAreWhole PROVE Spec => []SecretsStay
    OBVIOUS
  <1>1. Init => TypeInv /\ SecretInv
    BY InitInd, SecretInit DEF IndInv
  <1>2. TypeInv /\ SecretInv /\ [Next]_vars => (TypeInv /\ SecretInv)'
    <2> SUFFICES ASSUME TypeInv, SecretInv, [Next]_vars PROVE TypeInv' /\ SecretInv'
      OBVIOUS
    <2>1. CASE Next
      BY <2>1, TypeStep, SecretStep
    <2>2. CASE UNCHANGED vars
      <3>1. TypeInv'
        BY <2>2 DEF vars, session, audit, TypeInv
      <3>2. SecretInv'
        BY <2>2, SecretKept DEF vars, session, history
      <3> QED BY <3>1, <3>2
    <2> QED BY <2>1, <2>2
  <1>3. TypeInv /\ SecretInv => SecretsStay
    BY DEF SecretInv, SecretsStay, ClientSeesNoSecret, SessionKeepsNoSecret, CleanMessage, CleanText
  <1> QED
    BY <1>1, <1>2, <1>3, PTL DEF Spec
=============================================================================
