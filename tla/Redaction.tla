------------------------------ MODULE Redaction ------------------------------
(***************************************************************************)
(* The output side of redaction/engine.go and of Proxy.redactServerResponse *)
(* and Proxy.logServerMessage (proxy/proxy.go).  A text is a sequence of    *)
(* symbols; a pattern is [matches, compiles]: the sequence it matches, and  *)
(* whether its regular expression compiles.  A message of the server is     *)
(* [kind, content]: a "result" that decodes as the result of a call, an     *)
(* "error", a "notification", or "other" (a result of another shape).       *)
(***************************************************************************)
EXTENDS Naturals, Sequences

Mask == "*"
Cut == "[cut]"                   \* the note that a text was truncated
Patterns == [matches : Seq(STRING), compiles : BOOLEAN]

\* Every match of the pattern, from the left, becomes the mask.
ReplaceAllString(pattern, text) ==
    LET n == Len(pattern)
        out[i \in 1 .. Len(text) + n] ==
           IF i > Len(text) THEN <<>>
           ELSE IF i + n - 1 <= Len(text) /\ SubSeq(text, i, i + n - 1) = pattern THEN <<Mask>> \o out[i + n]
           ELSE <<text[i]>> \o out[i + 1]
    IN  out[1]

\* A pattern that does not compile is left out.
compilePatterns(list) ==
    LET out[i \in 0 .. Len(list)] ==
           IF i = 0 THEN <<>> ELSE IF list[i].compiles THEN Append(out[i - 1], list[i]) ELSE out[i - 1]
    IN  out[Len(list)]

NewEngine(cfg) == [patterns |-> compilePatterns(cfg.patterns), output |-> compilePatterns(cfg.output)]

RedactOutput(engine, text) ==
    LET all == engine.patterns \o engine.output
        out[i \in 0 .. Len(all)] == IF i = 0 THEN text ELSE ReplaceAllString(all[i].matches, out[i - 1])
    IN  out[Len(all)]

Truncate(max, text) == IF max > 0 /\ Len(text) > max THEN SubSeq(text, 1, max) \o <<Cut>> ELSE text

FaultyRedactText(p, text) == RedactOutput(NewEngine(p.redaction), Truncate(p.maxOutput, text))

\* First redacted, then truncated.
RedactText(p, text) == Truncate(p.maxOutput, RedactOutput(NewEngine(p.redaction), text))

\* Only the texts of a tool result are touched; anything else passes as it is.
redactServerResponse(p, message) ==
    IF message.kind # "result" THEN message
    ELSE [message EXCEPT !.content = [i \in DOMAIN @ |-> IF @[i] = <<>> THEN @[i] ELSE RedactText(p, @[i])]]

\* The first text of a result, shortened.
Preview(message, length) ==
    LET texts == {i \in DOMAIN message.content : message.content[i] # <<>>}
    IN  IF texts = {} THEN <<>>
        ELSE Truncate(length, message.content[CHOOSE i \in texts : \A j \in texts : i <= j])
=============================================================================
