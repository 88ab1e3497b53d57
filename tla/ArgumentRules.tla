---------------------------- MODULE ArgumentRules ----------------------------
(***************************************************************************)
(* The stages of Engine.Evaluate that read the arguments, the client and    *)
(* the time of day (policy/engine.go): the argument rules of a tool, the    *)
(* identity rules and the time restrictions, and how their results merge.   *)
(* An argument is [key, exact, kind, text, num]: key is an alias in lower   *)
(* case and exact says that it is spelled so; the text of a string stands   *)
(* as it is (plain), between blanks, in another case or with what a host    *)
(* name loses (a scheme, a port, a path, a final dot).  A pattern is the    *)
(* text it matches.  A rule is [type, patterns, domains, limit].            *)
(***************************************************************************)
EXTENDS Integers, Sequences, FiniteSets

Alias ==
    [recipient |-> {"recipient", "to", "email", "cc", "bcc"},
     owner |-> {"owner", "user_id", "userid", "resource_owner", "account_id", "principal"},
     path |-> {"path", "file", "file_path", "filepath", "absolute_path", "absolutepath"},
     effect |-> {"path", "file", "file_path", "filepath", "absolute_path", "absolutepath", "target", "dir", "directory"},
     destination |-> {"url", "uri", "host", "hostname", "endpoint", "dest", "dest_host", "destination", "domain"},
     workdir |-> {"cwd", "working_directory", "working_dir", "workingdir", "workdir", "chdir"},
     secret |-> {"api_key", "apikey", "access_key", "secret", "password", "credential", "private_key", "token", "new_key"},
     application |-> {"application", "app", "application_name", "app_name", "applicationname", "appname", "name"},
     skill |-> {"skill", "skill_id", "skill_name", "skillname", "skill_key", "skill_slug"},
     bypass |-> {"skip_permissions", "skip_permission", "skippermissions", "dangerously_skip_permissions",
                 "dangerouslyskippermissions", "bypass_permissions", "bypasspermissions"},
     executable |-> {"command", "cmd", "exec", "binary", "executable", "stdio_command", "stdiocommand",
                     "server_command", "servercommand"}]

Arguments == [key : STRING, exact : BOOLEAN, kind : STRING, text : STRING, num : Int]

Shaped == {"plain", "padded", "cased", "decorated"}     \* strings with a text
IsString(a) == a.kind \in Shaped \cup {"blank", "empty"}
Unparseable == {"bad host"}
ShellGrammar == {"a;b"}
SpelledOff == {"off"}         \* false, 0, no, off

-----------------------------------------------------------------------------
(* Matchers.                                                                *)

recipientInAllowlist(patterns, a) == a.kind \in {"plain", "padded", "cased"} /\ a.text \in patterns
executableInAllowlist(patterns, a) == a.kind = "plain" /\ a.text \in patterns
matchesAnyPattern(patterns, a) == a.kind \in {"plain", "cased"} /\ a.text \in patterns
matchesRegexp(patterns, a) == a.kind \in Shaped /\ a.text \in patterns
MatchesAnyDomainPattern(domains, a) == a.kind \in {"plain", "padded", "decorated"} /\ a.text \in domains

\* The host a destination names, which keeps its case only.
destinationHostname(a) ==
    IF a.kind \in Shaped /\ a.text \notin Unparseable
    THEN {[a EXCEPT !.kind = IF @ = "cased" THEN "cased" ELSE "plain"]} ELSE {}

\* The first of the keys that is spelled exactly and holds a string.
getStringArg(args, keys) ==
    LET at(i) == {a \in args : a.key = keys[i] /\ a.exact /\ IsString(a)}
        found == {i \in DOMAIN keys : at(i) # {}}
    IN  IF found = {} THEN {} ELSE at(CHOOSE i \in found : \A j \in found : i <= j)

\* The first of the keys that holds a number, 0 without one.
getNumberArg(args, keys) ==
    LET at(i) == {a \in args : a.key = keys[i] /\ a.exact /\ a.kind = "number"}
        found == {i \in DOMAIN keys : at(i) # {}}
    IN  IF found = {} THEN 0 ELSE (CHOOSE a \in at(CHOOSE i \in found : \A j \in found : i <= j) : TRUE).num

FaultyCollect(args, family) == {a \in args : a.key \in Alias[family] /\ a.exact}

\* Every argument whose name is an alias, however it is spelled.
Collect(args, family) == {a \in args : a.key \in Alias[family]}

NotBlank(a) == a.kind \in Shaped

\* The mandates whose list has path patterns; the others have names.
PathMandates == {"allow_path_slot", "allow_working_directory"}

\* A mandate: an allowlist, at least one alias, and every alias within the list.
Mandate(rule, slots) ==
    /\ rule.patterns # {} /\ slots # {}
    /\ \A a \in slots :
          NotBlank(a) /\ IF rule.type \in PathMandates THEN matchesAnyPattern(rule.patterns, a)
                          ELSE recipientInAllowlist(rule.patterns, a)

HostsIn(list, slots) == \A a \in slots : \E h \in destinationHostname(a) : recipientInAllowlist(list, h)

permissionBypassWeakens(a) ==
    CASE a.kind = "true" -> TRUE
      [] a.kind = "false" -> FALSE
      [] OTHER -> ~(a.kind \in {"plain", "padded", "cased"} /\ a.text \in SpelledOff)

ExecutablesIn(list, slots) == \A a \in slots : executableInAllowlist(list, a)

\* Executables and destinations are both optional, but one must be there.
Activation(rule, args) ==
    LET execs == Collect(args, "executable")
        dests == Collect(args, "destination")
    IN  /\ rule.patterns # {} \/ rule.domains # {}
        /\ execs # {} \/ dests # {}
        /\ ExecutablesIn(rule.patterns, execs)
        /\ HostsIn(rule.domains, dests)

PathKeys == <<"path", "file", "file_path">>
CommandKeys == <<"command", "cmd", "exec">>
QueryKeys == <<"query", "sql", "statement">>
RecipientKeys == <<"recipient", "to", "email", "domain">>

\* The arguments pass the rule, for each family of rule types.
PathPasses(rule, args) ==
    LET first == getStringArg(args, PathKeys)
        slots == Collect(args, "path")
    IN  CASE rule.type = "deny_path" -> \A a \in first : ~matchesAnyPattern(rule.patterns, a)
          [] rule.type = "allow_path" -> \A a \in first : matchesAnyPattern(rule.patterns, a)
          [] rule.type = "require_path_literal" ->
                slots # {} /\ \A a \in slots : NotBlank(a) /\ a.text \notin ShellGrammar
          [] rule.type = "allow_path_slot" -> Mandate(rule, Collect(args, "effect"))
          [] OTHER -> TRUE

SlotPasses(rule, args) ==
    LET dests == Collect(args, "destination")
    IN  CASE rule.type = "allow_destination" -> rule.patterns # {} /\ dests # {} /\ HostsIn(rule.patterns, dests)
          [] rule.type = "allow_working_directory" -> Mandate(rule, Collect(args, "workdir"))
          [] rule.type = "deny_secret" -> Collect(args, "secret") = {}
          [] rule.type = "allow_application" -> Mandate(rule, Collect(args, "application"))
          [] rule.type = "allow_skill" -> Mandate(rule, Collect(args, "skill"))
          [] rule.type = "deny_permission_bypass" -> \A a \in Collect(args, "bypass") : ~permissionBypassWeakens(a)
          [] rule.type = "allow_activation" -> Activation(rule, args)
          [] OTHER -> TRUE

TextPasses(rule, args) ==
    LET first(keys) == getStringArg(args, keys)
        within(n) == ~(n > 0 /\ rule.limit > 0 /\ n > rule.limit)
    IN  CASE rule.type \in {"deny_command_pattern", "deny_command_keyword"} ->
                \A a \in first(CommandKeys) : ~matchesRegexp(rule.patterns, a)
          [] rule.type = "allow_command_pattern" -> \A a \in first(CommandKeys) : matchesRegexp(rule.patterns, a)
          [] rule.type = "deny_query_pattern" -> \A a \in first(QueryKeys) : ~matchesRegexp(rule.patterns, a)
          [] rule.type = "allow_query_pattern" -> \A a \in first(QueryKeys) : matchesRegexp(rule.patterns, a)
          [] rule.type = "deny_recipient_domain" ->
                \A a \in first(RecipientKeys) : ~MatchesAnyDomainPattern(rule.domains, a)
          [] rule.type = "allow_recipient_domain" ->
                \A a \in first(RecipientKeys) : MatchesAnyDomainPattern(rule.domains, a)
          [] rule.type = "allow_recipient" -> Mandate(rule, Collect(args, "recipient"))
          [] rule.type = "allow_resource_owner" -> Mandate(rule, Collect(args, "owner"))
          [] rule.type = "allowed_repos" ->
                \A a \in first(<<"repo", "repository", "owner/repo">>) : matchesAnyPattern(rule.patterns, a)
          [] rule.type = "max_file_size" -> within(getNumberArg(args, <<"size", "content_length", "file_size">>))
          [] rule.type \in {"max_result_rows", "max_export_rows"} ->
                within(getNumberArg(args, <<"limit", "rows", "count", "max_results">>))
          [] OTHER -> TRUE

Passes(rule, args) == PathPasses(rule, args) /\ SlotPasses(rule, args) /\ TextPasses(rule, args)

evaluateRule(rule, args) ==
    IF rule.type = "require_approval_always" THEN "require_approval"
    ELSE IF Passes(rule, args) THEN "allow" ELSE "deny"

-----------------------------------------------------------------------------
(* Identity rules and time restrictions.                                    *)

\* identities: client |-> [servers, tools], tools as <<server, tool>>.
evaluateIdentity(identities, client, server, tool) ==
    IF /\ client \in DOMAIN identities
       /\ server \in identities[client].servers /\ <<server, tool>> \in identities[client].tools
    THEN "allow" ELSE "deny"

\* Neither the first nor the last instant of a window is inside, and a window that
\* passes midnight holds nothing.
InsideHours(tr, day, time) ==
    tr.hours = {} \/ \E w \in tr.hours : (w.days = {} \/ day \in w.days) /\ w.start < time /\ time < w.end

\* The action of the first restriction that applies and is not kept.
evaluateTimeRestriction(times, server, tool, day, time) ==
    LET broken == {i \in DOMAIN times :
                     /\ server \in times[i].servers /\ tool \in times[i].tools
                     /\ day \in times[i].deniedDays \/ ~InsideHours(times[i], day, time)}
    IN  IF broken = {} THEN "allow" ELSE times[CHOOSE i \in broken : \A j \in broken : i <= j].outside

-----------------------------------------------------------------------------

\* One stage folded into the running result; an unknown action denies.
mergeEvalDecision(pending, next) ==
    CASE next = "allow" -> pending
      [] next = "require_approval" -> "require_approval"
      [] OTHER -> "deny"

\* The stages in order; a deny stops.
Merge(stages) ==
    LET run[i \in 0 .. Len(stages)] ==
           IF i = 0 THEN "allow"
           ELSE IF run[i - 1] = "deny" THEN "deny"
           ELSE mergeEvalDecision(run[i - 1], stages[i])
    IN  run[Len(stages)]
=============================================================================
