--------------------------- MODULE MCCredentials ---------------------------
EXTENDS Credentials

Agent(p, h, u) == [parent |-> p, human |-> h, from |-> 0, until |-> u]
Grant(i, s, p, c, f, u) == [issuer |-> i, subject |-> s, parent |-> p, caps |-> c, res |-> {"x"}, from |-> f, until |-> u]

Base ==
    [agents |-> [a \in {"a1", "a2"} |-> IF a = "a1" THEN Agent("", "h1", 3) ELSE Agent("a1", "h1", 3)],
     grants |-> [g \in {"g1", "g2"} |-> IF g = "g1" THEN Grant("h1", "a1", "", {"r", "w"}, 0, 3)
                                        ELSE Grant("a1", "a2", "g1", {"r"}, 0, 3)],
     trajectories |-> [t \in {"t1", "t2"} |->
        [actor |-> IF t = "t1" THEN "a1" ELSE "a2", grant |-> IF t = "t1" THEN "g1" ELSE "g2",
         cap |-> "r", tool |-> "send", res |-> {"x"}, state |-> "p"]]]

\* One entry of a registry changed.
Edits(r) ==
    {[r EXCEPT !.agents["a2"].parent = p] : p \in {"", "a2", "zz"}}
    \cup {[r EXCEPT !.agents["a1"].parent = "a2"], [r EXCEPT !.agents["a2"].human = "h2"]}
    \cup {[r EXCEPT !.agents[a].until = 1] : a \in {"a1", "a2"}}
    \cup {[r EXCEPT !.grants[g].until = 1] : g \in {"g1", "g2"}}
    \cup {[r EXCEPT !.grants["g2"].from = 1], [r EXCEPT !.grants["g2"].from = 3]}
    \cup {[r EXCEPT !.grants["g1"].issuer = i] : i \in {"a1", "h2"}}
    \cup {[r EXCEPT !.grants["g2"].issuer = i] : i \in {"a2", "h1"}}
    \cup {[r EXCEPT !.grants["g2"].parent = p] : p \in {"", "g2", "zz"}}
    \cup {[r EXCEPT !.grants["g1"].parent = "g2"], [r EXCEPT !.grants["g1"].subject = "a2"]}
    \cup {[r EXCEPT !.grants["g2"].caps = {"r", "w", "x"}], [r EXCEPT !.grants["g1"].caps = {"w"}]}
    \cup {[r EXCEPT !.trajectories["t2"].cap = "w"], [r EXCEPT !.trajectories["t2"].tool = "read"]}

\* A third grant, below the second: a chain longer than the bound of two.
Deep(r) == [r EXCEPT !.agents = [a \in {"a1", "a2", "a3"} |-> IF a = "a3" THEN Agent("a2", "h1", 3) ELSE r.agents[a]],
                     !.grants = [g \in {"g1", "g2", "g3"} |-> IF g = "g3" THEN Grant("a2", "a3", "g2", {"r"}, 0, 3)
                                                              ELSE r.grants[g]],
                     !.trajectories["t2"] = [@ EXCEPT !.actor = "a3", !.grant = "g3"]]

Registries == {Base, Deep(Base)} \cup Edits(Base) \cup UNION {Edits(r) : r \in Edits(Base)}

P(l, o, ra, sc, ap) == [lineage |-> l, ownership |-> o, requireActor |-> ra, scopes |-> sc, approval |-> ap,
                        rules |-> <<>>, identities |-> <<>>, times |-> <<>>]

R(t, ps, ds) == [type |-> t, patterns |-> ps, domains |-> ds, limit |-> 5]

MCRules ==
    {R(t, ps, {}) : ps \in {{}, {"in"}},
       t \in {"deny_path", "allow_path", "allow_path_slot", "allow_destination", "allow_working_directory", "allow_application",
              "allow_skill", "allow_recipient", "allow_resource_owner", "deny_command_pattern", "allow_command_pattern",
              "deny_command_keyword", "deny_query_pattern", "allow_query_pattern", "allowed_repos"}}
    \cup {R(t, {}, {}) : t \in {"require_path_literal", "deny_secret", "deny_permission_bypass", "max_file_size",
                               "max_result_rows", "require_approval_always", "lineage_require"}}
    \cup {R(t, {}, {"in"}) : t \in {"deny_recipient_domain", "allow_recipient_domain"}}
    \cup {R("allow_activation", ps, ds) : ps \in {{}, {"in"}}, ds \in {{}, {"in"}}}

Hours(s, e) == [days |-> {}, start |-> s, end |-> e]
TR(d, h, o) == [servers |-> {"s1"}, tools |-> {"send"}, deniedDays |-> d, hours |-> h, outside |-> o]
MCTimes == {<<>>, <<TR({1}, {}, "deny")>>, <<TR({}, {Hours(0, 2)}, "")>>, <<TR({}, {Hours(2, 1)}, "require_approval"), TR({0}, {}, "deny")>>}
MCIdentities ==
    {<<>>, [c \in {"a1"} |-> [servers |-> {"s1"}, tools |-> {<<"s1", "send">>}]],
     [c \in {"a2"} |-> [servers |-> {"s1"}, tools |-> {<<"s1", "send">>}]]}

Plain == P(Off, Off, FALSE, {}, FALSE)
RulePolicies ==
    {[Plain EXCEPT !.rules = <<r>>] : r \in MCRules}
    \cup {[Plain EXCEPT !.rules = <<q, r>>] : q \in {R("require_approval_always", {}, {}), R("allow_recipient", {"in"}, {})},
                                             r \in {R("allow_destination", {"in"}, {}), R("require_approval_always", {}, {})}}
    \cup {[Plain EXCEPT !.times = t, !.identities = i, !.approval = ap] : t \in MCTimes, i \in MCIdentities, ap \in BOOLEAN}

Arg(k, e, v, t) == [key |-> k, exact |-> e, kind |-> v, text |-> t, num |-> IF t = "in" THEN 5 ELSE 6]

Values ==
    {<<"plain", t>> : t \in {"in", "out", "bad host", "a;b", "off"}} \cup {<<k, "in">> : k \in {"padded", "cased", "decorated"}}
    \cup {<<"cased", "off">>, <<"blank", "in">>, <<"number", "in">>, <<"number", "out">>, <<"false", "in">>}

\* Two names the rules of a type read, and one they do not.
Keys(type) ==
    CASE type \in {"deny_path", "allow_path", "require_path_literal", "allow_path_slot"} -> {"path", "file", "target"}
      [] type \in {"allow_recipient", "deny_recipient_domain", "allow_recipient_domain"} -> {"recipient", "to", "cc"}
      [] type = "allow_destination" -> {"url", "host", "path"}
      [] type = "allow_working_directory" -> {"cwd", "chdir", "path"}
      [] type = "allow_application" -> {"app", "name", "to"}
      [] type = "allow_skill" -> {"skill", "skill_id", "name"}
      [] type = "allow_resource_owner" -> {"owner", "principal", "to"}
      [] type \in {"deny_query_pattern", "allow_query_pattern"} -> {"query", "sql", "to"}
      [] type = "allowed_repos" -> {"repo", "repository", "path"}
      [] type = "deny_secret" -> {"secret", "token", "path"}
      [] type = "deny_permission_bypass" -> {"skip_permissions", "bypass_permissions", "path"}
      [] type = "max_file_size" -> {"size", "file_size", "path"}
      [] type = "max_result_rows" -> {"limit", "rows", "path"}
      [] OTHER -> {"command", "exec", "url"}

MCArgs(type) ==
    {{}} \cup {{Arg(k, TRUE, v[1], v[2])} : k \in Keys(type), v \in Values}
    \cup {{Arg(k, FALSE, "plain", t)} : k \in Keys(type), t \in {"in", "out"}}
    \cup UNION {{{Arg(k, TRUE, "plain", "in"), Arg(l, k # l, "plain", t)} : k \in Keys(type), l \in Keys(type)} : t \in {"in", "out"}}
    \cup {{Arg(k, TRUE, "number", "out"), Arg(l, FALSE, "plain", "in")} : k \in Keys(type), l \in Keys(type)}

OwnGrant(id, s, v, f, u) ==
    [id |-> id, owner |-> "o", delegate |-> "a1", server |-> "s1", tool |-> "send", effect |-> "e", scope |-> s,
     values |-> v, from |-> f, until |-> u]

Ownerships ==
    {[owner |-> [s \in {"s1"} |-> o], allowed |-> al,
      caps |-> {[server |-> "s1", tool |-> "send", effect |-> "e", scope |-> sc]}, grants |-> gs] :
       o \in {"o", "a1"}, al \in {{}, {<<"s1", "send">>}, {<<"s1", "send">>, <<"s1", "read">>}}, sc \in {"", "path"},
       gs \in SUBSET {OwnGrant("d1", "", {}, 0, 1), OwnGrant("d2", "", {}, 1, 2), OwnGrant("d3", "", {}, 0, 2),
                      OwnGrant("d4", "path", {"x"}, 1, 2), OwnGrant("d5", "path", {"y"}, 0, 2)}}
    \cup {[owner |-> [s \in {"s2"} |-> "o"], allowed |-> {<<"s1", "send">>}, caps |-> {}, grants |-> {}]}

MCReloads == {P(Base, Off, FALSE, {}, FALSE), P(Off, Off, FALSE, {}, TRUE),
              P([Base EXCEPT !.grants["g2"].parent = "g2"], Off, FALSE, {}, FALSE)}

MCPolicies ==
    {P(l, Off, ra, {}, ap) : l \in Registries, ra \in BOOLEAN, ap \in BOOLEAN}
    \cup {P(Off, o, FALSE, {}, ap) : o \in Ownerships, ap \in BOOLEAN}
    \cup {P(Base, o, FALSE, {"s"}, TRUE) : o \in {x \in Ownerships : Cardinality(x.grants) = 1}}
    \cup RulePolicies \cup MCReloads

MCEnvelopes(p) ==
    IF p \in RulePolicies
    THEN {[grant |-> "", cap |-> "", res |-> "", tool |-> "send", state |-> "", trajectory |-> "", args |-> as] :
            as \in IF p.rules = <<>> THEN {{}} ELSE MCArgs(p.rules[Len(p.rules)].type)}
    ELSE {[grant |-> g, cap |-> c, res |-> "x", tool |-> t, state |-> "p", trajectory |-> tr, args |-> {}] :
            <<g, tr>> \in {<<"g1", "t1">>, <<"g2", "t2">>, <<"g3", "t2">>}, c \in {"r", "w"}, t \in {"send", "read"}}

MCContexts ==
    {Off, [agent |-> "a2", until |-> 1, scopes |-> {"s"}, sealed |-> TRUE],
     [agent |-> "a2", until |-> 5, scopes |-> {}, sealed |-> FALSE],
     [agent |-> "a2", until |-> 5, scopes |-> {"s"}, sealed |-> TRUE],
     [agent |-> "a3", until |-> 5, scopes |-> {}, sealed |-> TRUE]}
=============================================================================
