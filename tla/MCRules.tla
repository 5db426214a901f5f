------------------------------- MODULE MCRules -------------------------------
EXTENDS RuleAdmin

C(f, o, v, t) == [field |-> f, operator |-> o, value |-> v, transform |-> t]
Admin == C(<<"path", "raw">>, "equals", "/admin", <<"trim", "lowercase">>)
Tool == C(<<"headers", "x-tool">>, "regex", "(scan", <<>>)
R(i, p, c, e) == [id |-> i, priority |-> p, enabled |-> e, cond |-> c]

MCConditions == {Admin, Tool}
MCRequests == {[path |-> " /ADMIN ", headers |-> ("X-Tool" :> "scan")],
               [path |-> "  ", headers |-> << >>]}
MCTransforms == [trim |-> [v \in {" /ADMIN ", "  "} |-> IF v = "  " THEN "" ELSE "/ADMIN"],
                 lowercase |-> [v \in {"", "/ADMIN"} |-> IF v = "" THEN "" ELSE "/admin"]]
MCAccepts == [regex |-> {<<"scan", "scan">>}]
MCElements == << >>
MCFold == [k \in {"X-Tool", "x-tool"} |-> "x-tool"]

MCOwn == {R(1, 1, Admin, FALSE), R(2, 1, Admin, FALSE)}
MCBulk == {<<R(2, 1, Admin, TRUE), R(1, 2, Admin, TRUE), R(2, 2, Tool, FALSE)>>}
MCPatchRules == ("p" :> <<R(3, 0, Tool, FALSE)>>) @@ ("q" :> <<R(3, 0, Admin, FALSE)>>)
NoPatchRules == << >>

\* Kept is what SelectSeq is, on every sequence of at most four values.
ASSUME KeptIsSelected ==
    \A n \in 0 .. 4 : \A s \in [1 .. n -> 0 .. 2] :
        Kept(s, {i \in 1 .. n : s[i] # 0}) = SelectSeq(s, LAMBDA x : x # 0)
=============================================================================
