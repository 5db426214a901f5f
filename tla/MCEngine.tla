------------------------------ MODULE MCEngine ------------------------------
(* Small instances of Engine for TLC.                                      *)
EXTENDS Engine

CONSTANTS sqli1, sqli2, xss1, ddos1, ddos2

\* The objects and the names their Name() methods return.
MCNameOf == [i \in Inspectors |->
               CASE i \in {sqli1, sqli2} -> "sqli"
                 [] i = xss1 -> "xss"
                 [] OTHER -> "ddos_protection"]

\* The slice of New with one feature switched off.
MCPipeline == <<ddos1, Nil, sqli1, xss1>>

ShortPipeline == <<sqli1, Nil, ddos1>>

\* Two names of the switch of UpdateInspector, and objects for them: Name()
\* agrees with the first and not with the second.
SqliAndDDoS == {"sqli", "ddos"}
BothReplacements == [n \in SqliAndDDoS |->
                        IF n = "sqli" THEN {sqli1, sqli2} ELSE {ddos2}]

D(a, s) == [kind |-> "decision", action |-> a, score |-> s]

\* Every kind of answer; scores in tens, with the thresholds at 5 and 9.
MCAnswers == {NoAnswer, ErrAnswer, D("block", 4),
              D("challenge", 5), D("monitor", 2), D("rate_limit", 4)}

=============================================================================
