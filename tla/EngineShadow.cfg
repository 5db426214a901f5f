\* Shadow mode against what the code says of a monitor decision.
SPECIFICATION Spec
CONSTANTS
    sqli1 = sqli1  sqli2 = sqli2  xss1 = xss1  ddos1 = ddos1  ddos2 = ddos2
    Nil = Nil
    Requests = {r1}
    Inspectors = {sqli1, sqli2, xss1, ddos1, ddos2}
    NameOf <- MCNameOf
    InitialPipeline <- MCPipeline
    UpdateNames <- SqliAndDDoS
    Replacements <- BothReplacements
    Answers <- MCAnswers
    BlockScore = 9
    ChallengeScore = 5
    PerformanceIsolation = FALSE
    ShadowModes = {TRUE}
INVARIANTS ShadowNeverBlocks
