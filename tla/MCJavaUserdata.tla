---- MODULE MCJavaUserdata ----
EXTENDS JavaUserdata, TLC
CONSTANTS o1, o2, o3
Plan(a, b, c) == (o1 :> a) @@ (o2 :> b) @@ (o3 :> c)
MCPlans ==
    {Plan("java", "closure", "upval"), Plan("thread", "closure", "upval")} \cup
    {Plan("java", y, "unused") : y \in {"java", "table", "proxy", "weakkey", "weakvalue"}} \cup
    {Plan("string", y, "unused") : y \in {"weakvalue", "weakboth"}}
====
