---------------------------- MODULE MCWafHandler ----------------------------
(* Small instances of WafHandler for TLC. *)
EXTENDS WafHandler

S(n, d, u, w) == [name |-> n, domains |-> {d}, upstream |-> u, waf |-> w]

\* One protected site.
Start == <<S("shop", "shop.org", "u1", TRUE)>>

\* A site without WAF is added, and one whose upstream does not parse.
Added == <<S("shop", "shop.org", "u1", TRUE), S("blog", "blog.org", "u2", FALSE)>>
Broken == <<S("blog", "blog.org", "bad", TRUE), S("shop", "shop.org", "u1", TRUE)>>

\* The upstream of the site changes.
Moved == <<S("shop", "shop.org", "u2", TRUE)>>

Growing == {Added, Broken}
Moving == {Moved}
=============================================================================
