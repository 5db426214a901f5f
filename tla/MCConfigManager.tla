--------------------------- MODULE MCConfigManager ---------------------------
(* Small instances of ConfigManager for TLC. *)
EXTENDS ConfigManager

Site(n, u) == [name |-> n, upstream |-> u]

OneSite == <<Site("shop", "u1")>>
Moved == <<Site("shop", "u2")>>
TwoSites == <<Site("shop", "u1"), Site("blog", "u1")>>

OperatorEdits == {Moved, TwoSites}
SameSite == {OneSite}
=============================================================================
