------------------------------- MODULE MCFeed -------------------------------
(***************************************************************************)
(* Instances of Feed for TLC: three pins of two authors on two pages.      *)
(***************************************************************************)
EXTENDS Feed, TLC

CONSTANTS a, b, c, v, x, y, g, h, c1

Team == <<<<v, x>>>>
Authors == (a :> x @@ b :> y @@ c :> x)
Pages == (a :> g @@ b :> g @@ c :> h)
=============================================================================
