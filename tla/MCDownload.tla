----------------------------- MODULE MCDownload -----------------------------
(* Instances of Download for TLC. *)
EXTENDS Download, TLC

CONSTANTS a, b, x, y, c1, c2

Remote(p, c, k) == [path |-> p, chain |-> c, kind |-> k]

\* Two scripts; a target that lost its chain.
SomeBoards == {
    <<Remote(a, x, "js"), Remote(b, y, "html")>>,
    <<Remote(b, x, "json"), Remote(a, None, "unknown")>>}
=============================================================================
