-------------------------- MODULE MCWaybackClient --------------------------
(* WaybackClient on its own: any request may fail, through any route, at    *)
(* any time. Three fallbacks, delays of 2, 4 and 5 units.                   *)
EXTENDS WaybackClient
=============================================================================
