------------------------- MODULE MCSessionDiscovery -------------------------
(* Instance of SessionDiscovery for TLC.                                   *)
EXTENDS SessionDiscovery

CONSTANTS s1

OneSession == {s1}

=============================================================================
