--------------------------- MODULE MCMobileSession ---------------------------
(* An instance of MobileSession for TLC: both apps.                         *)
EXTENDS MobileSession

MCPlatforms == {"ios", "android"}
=============================================================================
