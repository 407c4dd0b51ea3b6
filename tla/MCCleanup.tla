------------------------------ MODULE MCCleanup ------------------------------
(* Two servers and one tenant.                                                *)
EXTENDS Cleanup

CONSTANTS s1, s2, t1

Servers == {s1, s2}
Tenants == {t1}
=============================================================================
