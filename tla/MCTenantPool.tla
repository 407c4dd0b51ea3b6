----------------------------- MODULE MCTenantPool -----------------------------
(* A small pool for TLC: two slots and two tenants, two concurrent requests.  *)
EXTENDS TenantPool, TLC

CONSTANTS c1, c2, r1, r2, t1, t2

Conns == {c1, c2}
Reqs == {r1, r2}
Tenants == {t1, t2}
AllModes == {"tenant", "copy", "raw"}
TenantModes == {"tenant", "raw"}

Symmetry == Permutations(Conns) \cup Permutations(Reqs) \cup Permutations(Tenants)
=============================================================================
