------------------------------ MODULE MCDunning ------------------------------
(* One tenant (operations of different tenants share nothing but the queue).  *)
EXTENDS Dunning

CONSTANTS t1, p1, p2

Tenants == {t1}
OneProc == {p1}
FewDays == {0, 7, 30}
AllDays == {0, 3, 7, 14, 30}
TwoProcs == {p1, p2}
=============================================================================
