------------------------- MODULE MCDashboardSocket -------------------------
EXTENDS DashboardSocket, TLC
=============================================================================
