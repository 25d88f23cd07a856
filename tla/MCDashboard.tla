---------------------------- MODULE MCDashboard ----------------------------
(* One app and the row of unassigned callers, a refresh beside the poll.    *)
EXTENDS Dashboard, TLC

CONSTANTS app, refresh, broken
=============================================================================
