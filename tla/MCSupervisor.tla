---------------------------- MODULE MCSupervisor ----------------------------
\* The supervisor on one box with one account and two process ids: see supervisor.cfg.
EXTENDS Supervisor
=============================================================================
