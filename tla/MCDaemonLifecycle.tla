------------------------- MODULE MCDaemonLifecycle -------------------------
(* Small instances of DaemonLifecycle: both kinds of source, and at most two *)
(* signals, so that one can interrupt the stop() of the other.               *)
EXTENDS DaemonLifecycle

BothSources == {"journald", "stream"}
Journal == {"journald"}

=============================================================================
