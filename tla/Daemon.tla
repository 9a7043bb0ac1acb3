------------------------------ MODULE Daemon -------------------------------
(***************************************************************************)
(* The start of a daemon, from its two sides: a behaviour is one of        *)
(* Startup, the configuration and the sockets of server_init, or one of    *)
(* Privsep, the two processes from tnt_fork on.  They meet in child_start: *)
(* a child enters its loop when server_init has succeeded.                 *)
(***************************************************************************)
EXTENDS Startup, Privsep

VARIABLE side

daemonVars == <<side, startupVars, privsepVars>>

DaemonInit == side \in {"startup", "privsep"} /\ StartupInit /\ PrivsepInit

DaemonNext ==
    \/ side = "startup" /\ StartupNext /\ UNCHANGED <<side, privsepVars>>
    \/ side = "privsep" /\ PrivsepNext /\ UNCHANGED <<side, startupVars>>

DaemonSpec ==
    /\ DaemonInit /\ [][DaemonNext]_daemonVars
    /\ StartupFairness
    /\ side = "privsep" => PrivsepFairness

\* The types of both sides.
DaemonTypeOK == side \in {"startup", "privsep"} /\ StartupTypeOK /\ PrivsepTypeOK

=============================================================================
