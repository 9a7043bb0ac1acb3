-------------------------------- MODULE Boot --------------------------------
(***************************************************************************)
(* How a daemon becomes two processes: main of sys/unix/tnetacled.c up to  *)
(* tnt_fork, tnt_daemonize (sys/unix/util.c), the privileges that          *)
(* tnt_fork of sys/unix/tnetacle.c drops, and where the messages of        *)
(* sys/unix/log.c go meanwhile.  Privsep takes over after the fork.        *)
(*                                                                         *)
(* A process is its table of descriptors, the descriptor of syslog(3), its *)
(* root directory and the identities it still has.  The kernel gives the   *)
(* lowest free descriptor.                                                 *)
(***************************************************************************)
EXTENDS Integers, Sequences, FiniteSetsExt

CONSTANTS MaxFd   \* bound on the descriptors

\* Nobody runs out: the standard ones, syslogd, the pipe and /dev/null.
ASSUME BootAssumption == MaxFd \in Nat /\ MaxFd >= 6

VARIABLES
    dbg,      \* debug: the option -d
    std,      \* the standard descriptors that are open at the start
    ps,       \* the processes
    said      \* where messages went

bootVars == <<dbg, std, ps, said>>

Fds == 0..MaxFd
Free == "free"
Gone == [pc |-> "exited", fds |-> [d \in Fds |-> Free], logfd |-> -1, root |-> "/",
         holds |-> {}, safe |-> TRUE, null |-> FALSE]
Privileges == {"groups", "gid", "uid"}

Lowest(p) == Min({d \in Fds : p.fds[d] = Free})
OpenFd(p, what) == [p EXCEPT !.fds[Lowest(p)] = what]

-----------------------------------------------------------------------------
(* Messages *)

\* vsyslog connects if there is no connection, and cannot from inside chroot.
Connected_log(p) ==
    IF p.logfd = -1 /\ p.root = "/" THEN [OpenFd(p, "syslogd") EXCEPT !.logfd = Lowest(p)] ELSE p

\* openlog with LOG_NDELAY.
Openlog(p) == Connected_log(p)

\* vlog
Destination(p) ==
    LET q == Connected_log(p)
    IN  IF dbg THEN p.fds[2] ELSE IF q.logfd = -1 THEN "lost" ELSE q.fds[q.logfd]

Logs(name) ==
    /\ ps[name].pc \notin {"exited", "exec", "options", "log_init"}
    /\ said' = said \cup {Destination(ps[name])}
    /\ ps' = IF dbg THEN ps ELSE [ps EXCEPT ![name] = Connected_log(@)]
    /\ UNCHANGED <<dbg, std>>

\* log_warn, log_warnx, log_notice and log_info; log_debug only with -d.
log(name, level) ==
    /\ level = "debug" => dbg
    /\ Logs(name)

\* What libevent has to say.  Its errors are warnings: the daemon goes on.
tnet_libevent_log(name, severity) ==
    log(name, CASE severity = "DEBUG" -> "debug"
                [] severity = "MSG" -> "info"
                [] severity \in {"WARN", "ERR"} -> "warnx"
                [] OTHER -> "notice")

\* log_err and log_errx.
LogErr(name) ==
    /\ said' = said \cup {Destination(ps[name])}
    /\ ps' = [ps EXCEPT ![name] = Gone]

-----------------------------------------------------------------------------
(* The parent *)

Step(name, from, p) ==
    /\ ps[name].pc = from
    /\ ps' = [ps EXCEPT ![name] = p]

\* The shell may have closed standard descriptors.
exec ==
    /\ \E open \in SUBSET {0, 1, 2} :
         /\ std' = open
         /\ Step("priv", "exec",
                 [ps["priv"] EXCEPT !.pc = "options",
                                    !.fds = [d \in Fds |-> IF d \in open THEN "tty" ELSE Free]])
    /\ UNCHANGED <<dbg, said>>

\* tnt_parse_file and getopt: the file and -d set debug; neither logs.
options ==
    /\ \E d \in BOOLEAN : dbg' = d
    /\ Step("priv", "options", [ps["priv"] EXCEPT !.pc = "log_init"])
    /\ UNCHANGED <<std, said>>

log_init ==
    /\ Step("priv", "log_init",
            [(IF dbg THEN ps["priv"] ELSE Openlog(ps["priv"])) EXCEPT !.pc = "socketpair"])
    /\ UNCHANGED <<dbg, std, said>>

\* main returns if it is not run by root or there is no pair.
socketpair ==
    /\ \/ Step("priv", "socketpair",
               [OpenFd(OpenFd(ps["priv"], "imsg_fds[0]"), "imsg_fds[1]") EXCEPT !.pc = "daemonize"])
       \/ Step("priv", "socketpair", Gone)
    /\ UNCHANGED <<dbg, std, said>>

\* dup2 to the standard descriptors; fd, from open, is closed if it is none.
ToNull(p, fd) == [p EXCEPT !.fds = [d \in Fds |-> IF d <= 2 THEN "null"
                                    ELSE IF d = fd THEN Free ELSE @[d]]]

\* The process that goes on is the child of a fork that does not change it.
\* main returns when fork or setsid fails; /dev/null may be missing.
tnt_daemonize ==
    /\ LET p == ps["priv"]
       IN  \/ dbg /\ Step("priv", "daemonize", [p EXCEPT !.pc = "fork"])
           \/ ~dbg /\ Step("priv", "daemonize",
                           [ToNull(p, Lowest(p)) EXCEPT !.pc = "fork", !.null = TRUE])
           \/ ~dbg /\ Step("priv", "daemonize", [p EXCEPT !.pc = "fork"])
           \/ ~dbg /\ Step("priv", "daemonize", Gone)
    /\ UNCHANGED <<dbg, std, said>>

\* tnt_fork; the home of the user may be missing or have unsafe permissions.
tnt_fork ==
    /\ ps["priv"].pc = "fork"
    /\ \/ /\ \E safe \in BOOLEAN :
               ps' = [ps EXCEPT !["priv"].pc = "close",
                                !["unpriv"] = [ps["priv"] EXCEPT !.pc = "check", !.safe = safe]]
          /\ UNCHANGED said
       \/ LogErr("priv")
    /\ UNCHANGED <<dbg, std>>

CloseFd(p, what) == [p EXCEPT !.fds = [d \in Fds |-> IF @[d] = what THEN Free ELSE @[d]]]

\* main closes the other end of the pipe and reaches its loop.
main_close ==
    /\ Step("priv", "close", [CloseFd(ps["priv"], "imsg_fds[1]") EXCEPT !.pc = "loop"])
    /\ UNCHANGED <<dbg, std, said>>

-----------------------------------------------------------------------------
(* The child *)

\* Mutant: the user is changed before the groups.
DropOrder_uid_first(holds) ==
    IF "uid" \in holds THEN "uid" ELSE IF "groups" \in holds THEN "groups" ELSE "gid"
\* The order of the calls in tnt_priv_drop.
DropOrder(holds) ==
    IF "groups" \in holds THEN "groups" ELSE IF "gid" \in holds THEN "gid" ELSE "uid"

\* The checks of the home directory, then chroot and chdir.
tnt_priv_drop_chroot ==
    /\ ps["unpriv"].pc = "check"
    /\ IF ps["unpriv"].safe
       THEN /\ ps' = [ps EXCEPT !["unpriv"] = [@ EXCEPT !.pc = "drop", !.root = "home"]]
            /\ UNCHANGED said
       ELSE LogErr("unpriv")
    /\ UNCHANGED <<dbg, std>>

\* setgroups, setresgid, setresuid: only root may change an identity.
tnt_priv_drop ==
    LET unpriv == ps["unpriv"]
        what == DropOrder(unpriv.holds)
    IN  /\ unpriv.pc = "drop" /\ unpriv.holds # {}
        /\ IF "uid" \in unpriv.holds
           THEN ps' = [ps EXCEPT !["unpriv"].holds = @ \ {what}] /\ UNCHANGED said
           ELSE LogErr("unpriv")
        /\ UNCHANGED <<dbg, std>>

init_pipe_endpoint(p) == CloseFd(p, "imsg_fds[0]")

child_loop ==
    /\ ps["unpriv"].holds = {}
    /\ Step("unpriv", "drop", [init_pipe_endpoint(ps["unpriv"]) EXCEPT !.pc = "loop"])
    /\ UNCHANGED <<dbg, std, said>>

-----------------------------------------------------------------------------
BootInit ==
    /\ dbg = FALSE /\ std = {} /\ said = {}
    /\ ps = [priv |-> [Gone EXCEPT !.pc = "exec", !.holds = Privileges], unpriv |-> Gone]

BootNext ==
    \/ exec \/ options \/ log_init \/ socketpair \/ tnt_daemonize \/ tnt_fork \/ main_close
    \/ tnt_priv_drop_chroot \/ tnt_priv_drop \/ child_loop
    \/ \E name \in {"priv", "unpriv"} :
         \/ \E level \in {"warn", "debug"} : log(name, level)
         \/ \E severity \in {"DEBUG", "MSG", "ERR", "strange"} : tnet_libevent_log(name, severity)

BootSpec == BootInit /\ [][BootNext]_bootVars

-----------------------------------------------------------------------------
(* Properties *)

\* The types of the descriptors, the log descriptor and the privileges of both processes.
BootTypeOK ==
    \A name \in {"priv", "unpriv"} :
        /\ ps[name].fds \in [Fds -> {Free, "tty", "null", "syslogd", "imsg_fds[0]",
                                     "imsg_fds[1]"}]
        /\ ps[name].logfd \in Fds \cup {-1} /\ ps[name].holds \subseteq Privileges

StdOpen == std = {0, 1, 2}

\* Every message of vlog is seen, on the terminal or by syslogd.  The
\* terminal is not replaced with -d, and the connection to syslogd is made
\* before the child is locked in its home.
MessagesAreSeen == StdOpen => said \subseteq {"tty", "syslogd"}

\* A daemon has let go of the terminal and kept no other descriptor than the
\* standard ones for it, whichever were open at the start.
TerminalReleased ==
    \A name \in {"priv", "unpriv"} :
        ps[name].null => {d \in Fds : ps[name].fds[d] = "null"} = {0, 1, 2}

\* Both ends of the pipe survive until the loops, and each is in one process
\* only: so the end of one process is an end of file for the other.
PipeHasTwoEnds ==
    (StdOpen /\ ps["priv"].pc = "loop" /\ ps["unpriv"].pc = "loop") =>
        \A i \in {1, 2} :
            LET holder == <<"priv", "unpriv">>[i]
                end    == <<"imsg_fds[0]", "imsg_fds[1]">>[i]
            IN  {name \in {"priv", "unpriv"} :
                   \E d \in Fds : ps[name].fds[d] = end} = {holder}

\* The child serves without privileges, and a child whose home is safe gets
\* there: no identity is given up that a later call needs.
ChildDropsAll ==
    /\ ps["unpriv"].pc = "loop" => ps["unpriv"].holds = {} /\ ps["unpriv"].root = "home"
    /\ ps["unpriv"].pc = "drop" =>
         "uid" \in ps["unpriv"].holds \/ ps["unpriv"].holds = {}

\* The processes that enter their loops have given up what they must and kept
\* what they need, in whatever state they were started.
ProcessesSetUp == MessagesAreSeen /\ TerminalReleased /\ PipeHasTwoEnds /\ ChildDropsAll

=============================================================================
