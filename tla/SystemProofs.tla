---------------------------- MODULE SystemProofs ----------------------------
(***************************************************************************)
(* Proofs about what the processes of the system are built from: how they  *)
(* start and drop their privileges (Boot), the buffers of their messages   *)
(* (Ibuf), and the connections of clients (Control).                       *)
(***************************************************************************)
EXTENDS Boot, Ibuf, Control, NumberLemmas, FiniteSetTheorems, SequenceTheorems, TLAPS

(* The start of the processes: ProcessesSetUp.  The invariant follows the   *)
(* table of descriptors of each process from exec to its loop: how far it   *)
(* is filled, where syslogd, the terminal and the ends of the pipe are, and *)
(* which identities are left.                                               *)

\* The shapes of the state.
ProcessNames == {"priv", "unpriv"}
Early == {"exec", "options", "log_init"}
Before == Early \cup {"socketpair", "daemonize"}
Pcs == Before \cup {"fork", "close", "check", "drop", "loop", "exited"}
FdTables == [Fds -> {Free, "tty", "null", "syslogd", "imsg_fds[0]", "imsg_fds[1]"}]
Procs == [pc : Pcs, fds : FdTables, logfd : Fds \cup {-1}, root : {"/", "home"},
          holds : SUBSET Privileges, safe : BOOLEAN, null : BOOLEAN]

\* How far the parent has filled its table: the lowest descriptor that is free
\* is always in it.
Room(p) ==
    \A d \in Fds : \/ p.fds[d] = Free
                   \/ p.pc \in {"options", "log_init"} /\ d < 3
                   \/ p.pc = "socketpair" /\ d < 4
                   \/ p.pc = "daemonize" /\ d < 6
                   \/ p.pc \notin Before

\* A process that logs to syslogd is connected, and with -d it keeps the terminal.
Heard(p) ==
    /\ p.pc \notin Early \cup {"exited"} /\ ~dbg =>
         p.logfd # -1 /\ (StdOpen => p.logfd > 2 /\ p.fds[p.logfd] = "syslogd")
    /\ p.pc \notin {"exec", "exited"} /\ StdOpen /\ ~p.null => \A d \in 0..2 : p.fds[d] = "tty"

\* /dev/null is on the standard descriptors or on none.
Released(p) ==
    /\ p.null => p.pc \notin Before \cup {"exited"} /\ ~dbg /\ \A d \in 0..2 : p.fds[d] = "null"
    /\ \A d \in Fds : p.fds[d] = "null" => p.null /\ d <= 2

\* The ends of the pipe are behind the standard descriptors, so that tnt_daemonize
\* leaves them alone.
Has(p, end) == \E d \in Fds : d > 2 /\ p.fds[d] = end
Without(p, end) == \A d \in Fds : p.fds[d] # end
Piped(p) == StdOpen /\ p.pc \in {"daemonize", "fork", "close", "check", "drop"} =>
              Has(p, "imsg_fds[0]") /\ Has(p, "imsg_fds[1]")

Sound(p) == Room(p) /\ Heard(p) /\ Released(p) /\ Piped(p)

Parent(p) ==
    /\ Sound(p) /\ p.pc \notin {"check", "drop"}
    /\ p.pc \in Early => p.logfd = -1 /\ p.root = "/"
    /\ p.pc # "exited" => p.holds = Privileges
    /\ StdOpen /\ p.pc = "loop" => Has(p, "imsg_fds[0]") /\ Without(p, "imsg_fds[1]")

\* The identities are given up in an order that leaves the right to go on.
Child(p) ==
    /\ Sound(p) /\ p.pc \in {"exited", "check", "drop", "loop"}
    /\ p.pc = "check" => p.holds = Privileges
    /\ p.pc \in {"drop", "loop"} => p.root = "home"
    /\ p.pc = "drop" => p.holds \in {Privileges, {"gid", "uid"}, {"uid"}, {}}
    /\ p.pc = "loop" => p.holds = {}
    /\ StdOpen /\ p.pc = "loop" => Has(p, "imsg_fds[1]") /\ Without(p, "imsg_fds[0]")

\* The inductive invariant.
BootInv ==
    /\ ps \in [ProcessNames -> Procs] /\ dbg \in BOOLEAN
    /\ Parent(ps["priv"]) /\ Child(ps["unpriv"])
    /\ ps["priv"].pc = "exec" => said = {}
    /\ ps["priv"].pc \in {"exec", "options"} => ps["unpriv"].pc = "exited"
    /\ MessagesAreSeen

----------------------------------------------------------------------------
\* A process field by field.
ProcessIs(q, pc, fds, logfd, root, holds, safe, null) ==
    /\ q \in Procs /\ q.pc = pc /\ q.fds = fds /\ q.logfd = logfd /\ q.root = root
    /\ q.holds = holds /\ q.safe = safe /\ q.null = null

\* The fields of a process after an assignment to pc; the next lemmas say the same
\* of the other fields.
LEMMA SetPc ==
    ASSUME NEW p \in Procs, NEW v \in Pcs
    PROVE  ProcessIs([p EXCEPT !.pc = v], v, p.fds, p.logfd, p.root, p.holds, p.safe, p.null)
<1>1. [p EXCEPT !.pc = v] \in Procs
  BY DEF Procs
<1> QED
  BY <1>1 DEF ProcessIs, Procs

\* ... to its table
LEMMA SetFds ==
    ASSUME NEW p \in Procs, NEW v \in FdTables
    PROVE  ProcessIs([p EXCEPT !.fds = v], p.pc, v, p.logfd, p.root, p.holds, p.safe, p.null)
<1>1. [p EXCEPT !.fds = v] \in Procs
  BY DEF Procs
<1> QED
  BY <1>1 DEF ProcessIs, Procs

\* ... to the descriptor of syslog(3)
LEMMA SetLogfd ==
    ASSUME NEW p \in Procs, NEW v \in Fds
    PROVE  ProcessIs([p EXCEPT !.logfd = v], p.pc, p.fds, v, p.root, p.holds, p.safe, p.null)
<1>1. [p EXCEPT !.logfd = v] \in Procs
  BY DEF Procs
<1> QED
  BY <1>1 DEF ProcessIs, Procs

\* ... to its root directory
LEMMA SetRoot ==
    ASSUME NEW p \in Procs
    PROVE  ProcessIs([p EXCEPT !.root = "home"], p.pc, p.fds, p.logfd, "home", p.holds, p.safe, p.null)
<1>1. [p EXCEPT !.root = "home"] \in Procs
  BY DEF Procs
<1> QED
  BY <1>1 DEF ProcessIs, Procs

\* ... to its identities
LEMMA SetHolds ==
    ASSUME NEW p \in Procs, NEW v \in SUBSET Privileges
    PROVE  ProcessIs([p EXCEPT !.holds = v], p.pc, p.fds, p.logfd, p.root, v, p.safe, p.null)
<1>1. [p EXCEPT !.holds = v] \in Procs
  BY DEF Procs
<1> QED
  BY <1>1 DEF ProcessIs, Procs

\* ... to what the checks of the home will say
LEMMA SetSafe ==
    ASSUME NEW p \in Procs, NEW v \in BOOLEAN
    PROVE  ProcessIs([p EXCEPT !.safe = v], p.pc, p.fds, p.logfd, p.root, p.holds, v, p.null)
<1>1. [p EXCEPT !.safe = v] \in Procs
  BY DEF Procs
<1> QED
  BY <1>1 DEF ProcessIs, Procs

\* ... to whether it has let go of the terminal
LEMMA SetNull ==
    ASSUME NEW p \in Procs
    PROVE  ProcessIs([p EXCEPT !.null = TRUE], p.pc, p.fds, p.logfd, p.root, p.holds, p.safe, TRUE)
<1>1. [p EXCEPT !.null = TRUE] \in Procs
  BY DEF Procs
<1> QED
  BY <1>1 DEF ProcessIs, Procs

\* The kernel finds a descriptor as soon as one is free.
LEMMA LowestFree ==
    ASSUME NEW p \in Procs, NEW k \in Fds, p.fds[k] = Free
    PROVE  Lowest(p) \in Fds /\ p.fds[Lowest(p)] = Free /\ Lowest(p) <= k
<1> DEFINE T == {d \in Fds : p.fds[d] = Free}
<1>1. k \in T /\ T \subseteq Nat
  BY BootAssumption DEF Fds
<1>2. \E x \in T : \A y \in T : x <= y
  BY <1>1, LeastNumber
<1>3. Lowest(p) \in T /\ \A y \in T : Lowest(p) <= y
  BY <1>2 DEF Lowest, Min
<1> QED
  BY <1>1, <1>3

\* Opening changes one entry of the table, which was free.
LEMMA OpenIs ==
    ASSUME NEW p \in Procs, NEW k \in Fds, p.fds[k] = Free,
           NEW what \in {"syslogd", "imsg_fds[0]", "imsg_fds[1]"}
    PROVE  /\ [p.fds EXCEPT ![Lowest(p)] = what] \in FdTables
           /\ ProcessIs(OpenFd(p, what), p.pc, [p.fds EXCEPT ![Lowest(p)] = what],
                 p.logfd, p.root, p.holds, p.safe, p.null)
<1>1. PICK l \in Fds : l = Lowest(p)
  BY LowestFree
<1>2. PICK v \in FdTables : v = [p.fds EXCEPT ![l] = what]
  BY DEF Procs, FdTables
<1>3. OpenFd(p, what) = [p EXCEPT !.fds = v]
  BY <1>1, <1>2 DEF OpenFd
<1> QED
  BY <1>1, <1>2, <1>3, SetFds

\* A process that is gone, field by field.
LEMMA GoneIs == ProcessIs(Gone, "exited", [d \in Fds |-> Free], -1, "/", {}, TRUE, FALSE)
<1>1. [d \in Fds |-> Free] \in FdTables
  BY DEF FdTables
<1>2. Gone \in Procs
  BY <1>1 DEF Gone, Procs, Pcs
<1> QED
  BY <1>2 DEF ProcessIs, Gone

\* It asks nothing of the invariant.
LEMMA GoneSound == Parent(Gone) /\ Child(Gone)
<1>1. /\ Gone.pc = "exited" /\ Gone.null = FALSE /\ \A d \in Fds : Gone.fds[d] = Free
  BY GoneIs DEF ProcessIs
<1>2. Sound(Gone)
  BY <1>1 DEF Sound, Room, Heard, Released, Piped, Before, Early, Free
<1> QED
  BY <1>1, <1>2 DEF Parent, Child, Early

\* What is known of q goes with it into the next state, if dbg and std stay.
LEMMA Carried ==
    ASSUME NEW name \in ProcessNames, NEW q, ps'[name] = q, UNCHANGED <<dbg, std>>
    PROVE  (Parent(q) => Parent(ps[name])') /\ (Child(q) => Child(ps[name])')
<1>1. Room(q) => Room(ps[name])'
  BY DEF Room
<1>2. Heard(q) => Heard(ps[name])'
  BY DEF Heard, StdOpen
<1>3. Released(q) => Released(ps[name])'
  BY DEF Released
<1>4. \A end \in {"imsg_fds[0]", "imsg_fds[1]"} :
        (Has(q, end) <=> Has(ps[name], end)') /\ (Without(q, end) <=> Without(ps[name], end)')
  BY DEF Has, Without
<1>5. Piped(q) => Piped(ps[name])'
  BY <1>4 DEF Piped, StdOpen
<1>6. Sound(q) => Sound(ps[name])'
  BY <1>1, <1>2, <1>3, <1>5 DEF Sound
<1>7. Parent(q) => Parent(ps[name])'
  BY <1>4, <1>6 DEF Parent, StdOpen
<1>8. Child(q) => Child(ps[name])'
  BY <1>4, <1>6 DEF Child, StdOpen
<1> QED
  BY <1>7, <1>8

\* The parent changes to q.
LEMMA ParentStep ==
    ASSUME BootInv, NEW q \in Procs, ps' = [ps EXCEPT !["priv"] = q], UNCHANGED <<dbg, std>>,
           Parent(q), q.pc \notin {"exec", "options"}, MessagesAreSeen'
    PROVE  BootInv'
<1>1. /\ ps' \in [ProcessNames -> Procs] /\ dbg' \in BOOLEAN
      /\ ps'["priv"] = q /\ ps'["unpriv"] = ps["unpriv"]
  BY DEF BootInv, ProcessNames
<1>2. Parent(ps["priv"])'
  BY <1>1, Carried DEF ProcessNames
<1>3. Child(ps["unpriv"])'
  <2>1. Child(ps["unpriv"])
    BY DEF BootInv
  <2> QED
    BY <1>1, <2>1, Carried DEF ProcessNames
<1> QED
  BY <1>1, <1>2, <1>3 DEF BootInv

\* The child changes to q.
LEMMA ChildStep ==
    ASSUME BootInv, NEW q \in Procs, ps' = [ps EXCEPT !["unpriv"] = q], UNCHANGED <<dbg, std>>,
           Child(q), ps["unpriv"].pc # "exited", MessagesAreSeen'
    PROVE  BootInv'
<1>1. /\ ps' \in [ProcessNames -> Procs] /\ dbg' \in BOOLEAN
      /\ ps'["unpriv"] = q /\ ps'["priv"] = ps["priv"]
  BY DEF BootInv, ProcessNames
<1>2. Child(ps["unpriv"])'
  BY <1>1, Carried DEF ProcessNames
<1>3. Parent(ps["priv"])'
  <2>1. Parent(ps["priv"])
    BY DEF BootInv
  <2> QED
    BY <1>1, <2>1, Carried DEF ProcessNames
<1>4. ps["priv"].pc \notin {"exec", "options"}
  BY DEF BootInv
<1> QED
  BY <1>1, <1>2, <1>3, <1>4 DEF BootInv

\* Every message of a process that is up goes to the terminal or to syslogd.
LEMMA DestinationSeen ==
    ASSUME NEW p \in Procs, Heard(p), Released(p), p.pc \notin Early \cup {"exited"},
           dbg \in BOOLEAN
    PROVE  /\ StdOpen => Destination(p) \in {"tty", "syslogd"}
           /\ ~dbg => Connected_log(p) = p
<1>1. ~dbg => p.logfd # -1 /\ Connected_log(p) = p
  BY DEF Heard, Connected_log
<1>2. CASE dbg
  <2>1. 2 \in 0..2 /\ ~p.null /\ p.pc # "exec"
    BY <1>2 DEF Released, Early
  <2>2. StdOpen => p.fds[2] = "tty"
    BY <2>1 DEF Heard
  <2> QED
    BY <1>1, <1>2, <2>2 DEF Destination
<1>3. CASE ~dbg
  <2>1. StdOpen => p.fds[p.logfd] = "syslogd"
    BY <1>3 DEF Heard
  <2> QED
    BY <1>1, <1>3, <2>1 DEF Destination
<1> QED
  BY <1>2, <1>3

\* A message, of the daemon or of libevent.
LEMMA LogStep ==
    ASSUME BootInv, NEW name \in ProcessNames, Logs(name)
    PROVE  BootInv'
<1>1. /\ ps[name] \in Procs /\ Heard(ps[name]) /\ Released(ps[name]) /\ dbg \in BOOLEAN
      /\ ps \in [ProcessNames -> Procs]
  BY DEF BootInv, Parent, Child, Sound, ProcessNames
<1>2. /\ StdOpen => Destination(ps[name]) \in {"tty", "syslogd"}
      /\ ~dbg => Connected_log(ps[name]) = ps[name]
  <2>1. ps[name].pc \notin Early \cup {"exited"}
    BY DEF Logs, Early
  <2> QED
    BY <1>1, <2>1, DestinationSeen
<1>3. UNCHANGED <<dbg, std, ps>> /\ said' = said \cup {Destination(ps[name])}
  BY <1>1, <1>2 DEF Logs
<1>4. ps["priv"].pc # "exec"
  BY <1>3 DEF BootInv, Logs, ProcessNames
<1>5. MessagesAreSeen'
  BY <1>2, <1>3 DEF BootInv, MessagesAreSeen, StdOpen
<1>6. Parent(ps["priv"])' /\ Child(ps["unpriv"])'
  <2>1. Parent(ps["priv"]) /\ Child(ps["unpriv"])
    BY DEF BootInv
  <2> QED
    BY <1>3, <2>1, Carried DEF ProcessNames
<1> QED
  BY <1>3, <1>4, <1>5, <1>6 DEF BootInv

\* log_err: a message, and the process is gone.
LEMMA ErrStep ==
    ASSUME BootInv, NEW name \in ProcessNames, LogErr(name), UNCHANGED <<dbg, std>>,
           ps[name].pc \in {"fork", "check", "drop"}
    PROVE  BootInv'
<1>1. /\ ps[name] \in Procs /\ Heard(ps[name]) /\ Released(ps[name]) /\ dbg \in BOOLEAN
      /\ ps \in [ProcessNames -> Procs]
  BY DEF BootInv, Parent, Child, Sound, ProcessNames
<1>2. StdOpen => Destination(ps[name]) \in {"tty", "syslogd"}
  <2>1. ps[name].pc \notin Early \cup {"exited"}
    BY DEF Early
  <2> QED
    BY <1>1, <2>1, DestinationSeen
<1>3. MessagesAreSeen'
  BY <1>2 DEF BootInv, MessagesAreSeen, StdOpen, LogErr
<1>4. Gone \in Procs /\ Gone.pc = "exited"
  BY GoneIs DEF ProcessIs
<1> QED
  BY <1>3, <1>4, GoneSound, ParentStep, ChildStep DEF LogErr, ProcessNames

\* A step that leaves the messages alone.
LEMMA SameMessages ==
    ASSUME BootInv, UNCHANGED <<std, said>>
    PROVE  MessagesAreSeen'
BY DEF BootInv, MessagesAreSeen, StdOpen

\* The start, with any of the standard descriptors open.
LEMMA ExecStep ==
    ASSUME BootInv, exec
    PROVE  BootInv'
<1> DEFINE p == ps["priv"]
<1>1. PICK open \in SUBSET {0, 1, 2} :
        /\ std' = open /\ p.pc = "exec"
        /\ ps' = [ps EXCEPT !["priv"] =
                    [p EXCEPT !.pc = "options",
                              !.fds = [d \in Fds |-> IF d \in open THEN "tty" ELSE Free]]]
  BY DEF exec, Step
<1>2. /\ ps \in [ProcessNames -> Procs] /\ p \in Procs /\ Parent(p) /\ Child(ps["unpriv"])
      /\ said = {} /\ ps["unpriv"].pc = "exited" /\ dbg \in BOOLEAN
  BY <1>1 DEF BootInv, ProcessNames
<1>3. PICK v \in FdTables : v = [d \in Fds |-> IF d \in open THEN "tty" ELSE Free]
  BY DEF FdTables
<1>4. PICK a \in Procs : /\ a = [p EXCEPT !.pc = "options"]
                         /\ a.pc = "options" /\ a.logfd = p.logfd /\ a.root = p.root
                         /\ a.holds = p.holds /\ a.null = p.null
  <2>1. "options" \in Pcs
    BY DEF Pcs, Before, Early
  <2>2. PICK x \in Procs : x = p
    BY <1>2
  <2>3. ProcessIs([x EXCEPT !.pc = "options"], "options", x.fds, x.logfd, x.root, x.holds, x.safe, x.null)
    BY <2>1, SetPc
  <2> QED
    BY <2>2, <2>3 DEF ProcessIs
<1>5. PICK q \in Procs : /\ q = [a EXCEPT !.fds = v]
                         /\ q.pc = a.pc /\ q.fds = v /\ q.logfd = a.logfd /\ q.root = a.root
                         /\ q.holds = a.holds /\ q.null = a.null
  BY SetFds DEF ProcessIs
<1>6. ps' = [ps EXCEPT !["priv"] = q]
  BY <1>1, <1>3, <1>4, <1>5
<1>7. /\ q.pc = "options" /\ q.fds = v /\ q.holds = p.holds /\ q.null = p.null
      /\ q.logfd = p.logfd /\ q.root = p.root
  BY <1>4, <1>5
<1>8. UNCHANGED <<dbg, said>>
  BY DEF exec
<1> HIDE DEF p
<1>9. ~p.null /\ p.holds = Privileges /\ p.logfd = -1 /\ p.root = "/"
  BY <1>1, <1>2 DEF Parent, Sound, Released, Before, Early
<1>10. \A d \in Fds : /\ v[d] = (IF d \in open THEN "tty" ELSE Free)
                      /\ d \in {0, 1, 2} => d < 3
  BY <1>3 DEF Fds
<1>11. ps' \in [ProcessNames -> Procs] /\ ps'["priv"] = q /\ ps'["unpriv"] = ps["unpriv"]
  BY <1>2, <1>6 DEF ProcessNames
<1>12. Parent(ps["priv"])'
  <2>1. Room(q)
    BY <1>7, <1>10 DEF Room
  <2>2. Heard(ps["priv"])'
    <3>1. std' = {0, 1, 2} => \A d \in 0..2 : v[d] = "tty"
      <4>1. \A d \in 0..2 : d \in Fds /\ d \in {0, 1, 2}
        BY BootAssumption DEF Fds
      <4> QED
        BY <1>1, <1>10, <4>1
    <3> QED
      BY <1>7, <1>11, <3>1 DEF Heard, StdOpen, Early
  <2>3. Released(ps["priv"])'
    BY <1>7, <1>9, <1>10, <1>11 DEF Released, Free
  <2> QED
    BY <1>7, <1>9, <1>11, <2>1, <2>2, <2>3 DEF Parent, Sound, Room, Piped
<1>13. Child(ps["unpriv"])'
  BY <1>2, <1>8, <1>11 DEF Child, Sound, Room, Heard, Released, Piped
<1> QED
  BY <1>2, <1>7, <1>8, <1>11, <1>12, <1>13 DEF BootInv, MessagesAreSeen

\* The options are read: debug changes before anything depends on it.
LEMMA OptionsStep ==
    ASSUME BootInv, options
    PROVE  BootInv'
<1> DEFINE p == ps["priv"]
<1>1. /\ dbg' \in BOOLEAN /\ UNCHANGED <<std, said>> /\ p.pc = "options"
      /\ ps' = [ps EXCEPT !["priv"] = [p EXCEPT !.pc = "log_init"]]
  BY DEF options, Step
<1>2. /\ ps \in [ProcessNames -> Procs] /\ p \in Procs /\ Parent(p) /\ Child(ps["unpriv"])
      /\ ps["unpriv"].pc = "exited"
  BY <1>1 DEF BootInv, ProcessNames
<1>3. PICK q \in Procs : /\ q = [p EXCEPT !.pc = "log_init"]
                         /\ q.pc = "log_init" /\ q.fds = p.fds /\ q.logfd = p.logfd
                         /\ q.root = p.root /\ q.holds = p.holds /\ q.null = p.null
  <2>1. "log_init" \in Pcs
    BY DEF Pcs, Before, Early
  <2>2. ProcessIs([p EXCEPT !.pc = "log_init"], "log_init", p.fds, p.logfd, p.root, p.holds, p.safe, p.null)
    BY <1>2, <2>1, SetPc
  <2> HIDE DEF p
  <2> QED
    BY <2>2 DEF ProcessIs
<1>5. ps' \in [ProcessNames -> Procs] /\ ps'["priv"] = q /\ ps'["unpriv"] = ps["unpriv"]
  BY <1>1, <1>2, <1>3 DEF ProcessNames
<1> HIDE DEF p
<1>6. ~p.null
  BY <1>1, <1>2 DEF Parent, Sound, Released, Before, Early
<1>7. Parent(ps["priv"])'
  <2>1. Room(q)
    BY <1>1, <1>2, <1>3 DEF Parent, Sound, Room, Before, Early
  <2>2. Heard(ps["priv"])'
    BY <1>1, <1>2, <1>3, <1>5, <1>6 DEF Parent, Sound, Heard, StdOpen, Early
  <2>3. Released(ps["priv"])'
    BY <1>2, <1>3, <1>5, <1>6 DEF Parent, Sound, Released
  <2> QED
    BY <1>1, <1>2, <1>3, <1>5, <2>1, <2>2, <2>3 DEF Parent, Sound, Room, Piped, Early
<1>8. Child(ps["unpriv"])'
  BY <1>1, <1>2, <1>5 DEF Child, Sound, Room, Heard, Released, Piped
<1> QED
  BY <1>1, <1>2, <1>3, <1>5, <1>7, <1>8, SameMessages DEF BootInv

\* log_init connects to syslogd while there is room in the table.
LEMMA LogInitStep ==
    ASSUME BootInv, log_init
    PROVE  BootInv'
<1> DEFINE p == ps["priv"]
           r == IF dbg THEN p ELSE Openlog(p)
<1>1. /\ UNCHANGED <<dbg, std, said>> /\ p.pc = "log_init"
      /\ ps' = [ps EXCEPT !["priv"] = [r EXCEPT !.pc = "socketpair"]]
  BY DEF log_init, Step
<1>2. p \in Procs /\ Parent(p) /\ dbg \in BOOLEAN
  BY DEF BootInv, ProcessNames
<1>3. /\ Room(p) /\ Heard(p) /\ Released(p) /\ p.holds = Privileges /\ ~p.null
      /\ p.logfd = -1 /\ p.root = "/"
      /\ StdOpen => \A d \in 0..2 : p.fds[d] = "tty"
  BY <1>1, <1>2 DEF Parent, Sound, Heard, Released, Before, Early
<1>4. PICK l \in Fds : l = Lowest(p) /\ l < 4 /\ p.fds[l] = Free
  <2>1. 3 \in Fds /\ p.fds[3] = Free
    BY <1>1, <1>3, BootAssumption DEF Room, Fds, Before, Early
  <2>2. Lowest(p) \in Fds /\ p.fds[Lowest(p)] = Free /\ Lowest(p) <= 3
    BY <1>2, <2>1, LowestFree
  <2> QED
    BY <2>2 DEF Fds
<1>5. PICK b \in Procs : /\ b = r /\ b.holds = p.holds /\ b.null = p.null
                         /\ dbg => b.fds = p.fds
                         /\ ~dbg => b.fds = [p.fds EXCEPT ![l] = "syslogd"] /\ b.logfd = l
  <2>1. CASE dbg
    BY <1>2, <2>1
  <2>2. CASE ~dbg
    <3>1. PICK a \in Procs : /\ a = OpenFd(p, "syslogd") /\ a.fds = [p.fds EXCEPT ![l] = "syslogd"]
                             /\ a.holds = p.holds /\ a.null = p.null
      BY <1>2, <1>4, OpenIs DEF ProcessIs
    <3>2. PICK b \in Procs : b = [a EXCEPT !.logfd = l]
                             /\ b.fds = a.fds /\ b.logfd = l /\ b.holds = a.holds /\ b.null = a.null
      BY SetLogfd DEF ProcessIs
    <3>3. r = [a EXCEPT !.logfd = l]
      BY <1>3, <1>4, <2>2, <3>1 DEF Openlog, Connected_log
    <3> QED
      BY <2>2, <3>1, <3>2, <3>3
  <2> QED
    BY <1>2, <2>1, <2>2
<1>6. PICK q \in Procs : /\ q = [b EXCEPT !.pc = "socketpair"] /\ q.pc = "socketpair"
                         /\ q.fds = b.fds /\ q.logfd = b.logfd /\ q.holds = b.holds /\ q.null = b.null
  <2>1. "socketpair" \in Pcs
    BY DEF Pcs, Before
  <2> QED
    BY <2>1, SetPc DEF ProcessIs
<1>7. ps' = [ps EXCEPT !["priv"] = q]
  BY <1>1, <1>5, <1>6
<1> HIDE DEF p, r
<1>8. /\ \A d \in Fds \ {l} : q.fds[d] = p.fds[d]
      /\ q.fds[l] \in {Free, "syslogd"} /\ (~dbg => q.fds[l] = "syslogd")
  BY <1>2, <1>4, <1>5, <1>6 DEF Procs, FdTables
<1>9. StdOpen => l \notin 0..2
  BY <1>3, <1>4 DEF Free
<1>10. Parent(q)
  <2>1. Room(q)
    BY <1>1, <1>3, <1>4, <1>6, <1>8 DEF Room, Fds, Before, Early
  <2>2. Heard(q)
    <3>1. ~dbg => q.logfd = l /\ l # -1
      BY <1>5, <1>6 DEF Fds
    <3>2. StdOpen => l > 2 /\ \A d \in 0..2 : d \in Fds /\ q.fds[d] = "tty"
      BY <1>3, <1>8, <1>9, BootAssumption DEF Fds
    <3> QED
      BY <1>6, <1>8, <3>1, <3>2 DEF Heard
  <2>3. Released(q)
    BY <1>3, <1>5, <1>6, <1>8 DEF Released, Free
  <2> QED
    BY <1>3, <1>5, <1>6, <2>1, <2>2, <2>3 DEF Parent, Sound, Piped, Early
<1>11. MessagesAreSeen'
  BY <1>1, SameMessages
<1> QED
  BY <1>1, <1>6, <1>7, <1>10, <1>11, ParentStep

\* socketpair takes the two lowest free descriptors, behind the standard ones if
\* those are open.
LEMMA SocketpairStep ==
    ASSUME BootInv, socketpair
    PROVE  BootInv'
<1> DEFINE p == ps["priv"]
           f == [OpenFd(OpenFd(p, "imsg_fds[0]"), "imsg_fds[1]") EXCEPT !.pc = "daemonize"]
<1>1. /\ UNCHANGED <<dbg, std, said>> /\ p.pc = "socketpair"
      /\ ps' = [ps EXCEPT !["priv"] = f] \/ ps' = [ps EXCEPT !["priv"] = Gone]
  BY DEF socketpair, Step
<1>2. p \in Procs /\ Parent(p)
  BY DEF BootInv, ProcessNames
<1>3. /\ Room(p) /\ Heard(p) /\ Released(p) /\ p.holds = Privileges /\ ~p.null
      /\ StdOpen => \A d \in 0..2 : p.fds[d] = "tty"
  BY <1>1, <1>2 DEF Parent, Sound, Heard, Released, Before, Early
<1>4. MessagesAreSeen'
  BY <1>1, SameMessages
<1>5. CASE ps' = [ps EXCEPT !["priv"] = Gone]
  <2>1. Gone \in Procs /\ Gone.pc = "exited"
    BY GoneIs DEF ProcessIs
  <2> QED
    BY <1>1, <1>4, <1>5, <2>1, GoneSound, ParentStep
<1>6. CASE ps' = [ps EXCEPT !["priv"] = f]
  <2>1. PICK l \in Fds : l = Lowest(p) /\ l < 5 /\ p.fds[l] = Free
    <3>1. 4 \in Fds /\ p.fds[4] = Free
      BY <1>1, <1>3, BootAssumption DEF Room, Fds, Before, Early
    <3>2. Lowest(p) \in Fds /\ p.fds[Lowest(p)] = Free /\ Lowest(p) <= 4
      BY <1>2, <3>1, LowestFree
    <3> QED
      BY <3>2 DEF Fds
  <2>2. PICK a \in Procs : /\ a = OpenFd(p, "imsg_fds[0]") /\ a.fds = [p.fds EXCEPT ![l] = "imsg_fds[0]"]
                           /\ a.holds = p.holds /\ a.null = p.null /\ a.logfd = p.logfd
    BY <1>2, <2>1, OpenIs DEF ProcessIs
  <2>3. a.fds[l] = "imsg_fds[0]" /\ \A d \in Fds \ {l} : a.fds[d] = p.fds[d]
    BY <1>2, <2>1, <2>2 DEF Procs, FdTables
  <2>4. PICK m \in Fds : m = Lowest(a) /\ m < 6 /\ m # l /\ p.fds[m] = Free
    <3>1. 5 \in Fds /\ a.fds[5] = Free
      BY <1>1, <1>3, <2>1, <2>3, BootAssumption DEF Room, Fds, Before, Early
    <3>2. Lowest(a) \in Fds /\ a.fds[Lowest(a)] = Free /\ Lowest(a) <= 5
      BY <3>1, LowestFree
    <3> QED
      BY <2>3, <3>2 DEF Fds, Free
  <2>5. PICK b \in Procs : /\ b = OpenFd(a, "imsg_fds[1]") /\ b.fds = [a.fds EXCEPT ![m] = "imsg_fds[1]"]
                           /\ b.holds = a.holds /\ b.null = a.null /\ b.logfd = a.logfd
    <3>1. a.fds[m] = Free
      BY <2>3, <2>4
    <3> QED
      BY <2>4, <3>1, OpenIs DEF ProcessIs
  <2>6. b.fds[m] = "imsg_fds[1]" /\ \A d \in Fds \ {m} : b.fds[d] = a.fds[d]
    BY <2>4, <2>5 DEF Procs, FdTables
  <2>7. PICK q \in Procs : /\ q = [b EXCEPT !.pc = "daemonize"] /\ q.pc = "daemonize"
                           /\ q.fds = b.fds /\ q.logfd = b.logfd /\ q.holds = b.holds /\ q.null = b.null
    <3>1. "daemonize" \in Pcs
      BY DEF Pcs, Before
    <3> QED
      BY <3>1, SetPc DEF ProcessIs
  <2>8. ps' = [ps EXCEPT !["priv"] = q]
    BY <1>6, <2>2, <2>5, <2>7
  <2> HIDE DEF p, f
  <2>9. /\ \A d \in Fds \ {l, m} : q.fds[d] = p.fds[d]
        /\ q.fds[l] = "imsg_fds[0]" /\ q.fds[m] = "imsg_fds[1]"
        /\ q.holds = p.holds /\ q.null = p.null /\ q.logfd = p.logfd
    BY <2>2, <2>3, <2>4, <2>5, <2>6, <2>7
  <2>10. StdOpen => l > 2 /\ m > 2 /\ \A d \in 0..2 : d \in Fds /\ q.fds[d] = "tty"
    <3>1. StdOpen => l \notin 0..2 /\ m \notin 0..2
      BY <1>3, <2>1, <2>4 DEF Free
    <3> QED
      BY <1>3, <2>9, <3>1, BootAssumption DEF Fds
  <2>11. Parent(q)
    <3>1. Room(q)
      BY <1>1, <1>3, <2>1, <2>4, <2>7, <2>9 DEF Room, Fds, Before, Early
    <3>2. Heard(q)
      <4>1. ~dbg => p.logfd # -1 /\ (StdOpen => p.logfd > 2 /\ p.fds[p.logfd] = "syslogd")
        BY <1>1, <1>3 DEF Heard, Early
      <4>2. p.logfd \in Fds \cup {-1}
        BY <1>2 DEF Procs
      <4>3. ~dbg => q.logfd # -1 /\ (StdOpen => q.logfd > 2 /\ q.fds[q.logfd] = "syslogd")
        BY <2>1, <2>4, <2>9, <4>1, <4>2 DEF Free
      <4> QED
        BY <2>7, <2>10, <4>3 DEF Heard
    <3>3. Released(q)
      BY <1>3, <2>7, <2>9 DEF Released
    <3>4. Piped(q)
      BY <2>9, <2>10 DEF Piped, Has
    <3> QED
      BY <1>3, <2>7, <2>9, <3>1, <3>2, <3>3, <3>4 DEF Parent, Sound, Early
  <2> QED
    BY <1>1, <1>4, <2>7, <2>8, <2>11, ParentStep
<1> QED
  BY <1>1, <1>5, <1>6

\* tnt_daemonize moves /dev/null to the standard descriptors and loses no other.
LEMMA DaemonizeStep ==
    ASSUME BootInv, tnt_daemonize
    PROVE  BootInv'
<1> DEFINE p == ps["priv"]
           f == [p EXCEPT !.pc = "fork"]
           g == [ToNull(p, Lowest(p)) EXCEPT !.pc = "fork", !.null = TRUE]
<1>1. /\ UNCHANGED <<dbg, std, said>> /\ p.pc = "daemonize"
      /\ \/ ps' = [ps EXCEPT !["priv"] = f]
         \/ ~dbg /\ ps' = [ps EXCEPT !["priv"] = g]
         \/ ps' = [ps EXCEPT !["priv"] = Gone]
  BY DEF tnt_daemonize, Step
<1>2. p \in Procs /\ Parent(p)
  BY DEF BootInv, ProcessNames
<1>3. /\ Room(p) /\ Heard(p) /\ Released(p) /\ Piped(p) /\ p.holds = Privileges /\ ~p.null
      /\ ~dbg => p.logfd # -1 /\ (StdOpen => p.logfd > 2 /\ p.fds[p.logfd] = "syslogd")
      /\ StdOpen => Has(p, "imsg_fds[0]") /\ Has(p, "imsg_fds[1]")
  BY <1>1, <1>2 DEF Parent, Sound, Heard, Released, Piped, Before, Early
<1>4. MessagesAreSeen'
  BY <1>1, SameMessages
<1>5. CASE ps' = [ps EXCEPT !["priv"] = Gone]
  <2>1. Gone \in Procs /\ Gone.pc = "exited"
    BY GoneIs DEF ProcessIs
  <2> QED
    BY <1>1, <1>4, <1>5, <2>1, GoneSound, ParentStep
<1>6. CASE ps' = [ps EXCEPT !["priv"] = f]
  <2>1. PICK q \in Procs : /\ q = f /\ q.pc = "fork" /\ q.fds = p.fds
                           /\ q.logfd = p.logfd /\ q.holds = p.holds /\ q.null = p.null
    <3>1. "fork" \in Pcs
      BY DEF Pcs
    <3> QED
      BY <1>2, <3>1, SetPc DEF ProcessIs
  <2> HIDE DEF p, f
  <2>2. Parent(q)
    BY <1>1, <1>3, <2>1 DEF Parent, Sound, Room, Heard, Released, Piped, Has, Before, Early
  <2> QED
    BY <1>1, <1>4, <1>6, <2>1, <2>2, ParentStep
<1>7. CASE ~dbg /\ ps' = [ps EXCEPT !["priv"] = g]
  <2>1. PICK l \in Fds : l = Lowest(p) /\ p.fds[l] = Free
    <3>1. 6 \in Fds /\ p.fds[6] = Free
      BY <1>1, <1>3, BootAssumption DEF Room, Fds, Before, Early
    <3> QED
      BY <1>2, <3>1, LowestFree
  <2>2. PICK v \in FdTables : v = [d \in Fds |-> IF d <= 2 THEN "null"
                                               ELSE IF d = l THEN Free ELSE p.fds[d]]
    BY <1>2 DEF Procs, FdTables
  <2>3. PICK a \in Procs : /\ a = ToNull(p, l) /\ a.fds = v /\ a.holds = p.holds /\ a.logfd = p.logfd
    <3>1. ToNull(p, l) = [p EXCEPT !.fds = v]
      BY <2>2 DEF ToNull
    <3>2. ProcessIs([p EXCEPT !.fds = v], p.pc, v, p.logfd, p.root, p.holds, p.safe, p.null)
      BY <1>2, SetFds
    <3> HIDE DEF p
    <3> QED
      BY <3>1, <3>2 DEF ProcessIs
  <2>4. PICK b \in Procs : /\ b = [a EXCEPT !.pc = "fork"] /\ b.pc = "fork"
                           /\ b.fds = a.fds /\ b.logfd = a.logfd /\ b.holds = a.holds
    <3>1. "fork" \in Pcs
      BY DEF Pcs
    <3> QED
      BY <3>1, SetPc DEF ProcessIs
  <2>5. PICK q \in Procs : /\ q = [b EXCEPT !.null = TRUE] /\ q.pc = b.pc /\ q.null = TRUE
                           /\ q.fds = b.fds /\ q.logfd = b.logfd /\ q.holds = b.holds
    BY SetNull DEF ProcessIs
  <2>6. ps' = [ps EXCEPT !["priv"] = q]
    BY <1>7, <2>1, <2>3, <2>4, <2>5
  <2> HIDE DEF p, f, g
  <2>7. /\ q.pc = "fork" /\ q.null = TRUE /\ q.holds = Privileges /\ q.logfd = p.logfd
        /\ \A d \in Fds : q.fds[d] = IF d <= 2 THEN "null" ELSE p.fds[d]
    BY <1>3, <2>1, <2>2, <2>3, <2>4, <2>5
  <2>8. \A d \in 0..2 : d \in Fds /\ d <= 2
    BY BootAssumption DEF Fds
  <2>9. Parent(q)
    <3>1. Heard(q)
      <4>1. p.logfd \in Fds \cup {-1}
        BY <1>2 DEF Procs, p
      <4>2. StdOpen => ~(p.logfd <= 2)
        BY <1>3, <1>7, <4>1 DEF Fds
      <4> QED
        BY <1>3, <1>7, <2>7, <4>1, <4>2 DEF Heard
    <3>2. Released(q)
      BY <1>3, <1>7, <2>7, <2>8 DEF Released, Before, Early
    <3>3. Piped(q)
      <4>1. \A d \in Fds : d > 2 => ~(d <= 2)
        BY DEF Fds
      <4> QED
        BY <1>3, <2>7, <4>1 DEF Piped, Has
    <3>4. Room(q)
      BY <2>7 DEF Room, Before, Early
    <3> QED
      BY <2>7, <3>1, <3>2, <3>3, <3>4 DEF Parent, Sound, Early
  <2> QED
    BY <1>1, <1>4, <2>6, <2>7, <2>9, ParentStep
<1> QED
  BY <1>1, <1>5, <1>6, <1>7

\* tnt_fork copies the table to the child.
LEMMA ForkStep ==
    ASSUME BootInv, tnt_fork
    PROVE  BootInv'
<1> DEFINE p == ps["priv"]
<1>1. UNCHANGED <<dbg, std>> /\ p.pc = "fork"
  BY DEF tnt_fork
<1>2. p \in Procs /\ Parent(p) /\ ps \in [ProcessNames -> Procs] /\ dbg \in BOOLEAN
  BY DEF BootInv, ProcessNames
<1>3. CASE LogErr("priv")
  BY <1>1, <1>3, ErrStep DEF ProcessNames
<1>4. CASE ~LogErr("priv")
  <2>1. PICK safe \in BOOLEAN :
          /\ UNCHANGED said
          /\ ps' = [ps EXCEPT !["priv"].pc = "close",
                              !["unpriv"] = [p EXCEPT !.pc = "check", !.safe = safe]]
    BY <1>4 DEF tnt_fork
  <2>2. PICK a \in Procs : /\ a = [p EXCEPT !.pc = "close"] /\ a.pc = "close" /\ a.fds = p.fds
                           /\ a.logfd = p.logfd /\ a.holds = p.holds /\ a.null = p.null
    <3>1. "close" \in Pcs
      BY DEF Pcs
    <3>2. ProcessIs([p EXCEPT !.pc = "close"], "close", p.fds, p.logfd, p.root, p.holds, p.safe, p.null)
      BY <1>2, <3>1, SetPc
    <3> HIDE DEF p
    <3> QED
      BY <3>2 DEF ProcessIs
  <2>3. PICK b \in Procs : /\ b = [p EXCEPT !.pc = "check"] /\ b.pc = "check" /\ b.fds = p.fds
                           /\ b.logfd = p.logfd /\ b.holds = p.holds /\ b.null = p.null
    <3>1. "check" \in Pcs
      BY DEF Pcs
    <3>2. ProcessIs([p EXCEPT !.pc = "check"], "check", p.fds, p.logfd, p.root, p.holds, p.safe, p.null)
      BY <1>2, <3>1, SetPc
    <3> HIDE DEF p
    <3> QED
      BY <3>2 DEF ProcessIs
  <2>4. PICK q \in Procs : /\ q = [b EXCEPT !.safe = safe] /\ q.pc = b.pc /\ q.fds = b.fds
                           /\ q.logfd = b.logfd /\ q.holds = b.holds /\ q.null = b.null
    BY SetSafe DEF ProcessIs
  <2>5. /\ ps' \in [ProcessNames -> Procs] /\ ps'["priv"] = a /\ ps'["unpriv"] = q
    BY <1>2, <2>1, <2>2, <2>3, <2>4 DEF ProcessNames
  <2> HIDE DEF p
  <2>6. Parent(ps["priv"])'
    BY <1>1, <1>2, <2>2, <2>5 DEF Parent, Sound, Room, Heard, Released, Piped, Has, Before, Early,
                                  StdOpen
  <2>7. Child(ps["unpriv"])'
    BY <1>1, <1>2, <2>3, <2>4, <2>5 DEF Parent, Child, Sound, Room, Heard, Released, Piped, Has,
                                        Before, Early, StdOpen
  <2>8. MessagesAreSeen'
    BY <1>1, <2>1, SameMessages
  <2> QED
    BY <1>1, <1>2, <2>2, <2>5, <2>6, <2>7, <2>8 DEF BootInv
<1> QED
  BY <1>3, <1>4

\* One end of the pipe is closed, wherever it is.
LEMMA CloseIs ==
    ASSUME NEW p \in Procs, NEW what \in {"imsg_fds[0]", "imsg_fds[1]"}
    PROVE  \E q \in Procs : /\ q = [CloseFd(p, what) EXCEPT !.pc = "loop"] /\ q.pc = "loop"
                            /\ q.logfd = p.logfd /\ q.holds = p.holds /\ q.null = p.null
                            /\ q.root = p.root
                            /\ \A d \in Fds : q.fds[d] = IF p.fds[d] = what THEN Free ELSE p.fds[d]
<1>1. PICK v \in FdTables : v = [d \in Fds |-> IF p.fds[d] = what THEN Free ELSE p.fds[d]]
  BY DEF Procs, FdTables
<1>2. PICK a \in Procs : /\ a = CloseFd(p, what) /\ a.fds = v /\ a.holds = p.holds
                         /\ a.logfd = p.logfd /\ a.null = p.null /\ a.root = p.root
  <2>1. CloseFd(p, what) = [p EXCEPT !.fds = v]
    BY <1>1 DEF CloseFd
  <2> QED
    BY <2>1, SetFds DEF ProcessIs
<1>3. PICK q \in Procs : /\ q = [a EXCEPT !.pc = "loop"] /\ q.pc = "loop" /\ q.fds = a.fds
                         /\ q.logfd = a.logfd /\ q.holds = a.holds /\ q.null = a.null
                         /\ q.root = a.root
  <2>1. "loop" \in Pcs
    BY DEF Pcs
  <2> QED
    BY <2>1, SetPc DEF ProcessIs
<1>4. q = [CloseFd(p, what) EXCEPT !.pc = "loop"]
  BY <1>2, <1>3
<1>5. \A d \in Fds : q.fds[d] = IF p.fds[d] = what THEN Free ELSE p.fds[d]
  BY <1>1, <1>2, <1>3
<1> QED
  BY <1>2, <1>3, <1>4, <1>5

\* The parent keeps its end of the pipe.
LEMMA CloseStep ==
    ASSUME BootInv, main_close
    PROVE  BootInv'
<1> DEFINE p == ps["priv"]
<1>1. /\ UNCHANGED <<dbg, std, said>> /\ p.pc = "close"
      /\ ps' = [ps EXCEPT !["priv"] = [CloseFd(p, "imsg_fds[1]") EXCEPT !.pc = "loop"]]
  BY DEF main_close, Step
<1>2. p \in Procs /\ Parent(p)
  BY DEF BootInv, ProcessNames
<1>3. PICK q \in Procs :
        /\ q = [CloseFd(p, "imsg_fds[1]") EXCEPT !.pc = "loop"] /\ q.pc = "loop"
        /\ q.logfd = p.logfd /\ q.holds = p.holds /\ q.null = p.null
        /\ \A d \in Fds : q.fds[d] = IF p.fds[d] = "imsg_fds[1]" THEN Free ELSE p.fds[d]
  BY <1>2, CloseIs
<1>4. p.logfd \in Fds \cup {-1} /\ \A d \in 0..2 : d \in Fds
  BY <1>2, BootAssumption DEF Procs, Fds
<1> HIDE DEF p
<1>5. Parent(q)
  <2>1. Room(q) /\ Released(q)
    BY <1>1, <1>2, <1>3, <1>4 DEF Parent, Sound, Room, Released, Before, Early, Free
  <2>2. Heard(q)
    BY <1>1, <1>2, <1>3, <1>4 DEF Parent, Sound, Heard, Early
  <2>3. StdOpen => Has(q, "imsg_fds[0]") /\ Without(q, "imsg_fds[1]")
    BY <1>1, <1>2, <1>3 DEF Parent, Sound, Piped, Has, Without, Free
  <2> QED
    BY <1>1, <1>2, <1>3, <2>1, <2>2, <2>3 DEF Parent, Sound, Piped, Early
<1>6. MessagesAreSeen'
  BY <1>1, SameMessages
<1> QED
  BY <1>1, <1>3, <1>5, <1>6, ParentStep

\* The child keeps the other one.
LEMMA ReadyStep ==
    ASSUME BootInv, child_loop
    PROVE  BootInv'
<1> DEFINE p == ps["unpriv"]
<1>1. /\ UNCHANGED <<dbg, std, said>> /\ p.pc = "drop" /\ p.holds = {}
      /\ ps' = [ps EXCEPT !["unpriv"] = [CloseFd(p, "imsg_fds[0]") EXCEPT !.pc = "loop"]]
  BY DEF child_loop, Step, init_pipe_endpoint
<1>2. p \in Procs /\ Child(p)
  BY DEF BootInv, ProcessNames
<1>3. PICK q \in Procs :
        /\ q = [CloseFd(p, "imsg_fds[0]") EXCEPT !.pc = "loop"] /\ q.pc = "loop"
        /\ q.logfd = p.logfd /\ q.holds = p.holds /\ q.null = p.null /\ q.root = p.root
        /\ \A d \in Fds : q.fds[d] = IF p.fds[d] = "imsg_fds[0]" THEN Free ELSE p.fds[d]
  BY <1>2, CloseIs
<1>4. p.logfd \in Fds \cup {-1} /\ \A d \in 0..2 : d \in Fds
  BY <1>2, BootAssumption DEF Procs, Fds
<1>5. ps["unpriv"].pc # "exited"
  BY <1>1
<1> HIDE DEF p
<1>6. Child(q)
  <2>1. Room(q) /\ Released(q)
    BY <1>1, <1>2, <1>3, <1>4 DEF Child, Sound, Room, Released, Before, Early, Free
  <2>2. Heard(q)
    BY <1>1, <1>2, <1>3, <1>4 DEF Child, Sound, Heard, Early
  <2>3. StdOpen => Has(q, "imsg_fds[1]") /\ Without(q, "imsg_fds[0]")
    BY <1>1, <1>2, <1>3 DEF Child, Sound, Piped, Has, Without, Free
  <2> QED
    BY <1>1, <1>2, <1>3, <2>1, <2>2, <2>3 DEF Child, Sound, Piped
<1>7. MessagesAreSeen'
  BY <1>1, SameMessages
<1> QED
  BY <1>1, <1>3, <1>5, <1>6, <1>7, ChildStep

\* chroot: the connection to syslogd is older.
LEMMA ChrootStep ==
    ASSUME BootInv, tnt_priv_drop_chroot
    PROVE  BootInv'
<1> DEFINE p == ps["unpriv"]
<1>1. UNCHANGED <<dbg, std>> /\ p.pc = "check"
  BY DEF tnt_priv_drop_chroot
<1>2. p \in Procs /\ Child(p)
  BY DEF BootInv, ProcessNames
<1>3. CASE ~p.safe
  BY <1>1, <1>3, ErrStep DEF ProcessNames, tnt_priv_drop_chroot
<1>4. CASE p.safe
  <2>1. UNCHANGED said /\ ps' = [ps EXCEPT !["unpriv"] = [p EXCEPT !.pc = "drop", !.root = "home"]]
    BY <1>4 DEF tnt_priv_drop_chroot
  <2>2. PICK a \in Procs : /\ a = [p EXCEPT !.pc = "drop"] /\ a.pc = "drop" /\ a.fds = p.fds
                           /\ a.logfd = p.logfd /\ a.holds = p.holds /\ a.null = p.null
    <3>1. "drop" \in Pcs
      BY DEF Pcs
    <3> QED
      BY <1>2, <3>1, SetPc DEF ProcessIs
  <2>3. PICK q \in Procs : /\ q = [a EXCEPT !.root = "home"] /\ q.root = "home" /\ q.pc = a.pc
                           /\ q.fds = a.fds /\ q.logfd = a.logfd /\ q.holds = a.holds
                           /\ q.null = a.null
    BY SetRoot DEF ProcessIs
  <2>4. ps["unpriv"].pc # "exited"
    BY <1>1
  <2>5. ps' = [ps EXCEPT !["unpriv"] = q]
    BY <2>1, <2>2, <2>3
  <2> HIDE DEF p
  <2>6. Child(q)
    BY <1>1, <1>2, <2>2, <2>3 DEF Child, Sound, Room, Heard, Released, Piped, Has, Before, Early
  <2>7. MessagesAreSeen'
    BY <1>1, <2>1, SameMessages
  <2> QED
    BY <1>1, <2>4, <2>5, <2>6, <2>7, ChildStep
<1> QED
  BY <1>3, <1>4

\* tnt_priv_drop gives up one identity at a time, the user last.
LEMMA DropStep ==
    ASSUME BootInv, tnt_priv_drop
    PROVE  BootInv'
<1> DEFINE p == ps["unpriv"]
           h == p.holds \ {DropOrder(p.holds)}
<1>1. UNCHANGED <<dbg, std>> /\ p.pc = "drop" /\ p.holds # {}
  BY DEF tnt_priv_drop
<1>2. p \in Procs /\ Child(p)
  BY DEF BootInv, ProcessNames
<1>3. p.holds \in {{"groups", "gid", "uid"}, {"gid", "uid"}, {"uid"}}
  BY <1>1, <1>2 DEF Child, Privileges
<1>4. "uid" \in p.holds /\ h \in {{"gid", "uid"}, {"uid"}, {}}
  <2>1. CASE p.holds = {"groups", "gid", "uid"}
    <3>1. DropOrder(p.holds) = "groups"
      BY <2>1 DEF DropOrder
    <3> QED
      BY <2>1, <3>1
  <2>2. CASE p.holds = {"gid", "uid"}
    <3>1. DropOrder(p.holds) = "gid"
      BY <2>2 DEF DropOrder
    <3> QED
      BY <2>2, <3>1
  <2>3. CASE p.holds = {"uid"}
    <3>1. DropOrder(p.holds) = "uid"
      BY <2>3 DEF DropOrder
    <3> QED
      BY <2>3, <3>1
  <2> QED
    BY <1>3, <2>1, <2>2, <2>3
<1>5. UNCHANGED said /\ ps' = [ps EXCEPT !["unpriv"].holds = h]
  BY <1>4 DEF tnt_priv_drop
<1> HIDE DEF h
<1>6. PICK q \in Procs : /\ q = [p EXCEPT !.holds = h] /\ q.holds = h /\ q.pc = p.pc /\ q.root = p.root
                         /\ q.fds = p.fds /\ q.logfd = p.logfd /\ q.null = p.null
  <2>1. h \in SUBSET Privileges
    BY <1>4 DEF Privileges
  <2>2. ProcessIs([p EXCEPT !.holds = h], p.pc, p.fds, p.logfd, p.root, h, p.safe, p.null)
    BY <1>2, <2>1, SetHolds
  <2> HIDE DEF p
  <2> QED
    BY <2>2 DEF ProcessIs
<1>7. ps' = [ps EXCEPT !["unpriv"] = q] /\ ps["unpriv"].pc # "exited"
  BY <1>1, <1>5, <1>6
<1> HIDE DEF p
<1>8. Child(q)
  BY <1>1, <1>2, <1>4, <1>6 DEF Child, Sound, Room, Heard, Released, Piped, Has, Before, Early
<1>9. MessagesAreSeen'
  BY <1>1, <1>5, SameMessages
<1> QED
  BY <1>1, <1>7, <1>8, <1>9, ChildStep

\* The invariant is inductive.
LEMMA BootInvNext == BootInv /\ [BootNext]_bootVars => BootInv'
<1> SUFFICES ASSUME BootInv, [BootNext]_bootVars PROVE BootInv'
  OBVIOUS
<1>1. CASE UNCHANGED bootVars
  <2>1. UNCHANGED <<dbg, std, ps, said>>
    BY <1>1 DEF bootVars
  <2>2. Parent(ps["priv"])' /\ Child(ps["unpriv"])'
    BY <2>1, Carried DEF BootInv, ProcessNames
  <2>3. MessagesAreSeen'
    BY <2>1, SameMessages
  <2> QED
    BY <2>1, <2>2, <2>3 DEF BootInv
<1>2. ASSUME NEW name \in {"priv", "unpriv"},
             \/ \E level \in {"warn", "debug"} : log(name, level)
             \/ \E severity \in {"DEBUG", "MSG", "ERR", "strange"} :
                  tnet_libevent_log(name, severity)
      PROVE  BootInv'
  BY <1>2, LogStep DEF log, tnet_libevent_log, ProcessNames
<1>3. CASE exec \/ options \/ log_init \/ socketpair \/ tnt_daemonize \/ tnt_fork \/ main_close
           \/ tnt_priv_drop_chroot \/ tnt_priv_drop \/ child_loop
  BY <1>3, ExecStep, OptionsStep, LogInitStep, SocketpairStep, DaemonizeStep, ForkStep, CloseStep,
     ChrootStep, DropStep, ReadyStep
<1> QED
  BY <1>1, <1>2, <1>3 DEF BootNext

\* ... and holds at the start
LEMMA BootInvInit == BootInit => BootInv
<1> SUFFICES ASSUME BootInit PROVE BootInv
  OBVIOUS
<1>1. PICK a \in Procs : /\ a = [Gone EXCEPT !.pc = "exec"] /\ a.pc = "exec" /\ a.fds = Gone.fds
                         /\ a.logfd = Gone.logfd /\ a.root = Gone.root /\ a.null = Gone.null
  <2>1. "exec" \in Pcs /\ Gone \in Procs
    BY GoneIs DEF ProcessIs, Pcs, Before, Early
  <2> QED
    BY <2>1, SetPc DEF ProcessIs
<1>2. PICK p \in Procs : /\ p = [a EXCEPT !.holds = Privileges] /\ p.holds = Privileges
                         /\ p.pc = a.pc /\ p.fds = a.fds /\ p.logfd = a.logfd /\ p.root = a.root
                         /\ p.null = a.null
  <2>1. Privileges \in SUBSET Privileges
    OBVIOUS
  <2> QED
    BY <2>1, SetHolds DEF ProcessIs
<1>3. /\ Gone \in Procs /\ Gone.pc = "exited" /\ Gone.logfd = -1 /\ Gone.root = "/"
      /\ ~Gone.null /\ \A d \in Fds : Gone.fds[d] = Free
  BY GoneIs DEF ProcessIs
<1>4. /\ ps \in [ProcessNames -> Procs] /\ ps["priv"] = p /\ ps["unpriv"] = Gone
      /\ dbg = FALSE /\ std = {} /\ said = {}
  BY <1>1, <1>2, <1>3 DEF BootInit, ProcessNames
<1>5. Parent(p)
  BY <1>1, <1>2, <1>3 DEF Parent, Sound, Room, Heard, Released, Piped, Before, Early, Free
<1> QED
  BY <1>1, <1>2, <1>3, <1>4, <1>5, GoneSound DEF BootInv, MessagesAreSeen

\* ... and says what the processes promise.
LEMMA BootInvSetUp == BootInv => ProcessesSetUp
<1> SUFFICES ASSUME BootInv PROVE ProcessesSetUp
  OBVIOUS
<1>1. TerminalReleased
  <2>1. ASSUME NEW name \in {"priv", "unpriv"}, ps[name].null
        PROVE  {d \in Fds : ps[name].fds[d] = "null"} = {0, 1, 2}
    <3>1. Released(ps[name])
      BY <2>1 DEF BootInv, Parent, Child, Sound
    <3>2. \A d \in 0..2 : d \in Fds /\ ps[name].fds[d] = "null"
      BY <2>1, <3>1, BootAssumption DEF Released, Fds
    <3>3. \A d \in Fds : ps[name].fds[d] = "null" => d \in {0, 1, 2}
      BY <3>1 DEF Released, Fds
    <3> QED
      BY <3>2, <3>3
  <2> QED
    BY <2>1 DEF TerminalReleased
<1>2. PipeHasTwoEnds
  <2>1. ASSUME StdOpen, ps["priv"].pc = "loop", ps["unpriv"].pc = "loop"
        PROVE  /\ {name \in {"priv", "unpriv"} :
                      \E d \in Fds : ps[name].fds[d] = "imsg_fds[0]"} = {"priv"}
               /\ {name \in {"priv", "unpriv"} :
                      \E d \in Fds : ps[name].fds[d] = "imsg_fds[1]"} = {"unpriv"}
    BY <2>1 DEF BootInv, Parent, Child, Has, Without
  <2> QED
    BY <2>1 DEF PipeHasTwoEnds
<1>3. ChildDropsAll
  BY DEF BootInv, Child, ChildDropsAll, Privileges
<1> QED
  BY <1>1, <1>2, <1>3 DEF BootInv, ProcessesSetUp

\* However the daemon was started, with or without -d and with any of its
\* standard descriptors closed, and whatever fails on the way: its messages
\* are seen, the terminal is released, the pipe has one end in each process
\* and the child has given up every identity that tnt_priv_drop names.
THEOREM ProcessesCorrect == BootSpec => []ProcessesSetUp
BY BootInvInit, BootInvNext, BootInvSetUp, PTL DEF BootSpec

-----------------------------------------------------------------------------

(* The buffers: IbufCorrect. *)

\* The shapes of a buffer under construction and of one in the queue.
IbufBytes == Seq(0..MaxBytes)
IbufRecs == [mem : IbufBytes, max : Int, wpos : Nat, rpos : {0}]
QueuedRecs == [mem : IbufBytes, wpos : Nat, rpos : Nat, at : Nat]

IbufTypes ==
    /\ ibuf \in IbufRecs /\ content \in IbufBytes
    /\ queue \in Seq(QueuedRecs) /\ queued = Len(queue) /\ draining \in Nat
    /\ closed \in IbufBytes /\ written \in IbufBytes
    /\ put \in 0..MaxBytes
    /\ reply \in [len : Nat, room : Int, ok : BOOLEAN]

\* The buffer under construction holds what was put into it.
ContentInv ==
    /\ ibuf.wpos <= Len(ibuf.mem) /\ Len(content) = ibuf.wpos
    /\ ibuf # NoBuf => Len(ibuf.mem) <= ibuf.max
    /\ \A i \in 1..Len(content) : ibuf.mem[i] = content[i]

\* The buffer b holds the bytes of c behind its place in the stream.
HoldsPart(b, c) ==
    /\ b.rpos <= b.wpos /\ b.wpos = Len(b.mem)
    /\ b.at + b.wpos <= Len(c)
    /\ \A p \in 1..b.wpos : b.mem[p] = c[b.at + p]

\* The buffers q follow each other; only the first one may be cut.
Consecutive(q) ==
    \A i, k \in 1..Len(q) : k = i + 1 =>
        q[k].rpos = 0 /\ q[k].at = q[i].at + q[i].wpos

\* The queue holds the end of what was closed, behind what was written.
QueueInv ==
    /\ \A i \in 1..Len(queue) : HoldsPart(queue[i], closed)
    /\ Consecutive(queue)
    /\ queue # << >> =>
         /\ queue[Len(queue)].at + queue[Len(queue)].wpos = Len(closed)
         /\ queue[1].at + queue[1].rpos + draining = Len(written)
    /\ queue = << >> => Len(written) = Len(closed) /\ draining = 0

\* What was written is the beginning of what was closed.
WriteInv ==
    /\ Len(written) <= Len(closed)
    /\ \A p \in 1..Len(written) : written[p] = closed[p]

IbufInv == IbufTypes /\ ContentInv /\ QueueInv /\ WriteInv /\ LeftIsRoom

----------------------------------------------------------------------------

\* The bounds are numbers.
LEMMA IbufNumbers ==
    /\ \A s \in Sizes : s \in Nat
    /\ IOV_MAX \in Nat /\ IOV_MAX > 0 /\ MaxBufs \in Nat /\ MaxBytes \in Nat
  BY IbufAssumption

\* A buffer of the queue has its fields.
LEMMA QueuedFields ==
    ASSUME NEW q \in Seq(QueuedRecs), NEW i \in 1..Len(q)
    PROVE  /\ q[i] \in QueuedRecs /\ q[i].mem \in IbufBytes
           /\ q[i].wpos \in Nat /\ q[i].rpos \in Nat /\ q[i].at \in Nat
<1>1. q[i] \in QueuedRecs
  BY ElementOfSeq
<1> QED
  BY <1>1 DEF QueuedRecs

\* A buffer under construction has its fields, and NULL has no memory.
LEMMA IbufFields ==
    ASSUME NEW b \in IbufRecs
    PROVE  /\ b.mem \in IbufBytes /\ b.max \in Int /\ b.wpos \in Nat /\ b.rpos = 0
           /\ Len(b.mem) \in Nat
           /\ \A i \in 1..Len(b.mem) : b.mem[i] \in 0..MaxBytes
<1>1. /\ b.mem \in Seq(0..MaxBytes) /\ b.max \in Int /\ b.wpos \in Nat /\ b.rpos = 0
  BY DEF IbufRecs, IbufBytes
<1> QED
  BY <1>1, ElementOfSeq, LenProperties DEF IbufBytes

\* A sequence given by what it is at each place.
LEMMA IbufBuilt ==
    ASSUME NEW n \in Nat, NEW m \in [1..n -> 0..MaxBytes]
    PROVE  m \in IbufBytes /\ Len(m) = n
<1>1. m \in Seq(0..MaxBytes)
  BY SeqDef
<1> QED
  BY <1>1 DEF IbufBytes

\* The bytes of a sequence.
LEMMA IbufElements ==
    ASSUME NEW m \in IbufBytes
    PROVE  /\ Len(m) \in Nat /\ DOMAIN m = 1..Len(m)
           /\ \A i \in 1..Len(m) : m[i] \in 0..MaxBytes
<1>1. m \in Seq(0..MaxBytes)
  BY DEF IbufBytes
<1> QED
  BY <1>1, ElementOfSeq, LenProperties

\* ibuf_open gives memory of the length it is asked for, and nothing in it.
LEMMA OpenGives ==
    ASSUME NEW len \in Nat
    PROVE  /\ ibuf_open(len) \in IbufRecs /\ ibuf_open(len).wpos = 0
           /\ Len(ibuf_open(len).mem) = len /\ ibuf_open(len).max = len
<1>1. /\ [i \in 1..len |-> Junk] \in IbufBytes /\ Len([i \in 1..len |-> Junk]) = len
  <2>1. \A i \in 1..len : Junk \in 0..MaxBytes
    BY IbufNumbers DEF Junk
  <2>2. [i \in 1..len |-> Junk] \in [1..len -> 0..MaxBytes]
    BY <2>1
  <2> QED
    BY <2>2, IbufBuilt
<1> QED
  BY <1>1 DEF ibuf_open, IbufRecs

\* ibuf_dynamic gives NULL, or memory within the limit.
LEMMA DynamicGives ==
    ASSUME NEW len \in Nat, NEW max \in Nat
    PROVE  \/ ibuf_dynamic(len, max) = NoBuf
           \/ /\ ibuf_dynamic(len, max) \in IbufRecs /\ ibuf_dynamic(len, max).wpos = 0
              /\ Len(ibuf_dynamic(len, max).mem) <= ibuf_dynamic(len, max).max
<1>1. CASE max < len
  BY <1>1 DEF ibuf_dynamic
<1>2. CASE ~(max < len)
  <2> DEFINE o == ibuf_open(len)
             m == IF max > 0 THEN max ELSE o.max
  <2>1. /\ o \in IbufRecs /\ o.wpos = 0 /\ Len(o.mem) = len /\ o.max = len
    BY OpenGives
  <2>2. m \in Int /\ len <= m
    BY <1>2, <2>1
  <2>3. ibuf_dynamic(len, max) = [o EXCEPT !.max = m]
    BY <1>2 DEF ibuf_dynamic
  <2> HIDE DEF o, m
  <2>4. /\ [o EXCEPT !.max = m] \in IbufRecs /\ [o EXCEPT !.max = m].wpos = 0
        /\ [o EXCEPT !.max = m].mem = o.mem /\ [o EXCEPT !.max = m].max = m
    BY <2>1, <2>2 DEF IbufRecs
  <2> QED
    BY <2>1, <2>2, <2>3, <2>4
<1> QED
  BY <1>1, <1>2

\* The test before a write: it succeeds exactly when the bytes fit under the
\* limit, and then there is memory for them and the old bytes are still there.
LEMMA FitGives ==
    ASSUME NEW b \in IbufRecs, NEW n \in Nat,
           b.wpos <= Len(b.mem), Len(b.mem) <= b.max
    PROVE  LET r == Fit(b, n)
           IN  /\ r.ok \in BOOLEAN /\ (r.ok <=> n <= ibuf_left(b))
               /\ r.ok => /\ r.buf \in IbufRecs /\ r.buf.wpos = b.wpos /\ r.buf.max = b.max
                          /\ b.wpos + n <= Len(r.buf.mem) /\ Len(r.buf.mem) <= b.max
                          /\ \A i \in 1..b.wpos : r.buf.mem[i] = b.mem[i]
<1>1. /\ b.mem \in IbufBytes /\ b.max \in Int /\ b.wpos \in Nat /\ Len(b.mem) \in Nat
      /\ \A i \in 1..Len(b.mem) : b.mem[i] \in 0..MaxBytes
  BY IbufFields
<1>2. CASE b.wpos + n <= Len(b.mem)
  <2>1. Fit(b, n) = [buf |-> b, ok |-> TRUE]
    BY <1>1, <1>2 DEF Fit
  <2>2. n <= ibuf_left(b)
    BY <1>1, <1>2 DEF ibuf_left
  <2> QED
    BY <1>1, <1>2, <2>1, <2>2
<1>3. CASE b.wpos + n > Len(b.mem) /\ b.wpos + n > b.max
  <2>1. Fit(b, n) = [buf |-> b, ok |-> FALSE]
    BY <1>1, <1>3 DEF Fit, ibuf_realloc
  <2>2. ~(n <= ibuf_left(b))
    BY <1>1, <1>3 DEF ibuf_left
  <2> QED
    BY <2>1, <2>2
<1>4. CASE b.wpos + n > Len(b.mem) /\ ~(b.wpos + n > b.max)
  <2> DEFINE m == Realloc(b.mem, b.wpos + n)
             c == [b EXCEPT !.mem = m]
  <2>1. Fit(b, n) = [buf |-> c, ok |-> TRUE]
    BY <1>1, <1>4 DEF Fit, ibuf_realloc
  <2>2. m \in IbufBytes /\ Len(m) = b.wpos + n /\ \A i \in 1..b.wpos : m[i] = b.mem[i]
    <3> DEFINE N == b.wpos + n
    <3>1. N \in Nat
      BY <1>1
    <3>2. \A i \in 1..N : (IF i <= Len(b.mem) THEN b.mem[i] ELSE Junk) \in 0..MaxBytes
      BY <1>1, <3>1, IbufNumbers DEF Junk
    <3>3. m = [i \in 1..N |-> IF i <= Len(b.mem) THEN b.mem[i] ELSE Junk]
      BY DEF Realloc
    <3>4. m \in [1..N -> 0..MaxBytes]
      BY <3>2, <3>3
    <3>5. m \in IbufBytes /\ Len(m) = N
      BY <3>1, <3>4, IbufBuilt
    <3>6. \A i \in 1..b.wpos : i \in 1..N /\ i <= Len(b.mem)
      BY <1>1
    <3> QED
      BY <3>3, <3>5, <3>6
  <2> HIDE DEF m
  <2>3. /\ c \in IbufRecs /\ c.wpos = b.wpos /\ c.max = b.max /\ c.mem = m
    BY <2>2 DEF IbufRecs
  <2>4. n <= ibuf_left(b)
    BY <1>1, <1>4 DEF ibuf_left
  <2>5. b.wpos + n <= Len(m) /\ Len(m) <= b.max
    BY <1>1, <1>4, <2>2
  <2> HIDE DEF c
  <2> QED
    BY <2>1, <2>2, <2>3, <2>4, <2>5
<1> QED
  BY <1>1, <1>2, <1>3, <1>4

\* memcpy changes the bytes it is told to, and nothing else.
LEMMA StoreGives ==
    ASSUME NEW b \in IbufRecs, NEW pos \in Nat, NEW new \in IbufBytes
    PROVE  LET s == Store(b, pos, new)
           IN  /\ s \in IbufRecs /\ s.wpos = b.wpos /\ s.max = b.max
               /\ Len(s.mem) = Len(b.mem)
               /\ \A i \in 1..Len(b.mem) :
                    s.mem[i] = IF i - pos \in 1..Len(new) THEN new[i - pos] ELSE b.mem[i]
<1>1. /\ b.mem \in IbufBytes /\ Len(b.mem) \in Nat /\ DOMAIN b.mem = 1..Len(b.mem)
      /\ \A i \in 1..Len(b.mem) : b.mem[i] \in 0..MaxBytes
  BY IbufFields, IbufElements
<1>2. /\ DOMAIN new = 1..Len(new) /\ \A i \in 1..Len(new) : new[i] \in 0..MaxBytes
  BY IbufElements
<1> DEFINE m == [i \in 1..Len(b.mem) |->
                   IF i - pos \in 1..Len(new) THEN new[i - pos] ELSE b.mem[i]]
<1>3. m \in IbufBytes /\ Len(m) = Len(b.mem)
  <2>1. m \in [1..Len(b.mem) -> 0..MaxBytes]
    BY <1>1, <1>2
  <2> QED
    BY <1>1, <2>1, IbufBuilt
<1>4. Store(b, pos, new) = [b EXCEPT !.mem = m]
  BY <1>1, <1>2 DEF Store
<1>5. \A i \in 1..Len(b.mem) :
         m[i] = IF i - pos \in 1..Len(new) THEN new[i - pos] ELSE b.mem[i]
  OBVIOUS
<1> HIDE DEF m
<1>6. /\ [b EXCEPT !.mem = m] \in IbufRecs /\ [b EXCEPT !.mem = m].wpos = b.wpos
      /\ [b EXCEPT !.mem = m].max = b.max /\ [b EXCEPT !.mem = m].mem = m
  BY <1>3 DEF IbufRecs
<1> QED
  BY <1>3, <1>4, <1>5, <1>6

\* The bytes that a caller produces.
LEMMA NewBytesAre ==
    ASSUME NEW n \in Nat, put \in 0..MaxBytes, put + n <= MaxBytes
    PROVE  /\ NewBytes(n) \in IbufBytes /\ Len(NewBytes(n)) = n
           /\ \A i \in 1..n : NewBytes(n)[i] = put + i
<1>1. \A i \in 1..n : put + i \in 0..MaxBytes
  BY IbufNumbers
<1>2. NewBytes(n) \in [1..n -> 0..MaxBytes]
  BY <1>1 DEF NewBytes
<1> QED
  BY <1>2, IbufBuilt DEF NewBytes

----------------------------------------------------------------------------

\* A step that leaves the queue and the stream alone keeps what is said of them.
LEMMA QueueKept ==
    ASSUME QueueInv, WriteInv, UNCHANGED <<queue, queued, draining, closed, written>>
    PROVE  QueueInv' /\ WriteInv'
  BY DEF QueueInv, WriteInv

\* A new buffer is empty.
LEMMA NewBufferStep ==
    ASSUME IbufInv, NEW b \in IbufRecs, b.wpos = 0,
           b # NoBuf => Len(b.mem) <= b.max, new_buffer(b)
    PROVE  IbufInv'
<1>1. /\ ibuf' = b /\ content' = << >> /\ reply' = NoReply
      /\ UNCHANGED <<queue, queued, draining, closed, written, put>>
  BY DEF new_buffer
<1>2. IbufTypes'
  BY <1>1 DEF IbufInv, IbufTypes, IbufBytes, NoReply
<1>3. ContentInv'
  <2>1. Len(b.mem) \in Nat
    BY IbufFields
  <2>2. Len(<< >>) = 0 /\ 1..Len(<< >>) = {}
    OBVIOUS
  <2> QED
    BY <1>1, <2>1, <2>2 DEF ContentInv
<1>4. LeftIsRoom'
  BY <1>1 DEF LeftIsRoom, NoReply
<1> QED
  BY <1>1, <1>2, <1>3, <1>4, QueueKept DEF IbufInv

\* NULL is what a buffer is before it is there.
LEMMA NoBufIs == NoBuf \in IbufRecs /\ NoBuf.wpos = 0 /\ NoBuf.rpos = 0 /\ NoBuf.mem = << >>
  BY DEF NoBuf, IbufRecs, IbufBytes

\* Freeing a buffer drops what was in it.
LEMMA FreeStep ==
    ASSUME IbufInv, ibuf_free
    PROVE  IbufInv'
<1>1. /\ ibuf' = NoBuf /\ content' = << >> /\ reply' = NoReply
      /\ UNCHANGED <<queue, queued, draining, closed, written, put>>
  BY DEF ibuf_free
<1>2. IbufTypes'
  BY <1>1, NoBufIs DEF IbufInv, IbufTypes, IbufBytes, NoReply
<1>3. ContentInv'
  <2>1. Len(<< >>) = 0 /\ 1..Len(<< >>) = {}
    OBVIOUS
  <2> QED
    BY <1>1, <2>1, NoBufIs DEF ContentInv
<1>4. LeftIsRoom'
  BY <1>1 DEF LeftIsRoom, NoReply
<1> QED
  BY <1>1, <1>2, <1>3, <1>4, QueueKept DEF IbufInv

\* ibuf_add appends, or refuses and changes nothing.
LEMMA AddStep ==
    ASSUME IbufInv, NEW n \in Nat, ibuf_add(n)
    PROVE  IbufInv'
<1> DEFINE r == Fit(ibuf, n)
           new == NewBytes(n)
           s == Store(r.buf, ibuf.wpos, new)
<1>1. /\ ibuf \in IbufRecs /\ content \in IbufBytes /\ put \in 0..MaxBytes
      /\ ibuf.wpos <= Len(ibuf.mem) /\ Len(ibuf.mem) <= ibuf.max /\ put + n <= MaxBytes
      /\ Len(content) = ibuf.wpos /\ \A i \in 1..Len(content) : ibuf.mem[i] = content[i]
  BY DEF IbufInv, IbufTypes, ContentInv, ibuf_add
<1>2. /\ reply' = [len |-> n, room |-> ibuf_left(ibuf), ok |-> r.ok]
      /\ UNCHANGED <<queue, queued, draining, closed, written>>
  BY DEF ibuf_add
<1>3. /\ r.ok \in BOOLEAN /\ (r.ok <=> n <= ibuf_left(ibuf))
      /\ r.ok => /\ r.buf \in IbufRecs /\ r.buf.wpos = ibuf.wpos /\ r.buf.max = ibuf.max
                 /\ ibuf.wpos + n <= Len(r.buf.mem) /\ Len(r.buf.mem) <= ibuf.max
                 /\ \A i \in 1..ibuf.wpos : r.buf.mem[i] = ibuf.mem[i]
  BY <1>1, FitGives
<1>4. ibuf_left(ibuf) \in Int /\ ibuf.wpos \in Nat /\ Len(ibuf.mem) \in Nat
  BY <1>1, IbufFields DEF ibuf_left
<1>5. LeftIsRoom'
  BY <1>2, <1>3 DEF LeftIsRoom
<1>6. reply' \in [len : Nat, room : Int, ok : BOOLEAN]
  BY <1>2, <1>3, <1>4
<1>7. CASE ~r.ok
  <2>1. UNCHANGED <<ibuf, content, put>>
    BY <1>7 DEF ibuf_add
  <2>2. IbufTypes'
    BY <1>2, <1>6, <2>1 DEF IbufInv, IbufTypes
  <2>3. ContentInv'
    BY <2>1 DEF IbufInv, ContentInv
  <2> QED
    BY <1>2, <1>5, <2>2, <2>3, QueueKept DEF IbufInv
<1>8. CASE r.ok
  <2>1. /\ ibuf' = [s EXCEPT !.wpos = @ + n]
        /\ content' = content \o new /\ put' = put + n
    BY <1>8 DEF ibuf_add
  <2>2. new \in IbufBytes /\ Len(new) = n
    BY <1>1, NewBytesAre
  <2>3. /\ r.buf \in IbufRecs /\ r.buf.wpos = ibuf.wpos /\ r.buf.max = ibuf.max
        /\ ibuf.wpos + n <= Len(r.buf.mem) /\ Len(r.buf.mem) <= ibuf.max
        /\ \A i \in 1..ibuf.wpos : r.buf.mem[i] = ibuf.mem[i]
    BY <1>3, <1>8
  <2> HIDE DEF r, new
  <2>4. /\ s \in IbufRecs /\ s.wpos = ibuf.wpos /\ s.max = ibuf.max
        /\ Len(s.mem) = Len(r.buf.mem)
        /\ \A i \in 1..Len(r.buf.mem) :
             s.mem[i] = IF i - ibuf.wpos \in 1..Len(new) THEN new[i - ibuf.wpos]
                        ELSE r.buf.mem[i]
    BY <1>4, <2>2, <2>3, StoreGives
  <2> HIDE DEF s
  <2>5. /\ [s EXCEPT !.wpos = @ + n] \in IbufRecs /\ ibuf'.wpos = ibuf.wpos + n
        /\ ibuf'.max = ibuf.max /\ ibuf'.mem = s.mem
    BY <1>4, <2>1, <2>4 DEF IbufRecs
  <2>6. /\ content \o new \in IbufBytes /\ Len(content \o new) = ibuf.wpos + n
        /\ \A i \in 1..(ibuf.wpos + n) :
             (content \o new)[i] = IF i <= ibuf.wpos THEN content[i] ELSE new[i - ibuf.wpos]
    <3>1. content \in Seq(0..MaxBytes) /\ new \in Seq(0..MaxBytes)
      BY <1>1, <2>2 DEF IbufBytes
    <3>2. /\ content \o new \in Seq(0..MaxBytes) /\ Len(content \o new) = Len(content) + Len(new)
          /\ \A i \in 1..(Len(content) + Len(new)) :
               (content \o new)[i] = IF i <= Len(content) THEN content[i] ELSE new[i - Len(content)]
      BY <3>1, ConcatProperties
    <3> QED
      BY <1>1, <2>2, <3>2 DEF IbufBytes
  <2>7. IbufTypes'
    <3>1. put' \in 0..MaxBytes
      BY <1>1, <2>1, IbufNumbers
    <3> QED
      BY <1>2, <1>6, <2>1, <2>5, <2>6, <3>1 DEF IbufInv, IbufTypes
  <2>8. ASSUME NEW i \in 1..(ibuf.wpos + n)
        PROVE  s.mem[i] = (content \o new)[i]
    <3>0. /\ i \in 1..Len(r.buf.mem) /\ Len(r.buf.mem) \in Nat
      BY <1>4, <2>3, IbufFields
    <3>1. CASE i <= ibuf.wpos
      <4>1. i \in 1..Len(content) /\ ~(i - ibuf.wpos \in 1..Len(new))
        BY <1>1, <1>4, <2>2, <3>1
      <4>2. s.mem[i] = content[i]
        BY <1>1, <2>3, <2>4, <3>0, <4>1
      <4>3. (content \o new)[i] = content[i]
        BY <2>6, <3>1
      <4> QED
        BY <4>2, <4>3
    <3>2. CASE i > ibuf.wpos
      <4>1. i - ibuf.wpos \in 1..Len(new)
        BY <1>4, <2>2, <3>2
      <4>2. s.mem[i] = new[i - ibuf.wpos]
        BY <2>4, <3>0, <4>1
      <4>3. (content \o new)[i] = new[i - ibuf.wpos]
        BY <1>4, <2>6, <3>2
      <4> QED
        BY <4>2, <4>3
    <3>3. i <= ibuf.wpos \/ i > ibuf.wpos
      BY <1>4
    <3> QED
      BY ONLY <3>1, <3>2, <3>3
  <2>9. ContentInv'
    BY <1>4, <2>1, <2>3, <2>4, <2>5, <2>6, <2>8 DEF ContentInv
  <2> QED
    BY <1>2, <1>5, <2>7, <2>9, QueueKept DEF IbufInv
<1> QED
  BY <1>3, <1>7, <1>8

\* ibuf_seek gives its caller bytes that were put, which the caller replaces.
LEMMA SeekStep ==
    ASSUME IbufInv, NEW pos \in Nat, NEW n \in Nat, ibuf_seek(pos, n)
    PROVE  IbufInv'
<1> DEFINE new == NewBytes(n)
           s == Store(ibuf, pos, new)
           c == [i \in DOMAIN content |-> IF i - pos \in 1..n THEN put + i - pos ELSE content[i]]
<1>1. /\ ibuf \in IbufRecs /\ content \in IbufBytes /\ put \in 0..MaxBytes
      /\ ibuf # NoBuf /\ ibuf.wpos <= Len(ibuf.mem) /\ Len(ibuf.mem) <= ibuf.max
      /\ put + n <= MaxBytes /\ Len(content) = ibuf.wpos
      /\ \A i \in 1..Len(content) : ibuf.mem[i] = content[i]
  BY DEF IbufInv, IbufTypes, ContentInv, ibuf_seek
<1>2. /\ ibuf' = s /\ content' = c /\ put' = put + n /\ reply' = NoReply
      /\ UNCHANGED <<queue, queued, draining, closed, written>>
  BY DEF ibuf_seek
<1>3. /\ new \in IbufBytes /\ Len(new) = n /\ \A i \in 1..n : new[i] = put + i
  BY <1>1, NewBytesAre
<1>4. /\ DOMAIN content = 1..Len(content) /\ Len(content) \in Nat
      /\ \A i \in 1..Len(content) : content[i] \in 0..MaxBytes
  BY <1>1, IbufElements
<1>5. c \in IbufBytes /\ Len(c) = Len(content)
  <2>1. \A i \in 1..Len(content) : i - pos \in 1..n => put + i - pos \in 0..MaxBytes
    BY <1>1, <1>4, IbufNumbers
  <2>2. c \in [1..Len(content) -> 0..MaxBytes]
    BY <1>4, <2>1
  <2> QED
    BY <1>4, <2>2, IbufBuilt
<1> HIDE DEF new
<1>6. /\ s \in IbufRecs /\ s.wpos = ibuf.wpos /\ s.max = ibuf.max
      /\ Len(s.mem) = Len(ibuf.mem)
      /\ \A i \in 1..Len(ibuf.mem) :
           s.mem[i] = IF i - pos \in 1..Len(new) THEN new[i - pos] ELSE ibuf.mem[i]
  BY <1>1, <1>3, StoreGives
<1> HIDE DEF s
<1>7. ASSUME NEW i \in 1..Len(content)
      PROVE  s.mem[i] = c[i]
  <2>1. i \in 1..Len(ibuf.mem) /\ i \in DOMAIN content
    BY <1>1, <1>4, IbufFields
  <2>2. CASE i - pos \in 1..n
    <3>1. s.mem[i] = put + (i - pos)
      BY <1>3, <1>6, <2>1, <2>2
    <3>2. c[i] = put + i - pos
      BY <2>1, <2>2
    <3> QED
      BY <1>1, <3>1, <3>2
  <2>3. CASE ~(i - pos \in 1..n)
    BY <1>1, <1>3, <1>6, <2>1, <2>3
  <2> QED
    BY <2>2, <2>3
<1> HIDE DEF c
<1>8. IbufTypes'
  <2>1. put' \in 0..MaxBytes
    BY <1>1, <1>2, IbufNumbers
  <2> QED
    BY <1>2, <1>5, <1>6, <2>1 DEF IbufInv, IbufTypes, NoReply
<1>9. ContentInv'
  BY <1>1, <1>2, <1>5, <1>6, <1>7 DEF ContentInv
<1>10. LeftIsRoom'
  BY <1>2 DEF LeftIsRoom, NoReply
<1> QED
  BY <1>2, <1>8, <1>9, <1>10, QueueKept DEF IbufInv

\* Bytes that are closed later do not move the ones closed before.
LEMMA HoldsMore ==
    ASSUME NEW b \in QueuedRecs, NEW c \in IbufBytes, NEW d \in IbufBytes, HoldsPart(b, c)
    PROVE  HoldsPart(b, c \o d)
<1>1. b.at \in Nat /\ b.wpos \in Nat /\ b.rpos \in Nat
  BY DEF QueuedRecs
<1>2. c \in Seq(0..MaxBytes) /\ d \in Seq(0..MaxBytes) /\ Len(c) \in Nat /\ Len(d) \in Nat
  BY IbufElements DEF IbufBytes
<1>3. /\ Len(c \o d) = Len(c) + Len(d)
      /\ \A i \in 1..Len(c) : (c \o d)[i] = c[i]
  BY <1>2, ConcatProperties
<1>4. b.at + b.wpos <= Len(c \o d)
  BY <1>1, <1>2, <1>3 DEF HoldsPart
<1>5. ASSUME NEW p \in 1..b.wpos
      PROVE  b.mem[p] = (c \o d)[b.at + p]
  <2>1. b.at + p \in 1..Len(c)
    BY <1>1, <1>2 DEF HoldsPart
  <2> QED
    BY <1>3, <2>1 DEF HoldsPart
<1> QED
  BY <1>4, <1>5 DEF HoldsPart

\* A closed buffer is the last one of the queue and of the stream.
LEMMA IbufCloseStep ==
    ASSUME IbufInv, ibuf_close
    PROVE  IbufInv'
<1> DEFINE m == SubSeq(ibuf.mem, 1, ibuf_size(ibuf))
           e == [mem |-> m, wpos |-> ibuf.wpos, rpos |-> ibuf.rpos, at |-> Len(closed)]
           c == closed \o content
           q == Append(queue, e)
           L == Len(queue)
<1>1. /\ ibuf \in IbufRecs /\ content \in IbufBytes /\ queue \in Seq(QueuedRecs)
      /\ closed \in IbufBytes /\ queued = L /\ draining = 0
      /\ ibuf.wpos <= Len(ibuf.mem) /\ Len(content) = ibuf.wpos
      /\ \A i \in 1..Len(content) : ibuf.mem[i] = content[i]
  BY DEF IbufInv, IbufTypes, ContentInv, ibuf_close
<1>2. /\ queue' = q /\ queued' = queued + 1 /\ closed' = c
      /\ ibuf' = NoBuf /\ content' = << >> /\ reply' = NoReply
      /\ UNCHANGED <<draining, written, put>>
  BY DEF ibuf_close, ibuf_enqueue
<1>3. /\ ibuf.mem \in Seq(0..MaxBytes) /\ ibuf.wpos \in Nat /\ Len(ibuf.mem) \in Nat
      /\ ibuf.rpos = 0 /\ Len(closed) \in Nat /\ L \in Nat
      /\ closed \in Seq(0..MaxBytes) /\ content \in Seq(0..MaxBytes)
  BY <1>1, IbufFields, IbufElements, LenProperties DEF IbufBytes
<1>4. m \in IbufBytes /\ Len(m) = ibuf.wpos /\ \A i \in 1..ibuf.wpos : m[i] = content[i]
  <2>1. /\ m \in Seq(0..MaxBytes) /\ Len(m) = ibuf.wpos
        /\ \A i \in 1..ibuf.wpos : m[i] = ibuf.mem[i]
    <3>1. m = SubSeq(ibuf.mem, 1, ibuf.wpos) /\ ibuf.wpos \in 0..Len(ibuf.mem)
      BY <1>1, <1>3 DEF ibuf_size
    <3> HIDE DEF m
    <3>2. \A i \in 1..ibuf.wpos : ibuf.mem[i] \in 0..MaxBytes
      BY <1>1, <1>3, IbufFields
    <3>3. /\ m \in Seq(0..MaxBytes)
          /\ Len(m) = IF 1 <= ibuf.wpos THEN ibuf.wpos - 1 + 1 ELSE 0
          /\ \A i \in 1..(ibuf.wpos - 1 + 1) : m[i] = ibuf.mem[1 + i - 1]
      BY <1>3, <3>1, <3>2, SubSeqProperties
    <3>4. /\ ibuf.wpos - 1 + 1 = ibuf.wpos
          /\ (IF 1 <= ibuf.wpos THEN ibuf.wpos - 1 + 1 ELSE 0) = ibuf.wpos
          /\ \A i \in 1..ibuf.wpos : 1 + i - 1 = i
      BY <1>3
    <3> QED
      BY <3>3, <3>4
  <2> QED
    BY <1>1, <2>1 DEF IbufBytes
<1> HIDE DEF m
<1>5. /\ e \in QueuedRecs /\ e.mem = m /\ e.wpos = ibuf.wpos /\ e.rpos = 0
      /\ e.at = Len(closed)
  BY <1>3, <1>4 DEF QueuedRecs
<1> HIDE DEF e
<1>6. /\ c \in IbufBytes /\ Len(c) = Len(closed) + ibuf.wpos
      /\ \A i \in 1..ibuf.wpos : c[Len(closed) + i] = content[i]
      /\ \A i \in 1..Len(closed) : c[i] = closed[i]
  <2>1. /\ c \in Seq(0..MaxBytes) /\ Len(c) = Len(closed) + Len(content)
        /\ \A i \in 1..Len(closed) : c[i] = closed[i]
    BY <1>3, ConcatProperties
  <2>2. \A i \in 1..Len(content) : c[Len(closed) + i] = content[i]
    BY <1>3
  <2> QED
    BY <1>1, <2>1, <2>2 DEF IbufBytes
<1>7. /\ q \in Seq(QueuedRecs) /\ Len(q) = L + 1 /\ q[L + 1] = e
      /\ \A i \in 1..L : q[i] = queue[i]
  BY <1>1, <1>5, AppendProperties
<1>8. IbufTypes'
  BY <1>1, <1>2, <1>3, <1>6, <1>7, NoBufIs DEF IbufInv, IbufTypes, IbufBytes, NoReply
<1>9. ContentInv'
  <2>1. Len(<< >>) = 0 /\ 1..Len(<< >>) = {}
    OBVIOUS
  <2> QED
    BY <1>2, <2>1, NoBufIs DEF ContentInv
<1>10. \A i \in 1..Len(q) : HoldsPart(q[i], c)
  <2>1. HoldsPart(e, c)
    BY <1>3, <1>4, <1>5, <1>6 DEF HoldsPart
  <2>2. ASSUME NEW i \in 1..L
        PROVE  HoldsPart(q[i], c)
    <3>1. HoldsPart(queue[i], closed)
      BY DEF IbufInv, QueueInv
    <3>2. queue[i] \in QueuedRecs
      BY <1>1, QueuedFields
    <3> QED
      BY <1>1, <1>7, <3>1, <3>2, HoldsMore
  <2>3. \A i \in 1..(L + 1) : i \in 1..L \/ i = L + 1
    BY <1>3
  <2> QED
    BY <1>7, <2>1, <2>2, <2>3
<1>11. Consecutive(q)
  <2> SUFFICES ASSUME NEW i \in 1..Len(q), NEW k \in 1..Len(q), k = i + 1
               PROVE  q[k].rpos = 0 /\ q[k].at = q[i].at + q[i].wpos
    BY DEF Consecutive
  <2>1. i \in 1..L /\ q[i] = queue[i]
    BY <1>3, <1>7
  <2>2. CASE k \in 1..L
    <3>1. queue[k].rpos = 0 /\ queue[k].at = queue[i].at + queue[i].wpos
      BY <2>1, <2>2 DEF IbufInv, QueueInv, Consecutive
    <3> QED
      BY <1>7, <2>1, <2>2, <3>1
  <2>3. CASE k = L + 1
    <3>1. i = L /\ queue # << >>
      BY <1>1, <1>3, <2>1, <2>3
    <3>2. queue[L].at + queue[L].wpos = Len(closed)
      BY <3>1 DEF IbufInv, QueueInv
    <3> QED
      BY <1>5, <1>7, <2>1, <2>3, <3>1, <3>2
  <2>4. k \in 1..L \/ k = L + 1
    BY <1>3, <1>7
  <2> QED
    BY <2>2, <2>3, <2>4
<1>12. QueueInv'
  <2>1. q # << >>
    <3>1. Len(q) # 0
      BY <1>3, <1>7
    <3> QED
      BY <3>1
  <2>2. q[Len(q)].at + q[Len(q)].wpos = Len(c)
    BY <1>5, <1>6, <1>7
  <2>3. q[1].at + q[1].rpos + draining = Len(written)
    <3>1. CASE queue = << >>
      <4>1. q[1] = e /\ Len(written) = Len(closed)
        BY <1>7, <3>1 DEF IbufInv, QueueInv
      <4> QED
        BY <1>1, <1>3, <1>5, <4>1
    <3>2. CASE queue # << >>
      <4>1. 1 \in 1..L
        BY <1>1, <1>3, <3>2
      <4> QED
        BY <1>7, <3>2, <4>1 DEF IbufInv, QueueInv
    <3> QED
      BY <3>1, <3>2
  <2> QED
    BY <1>2, <1>10, <1>11, <2>1, <2>2, <2>3 DEF QueueInv
<1>13. WriteInv'
  <2>1. Len(written) \in Nat
    BY IbufElements DEF IbufInv, IbufTypes
  <2> QED
    BY <1>2, <1>3, <1>6, <2>1 DEF IbufInv, WriteInv
<1>14. LeftIsRoom'
  BY <1>2 DEF LeftIsRoom, NoReply
<1> QED
  BY <1>8, <1>9, <1>12, <1>13, <1>14 DEF IbufInv

\* The j-th byte for writev is the j-th of the stream that was not written.
LEMMA IovByteIs ==
    ASSUME IbufInv, draining = 0, NEW I \in 1..Len(queue),
           NEW j \in Nat, j > 0, j <= Unwritten(I)
    PROVE  /\ Len(written) + j <= Len(closed)
           /\ IovByte(j) = closed[Len(written) + j]
<1> DEFINE S == {k \in DOMAIN queue : Unwritten(k) >= j}
<1>1. /\ queue \in Seq(QueuedRecs) /\ DOMAIN queue = 1..Len(queue) /\ Len(queue) \in Nat
      /\ Len(written) \in Nat /\ Len(closed) \in Nat /\ queue # << >>
  BY IbufElements, LenProperties DEF IbufInv, IbufTypes
<1>2. \A i \in 1..Len(queue) :
         /\ queue[i].at \in Nat /\ queue[i].wpos \in Nat /\ queue[i].rpos \in Nat
         /\ HoldsPart(queue[i], closed)
  BY <1>1, QueuedFields DEF IbufInv, QueueInv
<1>3. queue[1].at + queue[1].rpos = Len(written) /\ 1 \in 1..Len(queue)
  <2>1. 1 \in 1..Len(queue)
    BY <1>1
  <2>2. queue[1].at + queue[1].rpos + draining = Len(written)
    BY <1>1 DEF IbufInv, QueueInv
  <2> QED
    BY <1>2, <2>1, <2>2
<1>4. ASSUME NEW i \in 1..Len(queue)
      PROVE  Unwritten(i) = queue[i].at + queue[i].wpos - Len(written)
  <2>1. i # 0
    BY <1>1
  <2>2. Unwritten(i) = (queue[i].at + queue[i].wpos) - (queue[1].at + queue[1].rpos)
    BY <2>1 DEF Unwritten
  <2>3. /\ queue[i].at \in Nat /\ queue[i].wpos \in Nat
        /\ queue[1].at \in Nat /\ queue[1].rpos \in Nat
    BY <1>2, <1>3
  <2> QED
    BY <1>3, <2>2, <2>3
<1>5. I \in S
  <2>1. Unwritten(I) \in Int
    BY <1>1, <1>2, <1>4
  <2> QED
    BY <1>1, <2>1
<1>6. PICK i \in S : \A k \in S : i <= k
  <2>1. S \subseteq Nat
    BY <1>1
  <2> HIDE DEF S
  <2> QED
    BY <1>5, <2>1, LeastNumber
<1>7. /\ i \in 1..Len(queue) /\ Unwritten(i) >= j
      /\ \A k \in 1..Len(queue) : Unwritten(k) >= j => i <= k
  BY <1>1, <1>6
<1>8. Min(S) = i
  <2>1. \A x \in S : (\A y \in S : x <= y) => x = i
    BY <1>1, <1>6
  <2> HIDE DEF S
  <2> QED
    BY <1>6, <2>1 DEF Min
<1>9. IovByte(j) = queue[i].mem[queue[i].rpos + (j - Unwritten(i - 1))]
  BY <1>8 DEF IovByte
<1>10. /\ Unwritten(i - 1) < j
       /\ queue[i].at + queue[i].rpos = Len(written) + Unwritten(i - 1)
       /\ Unwritten(i - 1) \in Int
  <2>1. CASE i = 1
    <3>1. Unwritten(i - 1) = 0
      BY <2>1 DEF Unwritten
    <3> QED
      BY <1>1, <1>3, <2>1, <3>1
  <2>2. CASE i # 1
    <3>1. PICK h \in 1..Len(queue) : i = h + 1 /\ i - 1 = h
      <4>1. i - 1 \in 1..Len(queue) /\ i = (i - 1) + 1
        BY <1>1, <1>7, <2>2
      <4> QED
        BY <4>1
    <3>2. queue[i].rpos = 0 /\ queue[i].at = queue[h].at + queue[h].wpos
      BY <1>7, <3>1 DEF IbufInv, QueueInv, Consecutive
    <3>3. Unwritten(h) = queue[h].at + queue[h].wpos - Len(written)
      BY <1>4
    <3>4. ~(Unwritten(h) >= j)
      BY <1>7, <3>1
    <3>5. queue[h].at \in Nat /\ queue[h].wpos \in Nat
      BY <1>2
    <3> QED
      BY <1>1, <3>1, <3>2, <3>3, <3>4, <3>5
  <2> QED
    BY <2>1, <2>2
<1>11. /\ queue[i].at \in Nat /\ queue[i].wpos \in Nat /\ queue[i].rpos \in Nat
       /\ HoldsPart(queue[i], closed)
       /\ Unwritten(i) = queue[i].at + queue[i].wpos - Len(written)
  BY <1>2, <1>4, <1>7
<1>12. PICK p \in Int : p = queue[i].rpos + (j - Unwritten(i - 1))
  BY <1>10, <1>11
<1>13. p \in 1..queue[i].wpos /\ queue[i].at + p = Len(written) + j
  <2>1. PICK u \in Int : u = Unwritten(i - 1)
    BY <1>10
  <2>2. /\ u < j /\ queue[i].at + queue[i].rpos = Len(written) + u
        /\ p = queue[i].rpos + (j - u)
        /\ queue[i].at + queue[i].wpos - Len(written) >= j
    BY <1>7, <1>10, <1>11, <1>12, <2>1
  <2>3. /\ queue[i].at \in Nat /\ queue[i].wpos \in Nat /\ queue[i].rpos \in Nat
        /\ Len(written) \in Nat /\ j \in Nat
    BY <1>1, <1>11
  <2> QED
    <3>1. PICK a \in Nat, w \in Nat, r \in Nat, t \in Nat :
             a = queue[i].at /\ w = queue[i].wpos /\ r = queue[i].rpos /\ t = Len(written)
      BY <2>3
    <3>2. u < j /\ a + r = t + u /\ p = r + (j - u) /\ a + w - t >= j
      BY <2>2, <3>1
    <3>3. p \in 1..w /\ a + p = t + j
      BY <3>2
    <3> QED
      BY <3>1, <3>3
<1>14. IovByte(j) = closed[Len(written) + j]
  <2>1. queue[i].mem[p] = closed[queue[i].at + p]
    BY <1>11, <1>13 DEF HoldsPart
  <2> QED
    BY <1>9, <1>12, <1>13, <2>1
<1>15. Len(written) + j <= Len(closed)
  BY <1>1, <1>11, <1>13 DEF HoldsPart
<1> QED
  BY <1>14, <1>15

\* Outside msgbuf_drain, writev takes bytes of the stream that were not written.
LEMMA WritevStep ==
    ASSUME IbufInv, NEW n \in Nat, ibuf_write(n)
    PROVE  IbufInv'
<1> DEFINE w == [j \in 1..n |-> IovByte(j)]
<1>1. /\ draining = 0 /\ n \in 1..Unwritten(Iovs)
      /\ written' = written \o w /\ draining' = n /\ reply' = NoReply
      /\ UNCHANGED <<ibuf, content, queue, queued, closed, put>>
  BY DEF ibuf_write
<1>2. /\ queue \in Seq(QueuedRecs) /\ Len(queue) \in Nat /\ Len(written) \in Nat
      /\ Len(closed) \in Nat /\ closed \in IbufBytes /\ written \in IbufBytes
  BY IbufElements, LenProperties DEF IbufInv, IbufTypes
<1>3. Iovs \in 1..Len(queue)
  <2>1. Iovs \in 0..Len(queue)
    BY <1>2, IbufNumbers DEF Iovs
  <2>2. Iovs # 0
    <3>1. Unwritten(0) = 0
      BY DEF Unwritten
    <3>2. 1..0 = {}
      OBVIOUS
    <3> QED
      BY <1>1, <3>1, <3>2
  <2> QED
    BY <1>2, <2>1, <2>2
<1>4. ASSUME NEW j \in 1..n
      PROVE  Len(written) + j <= Len(closed) /\ IovByte(j) = closed[Len(written) + j]
  <2>1. j \in Nat /\ j > 0 /\ j <= Unwritten(Iovs)
    <3>1. Unwritten(Iovs) \in Int
      <4>1. 1 \in 1..Len(queue)
        BY <1>3, <1>2
      <4>2. /\ queue[Iovs].at \in Nat /\ queue[Iovs].wpos \in Nat
            /\ queue[1].at \in Nat /\ queue[1].rpos \in Nat
        BY <1>2, <1>3, <4>1, QueuedFields
      <4> QED
        BY <1>3, <4>2 DEF Unwritten
    <3> QED
      BY <1>1, <3>1
  <2> QED
    BY <1>1, <1>3, <2>1, IovByteIs
<1>5. Len(written) + n <= Len(closed) /\ n > 0
  <2>1. n \in 1..n
    BY <1>1
  <2> QED
    BY <1>4, <2>1
<1>6. w \in IbufBytes /\ Len(w) = n /\ \A j \in 1..n : w[j] = closed[Len(written) + j]
  <2>1. \A j \in 1..n : closed[Len(written) + j] \in 0..MaxBytes
    <3>1. \A j \in 1..n : Len(written) + j \in 1..Len(closed)
      BY <1>2, <1>5
    <3> QED
      BY <1>2, <3>1, IbufElements
  <2>2. w \in [1..n -> 0..MaxBytes]
    BY <1>4, <2>1
  <2> QED
    BY <1>4, <2>2, IbufBuilt
<1> HIDE DEF w
<1>7. /\ written \o w \in IbufBytes /\ Len(written \o w) = Len(written) + n
      /\ \A p \in 1..(Len(written) + n) :
           (written \o w)[p] = IF p <= Len(written) THEN written[p] ELSE w[p - Len(written)]
  <2>1. written \in Seq(0..MaxBytes) /\ w \in Seq(0..MaxBytes)
    BY <1>2, <1>6 DEF IbufBytes
  <2>2. /\ written \o w \in Seq(0..MaxBytes) /\ Len(written \o w) = Len(written) + Len(w)
        /\ \A p \in 1..(Len(written) + Len(w)) :
             (written \o w)[p] = IF p <= Len(written) THEN written[p] ELSE w[p - Len(written)]
    BY <2>1, ConcatProperties
  <2> QED
    BY <1>6, <2>2 DEF IbufBytes
<1>8. IbufTypes'
  BY <1>1, <1>7 DEF IbufInv, IbufTypes, NoReply
<1>9. ContentInv'
  BY <1>1 DEF IbufInv, ContentInv
<1>10. QueueInv'
  <2>1. queue # << >>
    BY <1>2, <1>3
  <2>2. queue[1].at + queue[1].rpos + n = Len(written) + n
    <3>1. 1 \in 1..Len(queue)
      BY <1>3, <1>2
    <3>2. queue[1].at \in Nat /\ queue[1].rpos \in Nat
      BY <1>2, <3>1, QueuedFields
    <3>3. queue[1].at + queue[1].rpos + 0 = Len(written)
      BY <1>1, <2>1 DEF IbufInv, QueueInv
    <3> QED
      BY <3>2, <3>3
  <2> QED
    BY <1>1, <1>7, <2>1, <2>2 DEF IbufInv, QueueInv
<1>11. WriteInv'
  <2>1. ASSUME NEW p \in 1..(Len(written) + n)
        PROVE  (written \o w)[p] = closed[p]
    <3>1. CASE p <= Len(written)
      <4>1. p \in 1..Len(written)
        BY <1>2, <3>1
      <4> QED
        BY <1>7, <3>1, <4>1 DEF IbufInv, WriteInv
    <3>2. CASE ~(p <= Len(written))
      <4>1. p - Len(written) \in 1..n /\ Len(written) + (p - Len(written)) = p
        BY <1>2, <3>2
      <4>2. w[p - Len(written)] = closed[Len(written) + (p - Len(written))]
        BY <1>6, <4>1
      <4> QED
        BY <1>7, <3>2, <4>1, <4>2
    <3> QED
      BY <3>1, <3>2
  <2> QED
    BY <1>1, <1>5, <1>7, <2>1 DEF WriteInv
<1>12. LeftIsRoom'
  BY <1>1 DEF LeftIsRoom, NoReply
<1> QED
  BY <1>8, <1>9, <1>10, <1>11, <1>12 DEF IbufInv

\* A turn of the loop of msgbuf_drain takes the first buffer, or a part of it,
\* off the queue, and as many bytes off what is left to drain.
LEMMA DrainStep ==
    ASSUME IbufInv, msgbuf_drain_next
    PROVE  IbufInv'
<1> DEFINE b == queue[1]
           L == Len(queue)
<1>1. /\ draining > 0 /\ queue # << >>
      /\ UNCHANGED <<ibuf, content, closed, written, put, reply>>
  BY DEF msgbuf_drain_next
<1>2. /\ queue \in Seq(QueuedRecs) /\ L \in Nat /\ L > 0 /\ 1 \in 1..L
      /\ queued = L /\ draining \in Nat
      /\ Len(written) \in Nat /\ Len(closed) \in Nat /\ Len(written) <= Len(closed)
  BY <1>1, IbufElements, LenProperties DEF IbufInv, IbufTypes, WriteInv
<1>3. /\ \A i \in 1..L : HoldsPart(queue[i], closed)
      /\ Consecutive(queue)
      /\ queue[L].at + queue[L].wpos = Len(closed)
      /\ b.at + b.rpos + draining = Len(written)
  BY <1>1 DEF IbufInv, QueueInv
<1>4. /\ b \in QueuedRecs /\ b.at \in Nat /\ b.wpos \in Nat /\ b.rpos \in Nat
      /\ b.rpos <= b.wpos
  BY <1>2, <1>3, QueuedFields DEF HoldsPart
<1>5. ContentInv' /\ WriteInv' /\ LeftIsRoom'
  BY <1>1 DEF IbufInv, ContentInv, WriteInv, LeftIsRoom
<1>6. CASE b.rpos + draining >= b.wpos
  <2> DEFINE q == Tail(queue)
             d == draining - (b.wpos - b.rpos)
  <2>1. draining' = d /\ queue' = q /\ queued' = queued - 1
    BY <1>6 DEF msgbuf_drain_next, ibuf_dequeue
  <2>2. d \in Nat
    BY <1>2, <1>4, <1>6
  <2>3. /\ q \in Seq(QueuedRecs) /\ Len(q) = L - 1
        /\ \A i \in 1..(L - 1) : q[i] = queue[i + 1]
    BY <1>1, <1>2, HeadTailProperties
  <2> HIDE DEF q
  <2>4. IbufTypes'
    BY <1>1, <1>2, <2>1, <2>2, <2>3 DEF IbufInv, IbufTypes
  <2>5. ASSUME NEW i \in 1..Len(q)
        PROVE  HoldsPart(q[i], closed)
    <3>1. i + 1 \in 1..L /\ q[i] = queue[i + 1]
      BY <1>2, <2>3
    <3> QED
      BY <1>3, <3>1
  <2>6. Consecutive(q)
    <3> SUFFICES ASSUME NEW i \in 1..Len(q), NEW k \in 1..Len(q), k = i + 1
                 PROVE  q[k].rpos = 0 /\ q[k].at = q[i].at + q[i].wpos
      BY DEF Consecutive
    <3>1. /\ i + 1 \in 1..L /\ k + 1 \in 1..L /\ k + 1 = (i + 1) + 1
          /\ q[i] = queue[i + 1] /\ q[k] = queue[k + 1]
      BY <1>2, <2>3
    <3> QED
      BY <1>3, <3>1 DEF Consecutive
  <2>7. CASE L = 1
    <3>1. q = << >>
      BY <2>3, <2>7
    <3>2. d = 0 /\ Len(written) = Len(closed)
      <4>1. b.at + b.wpos = Len(closed)
        BY <1>3, <2>7
      <4> QED
        BY <1>2, <1>3, <1>4, <1>6, <4>1
    <3> QED
      BY <1>1, <1>5, <2>1, <2>4, <2>5, <2>6, <3>1, <3>2 DEF IbufInv, QueueInv
  <2>8. CASE L > 1
    <3>1. 2 \in 1..L /\ q[1] = queue[2] /\ q # << >>
      <4>1. 1 \in 1..(L - 1) /\ Len(q) # 0 /\ 1 + 1 = 2
        BY <1>2, <2>3, <2>8
      <4> QED
        BY <1>2, <2>3, <2>8, <4>1
    <3>2. queue[2].rpos = 0 /\ queue[2].at = b.at + b.wpos
      <4>1. 2 = 1 + 1
        OBVIOUS
      <4> QED
        BY <1>2, <1>3, <3>1, <4>1 DEF Consecutive
    <3>3. q[1].at + q[1].rpos + d = Len(written)
      BY <1>2, <1>3, <1>4, <3>1, <3>2
    <3>4. q[Len(q)] = queue[L]
      <4>1. Len(q) \in 1..(L - 1) /\ Len(q) + 1 = L
        BY <1>2, <2>3, <2>8
      <4> QED
        BY <2>3, <4>1
    <3> HIDE DEF d
    <3> QED
      BY <1>1, <1>3, <1>5, <2>1, <2>4, <2>5, <2>6, <3>1, <3>3, <3>4 DEF IbufInv, QueueInv
  <2> QED
    BY <1>2, <2>7, <2>8
<1>7. CASE ~(b.rpos + draining >= b.wpos)
  <2> DEFINE c == Cut(b, draining)
             q == [queue EXCEPT ![1] = c]
  <2>1. draining' = 0 /\ queue' = q /\ queued' = queued
    BY <1>7 DEF msgbuf_drain_next
  <2>2. /\ c \in QueuedRecs /\ c.at = b.at /\ c.wpos = b.wpos /\ c.mem = b.mem
        /\ c.rpos = b.rpos + draining
    BY <1>2, <1>4 DEF Cut, QueuedRecs
  <2> HIDE DEF c
  <2>3. /\ q \in Seq(QueuedRecs) /\ Len(q) = L /\ q[1] = c
        /\ \A i \in 1..L : i # 1 => q[i] = queue[i]
    BY <1>2, <2>2, ExceptSeq
  <2> HIDE DEF q
  <2>4. IbufTypes'
    BY <1>1, <1>2, <2>1, <2>3 DEF IbufInv, IbufTypes
  <2>5. \A i \in 1..L : q[i].at = queue[i].at /\ q[i].wpos = queue[i].wpos
    BY <2>2, <2>3
  <2>6. HoldsPart(c, closed)
    BY <1>2, <1>3, <1>4, <1>7, <2>2 DEF HoldsPart
  <2>7. \A i \in 1..L : HoldsPart(q[i], closed)
    BY <1>3, <2>3, <2>6
  <2>8. Consecutive(q)
    <3> SUFFICES ASSUME NEW i \in 1..L, NEW k \in 1..L, k = i + 1
                 PROVE  q[k].rpos = 0 /\ q[k].at = q[i].at + q[i].wpos
      BY <2>3 DEF Consecutive
    <3>1. k # 1 /\ q[k] = queue[k]
      BY <1>2, <2>3
    <3>2. queue[k].rpos = 0 /\ queue[k].at = queue[i].at + queue[i].wpos
      BY <1>3 DEF Consecutive
    <3> QED
      BY <2>5, <3>1, <3>2
  <2>9. q # << >>
    BY <1>2, <2>3
  <2>10. q[1].at + q[1].rpos + 0 = Len(written)
    BY <1>2, <1>3, <1>4, <2>2, <2>3
  <2>11. q[Len(q)].at + q[Len(q)].wpos = Len(closed)
    <3>1. L \in 1..L
      BY <1>2
    <3> QED
      BY <1>3, <2>3, <2>5, <3>1
  <2>12. QueueInv'
    BY <1>1, <2>1, <2>3, <2>7, <2>8, <2>9, <2>10, <2>11 DEF QueueInv
  <2> QED
    BY <1>5, <2>4, <2>12 DEF IbufInv
<1> QED
  BY <1>6, <1>7

----------------------------------------------------------------------------

\* The beginning of a sequence is the sequence that agrees with it.
LEMMA SliceIs ==
    ASSUME NEW m \in Seq(0..MaxBytes), NEW c \in Seq(0..MaxBytes), Len(c) <= Len(m),
           \A i \in 1..Len(c) : m[i] = c[i]
    PROVE  SubSeq(m, 1, Len(c)) = c
<1>1. Len(c) \in Nat /\ Len(m) \in Nat
  OBVIOUS
<1>2. \A i \in 1..Len(c) : m[i] \in 0..MaxBytes
  BY ElementOfSeq
<1>3. /\ SubSeq(m, 1, Len(c)) \in Seq(0..MaxBytes)
      /\ Len(SubSeq(m, 1, Len(c))) = IF 1 <= Len(c) THEN Len(c) - 1 + 1 ELSE 0
      /\ \A i \in 1..(Len(c) - 1 + 1) : SubSeq(m, 1, Len(c))[i] = m[1 + i - 1]
  BY <1>1, <1>2, SubSeqProperties
<1>4. /\ Len(c) - 1 + 1 = Len(c) /\ \A i \in 1..Len(c) : 1 + i - 1 = i
      /\ (IF 1 <= Len(c) THEN Len(c) - 1 + 1 ELSE 0) = Len(c)
  BY <1>1
<1>5. Len(SubSeq(m, 1, Len(c))) = Len(c) /\ \A i \in 1..Len(c) : SubSeq(m, 1, Len(c))[i] = c[i]
  BY <1>3, <1>4
<1> QED
  BY <1>3, <1>5, SeqEqual

\* What is left of a buffer is a part of the stream.
LEMMA PartIs ==
    ASSUME NEW b \in QueuedRecs, NEW c \in Seq(0..MaxBytes), HoldsPart(b, c)
    PROVE  SubSeq(b.mem, b.rpos + 1, b.wpos) = SubSeq(c, b.at + b.rpos + 1, b.at + b.wpos)
<1> DEFINE s == SubSeq(b.mem, b.rpos + 1, b.wpos)
           t == SubSeq(c, b.at + b.rpos + 1, b.at + b.wpos)
           n == b.wpos - b.rpos
<1>1. /\ b.mem \in Seq(0..MaxBytes) /\ b.wpos \in Nat /\ b.rpos \in Nat /\ b.at \in Nat
      /\ b.rpos <= b.wpos /\ b.wpos = Len(b.mem) /\ b.at + b.wpos <= Len(c) /\ Len(c) \in Nat
      /\ \A p \in 1..b.wpos : b.mem[p] = c[b.at + p]
  BY DEF QueuedRecs, IbufBytes, HoldsPart
<1>2. ASSUME NEW i \in (b.rpos + 1)..b.wpos PROVE b.mem[i] \in 0..MaxBytes
  <2>1. i \in 1..Len(b.mem)
    BY <1>1
  <2> QED
    BY <1>1, <2>1, ElementOfSeq
<1>3. ASSUME NEW i \in (b.at + b.rpos + 1)..(b.at + b.wpos) PROVE c[i] \in 0..MaxBytes
  <2>1. i \in 1..Len(c)
    BY <1>1
  <2> QED
    BY <2>1, ElementOfSeq
<1>4. /\ n \in Nat
      /\ b.wpos - (b.rpos + 1) + 1 = n
      /\ (b.at + b.wpos) - (b.at + b.rpos + 1) + 1 = n
      /\ (IF b.rpos + 1 <= b.wpos THEN b.wpos - (b.rpos + 1) + 1 ELSE 0) = n
      /\ (IF b.at + b.rpos + 1 <= b.at + b.wpos
          THEN (b.at + b.wpos) - (b.at + b.rpos + 1) + 1 ELSE 0) = n
  BY <1>1
<1>5. /\ s \in Seq(0..MaxBytes) /\ Len(s) = n
      /\ \A i \in 1..n : s[i] = b.mem[b.rpos + 1 + i - 1]
  <2>1. b.rpos + 1 \in Int /\ b.wpos \in Int
    BY <1>1
  <2>2. /\ s \in Seq(0..MaxBytes)
        /\ Len(s) = IF b.rpos + 1 <= b.wpos THEN b.wpos - (b.rpos + 1) + 1 ELSE 0
        /\ \A i \in 1..(b.wpos - (b.rpos + 1) + 1) : s[i] = b.mem[b.rpos + 1 + i - 1]
    BY <1>2, <2>1, SubSeqProperties
  <2> HIDE DEF s, n
  <2> QED
    BY <1>4, <2>2
<1>6. /\ t \in Seq(0..MaxBytes) /\ Len(t) = n
      /\ \A i \in 1..n : t[i] = c[b.at + b.rpos + 1 + i - 1]
  <2>1. b.at + b.rpos + 1 \in Int /\ b.at + b.wpos \in Int
    BY <1>1
  <2>2. /\ t \in Seq(0..MaxBytes)
        /\ Len(t) = IF b.at + b.rpos + 1 <= b.at + b.wpos
                    THEN (b.at + b.wpos) - (b.at + b.rpos + 1) + 1 ELSE 0
        /\ \A i \in 1..((b.at + b.wpos) - (b.at + b.rpos + 1) + 1) :
             t[i] = c[b.at + b.rpos + 1 + i - 1]
    BY <1>3, <2>1, SubSeqProperties
  <2> HIDE DEF t, n
  <2> QED
    BY <1>4, <2>2
<1>7. ASSUME NEW i \in 1..n
      PROVE  s[i] = t[i]
  <2>1. PICK p \in 1..b.wpos : b.rpos + 1 + i - 1 = p /\ b.at + b.rpos + 1 + i - 1 = b.at + p
    <3>1. /\ b.rpos + i \in 1..b.wpos /\ b.rpos + 1 + i - 1 = b.rpos + i
          /\ b.at + b.rpos + 1 + i - 1 = b.at + (b.rpos + i)
      <4>1. PICK w \in Nat, r \in Nat, a \in Nat : w = b.wpos /\ r = b.rpos /\ a = b.at
        BY <1>1
      <4>2. i \in 1..(w - r) /\ r <= w
        BY <1>1, <4>1
      <4>3. r + i \in 1..w /\ r + 1 + i - 1 = r + i /\ a + r + 1 + i - 1 = a + (r + i)
        BY <4>2
      <4> QED
        BY <4>1, <4>3
    <3> QED
      BY <3>1
  <2>2. s[i] = b.mem[p] /\ t[i] = c[b.at + p]
    BY <1>5, <1>6, <2>1
  <2> QED
    BY <1>1, <2>2
<1>8. s \in Seq(0..MaxBytes) /\ t \in Seq(0..MaxBytes) /\ Len(s) = Len(t)
  BY <1>5, <1>6
<1>9. \A i \in 1..Len(s) : s[i] = t[i]
  BY <1>5, <1>7
<1> HIDE DEF s, t
<1>10. s = t
  BY <1>8, <1>9, SeqEqual
<1> QED
  BY <1>10 DEF s, t

\* Nothing is there in the beginning.
LEMMA IbufStart == IbufInit => IbufInv
<1> SUFFICES ASSUME IbufInit PROVE IbufInv
  OBVIOUS
<1>1. Len(<< >>) = 0 /\ 1..Len(<< >>) = {} /\ << >> \in Seq(0..MaxBytes)
      /\ << >> \in Seq(QueuedRecs)
  OBVIOUS
<1>2. IbufTypes
  BY <1>1, NoBufIs, IbufNumbers DEF IbufInit, IbufTypes, IbufBytes, NoReply
<1>3. ContentInv
  BY <1>1, NoBufIs DEF IbufInit, ContentInv
<1>4. QueueInv /\ WriteInv
  BY <1>1 DEF IbufInit, QueueInv, WriteInv, Consecutive
<1>5. LeftIsRoom
  BY DEF IbufInit, LeftIsRoom, NoReply
<1> QED
  BY <1>2, <1>3, <1>4, <1>5 DEF IbufInv

\* Every call keeps the buffers in order.
LEMMA IbufStep == IbufInv /\ [IbufNext]_ibufVars => IbufInv'
<1> SUFFICES ASSUME IbufInv, [IbufNext]_ibufVars PROVE IbufInv'
  OBVIOUS
<1>1. ASSUME NEW len \in Sizes, new_buffer(ibuf_open(len)) PROVE IbufInv'
  <2>1. /\ ibuf_open(len) \in IbufRecs /\ ibuf_open(len).wpos = 0
        /\ Len(ibuf_open(len).mem) <= ibuf_open(len).max
    BY IbufNumbers, OpenGives
  <2> QED
    BY <1>1, <2>1, NewBufferStep
<1>2. ASSUME NEW len \in Sizes, NEW max \in Sizes, new_buffer(ibuf_dynamic(len, max))
      PROVE  IbufInv'
  <2>1. /\ ibuf_dynamic(len, max) \in IbufRecs /\ ibuf_dynamic(len, max).wpos = 0
        /\ ibuf_dynamic(len, max) # NoBuf =>
             Len(ibuf_dynamic(len, max).mem) <= ibuf_dynamic(len, max).max
    BY IbufNumbers, DynamicGives, NoBufIs
  <2> QED
    BY <1>2, <2>1, NewBufferStep
<1>3. ASSUME NEW n \in Sizes, ibuf_add(n) PROVE IbufInv'
  BY <1>3, IbufNumbers, AddStep
<1>4. ASSUME NEW pos \in Sizes, NEW n \in Sizes, ibuf_seek(pos, n) PROVE IbufInv'
  BY <1>4, IbufNumbers, SeekStep
<1>5. ASSUME NEW n \in 1..MaxBytes, ibuf_write(n) PROVE IbufInv'
  BY <1>5, WritevStep
<1>6. CASE UNCHANGED ibufVars
  BY <1>6 DEF ibufVars, IbufInv, IbufTypes, ContentInv, QueueInv, WriteInv, LeftIsRoom
<1> QED
  BY <1>1, <1>2, <1>3, <1>4, <1>5, <1>6, IbufCloseStep, FreeStep, DrainStep DEF IbufNext

\* The bytes of the stream that are not in the queue any more.
DrainedTo == Len(written) - draining

\* What the queue still holds, buffer by buffer.
LEMMA UnwrittenIs ==
    ASSUME IbufInv, queue # << >>
    PROVE  \A i \in 1..Len(queue) :
             /\ Unwritten(i) = queue[i].at + queue[i].wpos - DrainedTo
             /\ Unwritten(i - 1) = queue[i].at + queue[i].rpos - DrainedTo
<1>1. /\ queue \in Seq(QueuedRecs) /\ Len(queue) \in Nat /\ 1 \in 1..Len(queue)
      /\ Len(written) \in Nat /\ draining \in Nat
  BY IbufElements, LenProperties DEF IbufInv, IbufTypes
<1>0. DrainedTo \in Int
  BY <1>1 DEF DrainedTo
<1>2. \A i \in 1..Len(queue) :
         queue[i].at \in Nat /\ queue[i].wpos \in Nat /\ queue[i].rpos \in Nat
  BY <1>1, QueuedFields
<1>3. queue[1].at + queue[1].rpos = DrainedTo
  <2>1. queue[1].at + queue[1].rpos + draining = Len(written)
    BY DEF IbufInv, QueueInv
  <2>2. PICK a \in Nat, r \in Nat : a = queue[1].at /\ r = queue[1].rpos
    BY <1>1, <1>2
  <2>3. a + r = DrainedTo
    BY <1>1, <2>1, <2>2 DEF DrainedTo
  <2> QED
    BY <2>2, <2>3
<1>4. ASSUME NEW i \in 1..Len(queue)
      PROVE  Unwritten(i) = queue[i].at + queue[i].wpos - DrainedTo
  <2>1. i # 0
    BY <1>1
  <2> QED
    BY <1>1, <1>2, <1>3, <2>1 DEF Unwritten
<1>5. ASSUME NEW i \in 1..Len(queue)
      PROVE  Unwritten(i - 1) = queue[i].at + queue[i].rpos - DrainedTo
  <2>1. CASE i = 1
    <3>1. Unwritten(i - 1) = 0
      BY <2>1 DEF Unwritten
    <3>2. PICK a \in Nat, r \in Nat, x \in Int :
             a = queue[i].at /\ r = queue[i].rpos /\ x = DrainedTo
      BY <1>0, <1>2
    <3>3. a + r = x
      BY <1>3, <2>1, <3>2
    <3>4. 0 = a + r - x
      BY <3>3
    <3> QED
      BY <3>1, <3>2, <3>4
  <2>2. CASE i # 1
    <3>1. PICK h \in 1..Len(queue) : i = h + 1 /\ i - 1 = h
      <4>1. i - 1 \in 1..Len(queue) /\ i = (i - 1) + 1
        BY <1>1, <2>2
      <4> QED
        BY <4>1
    <3>2. queue[i].rpos = 0 /\ queue[i].at = queue[h].at + queue[h].wpos
      BY <3>1 DEF IbufInv, QueueInv, Consecutive
    <3>3. PICK a \in Nat, w \in Nat, x \in Int :
             a = queue[h].at /\ w = queue[h].wpos /\ x = DrainedTo
      BY <1>0, <1>2
    <3>4. Unwritten(h) = a + w - x
      BY <1>4, <3>3
    <3>5. queue[i].at = a + w /\ a + w + 0 = a + w
      BY <3>2, <3>3
    <3> QED
      BY <3>1, <3>2, <3>3, <3>4, <3>5
  <2> QED
    BY <2>1, <2>2
<1> QED
  BY <1>4, <1>5

\* The invariant says what a reader of the code wants to know.
LEMMA IbufImplies ==
    IbufInv => IbufTypeOK /\ BufferHoldsContent /\ WrittenOnceInOrder /\ LeftIsRoom
<1> SUFFICES ASSUME IbufInv
             PROVE  IbufTypeOK /\ BufferHoldsContent /\ WrittenOnceInOrder /\ LeftIsRoom
  OBVIOUS
<1>1. /\ queue \in Seq(QueuedRecs) /\ Len(queue) \in Nat /\ DOMAIN queue = 1..Len(queue)
      /\ closed \in Seq(0..MaxBytes) /\ written \in Seq(0..MaxBytes)
      /\ Len(written) \in Nat /\ Len(closed) \in Nat /\ draining \in Nat
      /\ Len(written) <= Len(closed)
  BY IbufElements, LenProperties DEF IbufInv, IbufTypes, IbufBytes, WriteInv
<1>0. DrainedTo \in Int /\ DrainedTo = Len(written) - draining
  BY <1>1 DEF DrainedTo
<1>2. \A i \in 1..Len(queue) :
         /\ queue[i].at \in Nat /\ queue[i].wpos \in Nat /\ queue[i].rpos \in Nat
         /\ queue[i].mem \in Seq(0..MaxBytes)
         /\ HoldsPart(queue[i], closed)
  BY <1>1, QueuedFields DEF IbufInv, QueueInv, IbufBytes
<1>3. queue # << >> => \A i \in 1..Len(queue) :
         /\ Unwritten(i) = queue[i].at + queue[i].wpos - DrainedTo
         /\ Unwritten(i - 1) = queue[i].at + queue[i].rpos - DrainedTo
  BY UnwrittenIs
<1>4. Unwritten(Len(queue)) = Len(closed) - DrainedTo
  <2>1. CASE queue = << >>
    <3>1. Len(queue) = 0 /\ Len(written) = Len(closed) /\ draining = 0
      BY <2>1 DEF IbufInv, QueueInv
    <3>2. Unwritten(Len(queue)) = 0
      BY <3>1 DEF Unwritten
    <3> QED
      BY <1>0, <1>1, <3>1, <3>2
  <2>2. CASE queue # << >>
    <3>1. Len(queue) \in 1..Len(queue)
      BY <1>1, <2>2
    <3>2. queue[Len(queue)].at + queue[Len(queue)].wpos = Len(closed)
      BY <2>2 DEF IbufInv, QueueInv
    <3>3. Unwritten(Len(queue)) = queue[Len(queue)].at + queue[Len(queue)].wpos
                                    - DrainedTo
      BY <1>3, <2>2, <3>1
    <3>4. PICK a \in Nat, w \in Nat, x \in Int :
             a = queue[Len(queue)].at /\ w = queue[Len(queue)].wpos /\ x = DrainedTo
      BY <1>0, <1>2, <3>1
    <3>5. a + w = Len(closed) /\ Unwritten(Len(queue)) = a + w - x
      BY <3>2, <3>3, <3>4
    <3>6. PICK c \in Nat : c = Len(closed)
      BY <1>1
    <3>7. a + w - x = c - x
      BY <3>5, <3>6
    <3> QED
      BY <3>4, <3>5, <3>6, <3>7
  <2> QED
    BY <2>1, <2>2
<1>5. IbufTypeOK
  <2>1. ibuf.mem \in Seq(0..MaxBytes) /\ ibuf.rpos = 0
    BY IbufFields DEF IbufInv, IbufTypes, IbufBytes
  <2>2. ibuf # NoBuf => ibuf.wpos <= Len(ibuf.mem) /\ Len(ibuf.mem) <= ibuf.max
    BY DEF IbufInv, ContentInv
  <2>3. ASSUME NEW i \in DOMAIN queue
        PROVE  /\ queue[i].rpos <= queue[i].wpos /\ queue[i].wpos = Len(queue[i].mem)
               /\ Unwritten(i) = Unwritten(i - 1) + (queue[i].wpos - queue[i].rpos)
    <3>1. i \in 1..Len(queue) /\ queue # << >>
      BY <1>1
    <3>2. Unwritten(i) = Unwritten(i - 1) + (queue[i].wpos - queue[i].rpos)
      <4>1. PICK a \in Nat, w \in Nat, r \in Nat :
               a = queue[i].at /\ w = queue[i].wpos /\ r = queue[i].rpos
        BY <1>2, <3>1
      <4>2. PICK x \in Int : x = DrainedTo
        BY <1>0
      <4>3. Unwritten(i) = a + w - x /\ Unwritten(i - 1) = a + r - x
        BY <1>3, <3>1, <4>1, <4>2
      <4>4. a + w - x = (a + r - x) + (w - r)
        OBVIOUS
      <4> QED
        BY <4>1, <4>3, <4>4
    <3> QED
      BY <1>2, <3>1, <3>2 DEF HoldsPart
  <2>4. draining \in 0..Unwritten(Len(queue))
    BY <1>0, <1>1, <1>4
  <2>5. queue \in Seq([mem : Seq(0..MaxBytes), wpos : Nat, rpos : Nat, at : Nat])
    BY <1>1 DEF QueuedRecs, IbufBytes
  <2>6. queued = Len(queue) /\ put \in 0..MaxBytes
    BY DEF IbufInv, IbufTypes
  <2> QED
    BY <2>1, <2>2, <2>3, <2>4, <2>5, <2>6 DEF IbufTypeOK
<1>6. BufferHoldsContent
  <2>1. /\ ibuf.mem \in Seq(0..MaxBytes) /\ content \in Seq(0..MaxBytes)
        /\ ibuf.wpos \in Nat /\ Len(ibuf.mem) \in Nat
        /\ ibuf.wpos <= Len(ibuf.mem) /\ Len(content) = ibuf.wpos
        /\ \A i \in 1..Len(content) : ibuf.mem[i] = content[i]
    BY IbufFields DEF IbufInv, IbufTypes, ContentInv, IbufBytes
  <2>2. SubSeq(ibuf.mem, 1, ibuf.wpos) = content
    BY <2>1, SliceIs
  <2> QED
    BY <2>1, <2>2 DEF BufferHoldsContent
<1>7. WrittenOnceInOrder
  <2>1. written = SubSeq(closed, 1, Len(written))
    <3>1. \A p \in 1..Len(written) : closed[p] = written[p]
      BY DEF IbufInv, WriteInv
    <3> QED
      BY <1>1, <3>1, SliceIs
  <2>2. ASSUME draining = 0, NEW i \in DOMAIN queue
        PROVE  SubSeq(queue[i].mem, queue[i].rpos + 1, queue[i].wpos)
                 = SubSeq(closed, Len(written) + Unwritten(i - 1) + 1,
                          Len(written) + Unwritten(i))
    <3>1. i \in 1..Len(queue) /\ queue # << >>
      BY <1>1
    <3>2. /\ Len(written) + Unwritten(i - 1) = queue[i].at + queue[i].rpos
          /\ Len(written) + Unwritten(i) = queue[i].at + queue[i].wpos
      BY <1>0, <1>1, <1>2, <1>3, <2>2, <3>1
    <3>3. HoldsPart(queue[i], closed) /\ queue[i] \in QueuedRecs
      BY <1>1, <1>2, <3>1, QueuedFields
    <3>4. SubSeq(queue[i].mem, queue[i].rpos + 1, queue[i].wpos)
            = SubSeq(closed, queue[i].at + queue[i].rpos + 1, queue[i].at + queue[i].wpos)
      BY <1>1, <3>3, PartIs
    <3> QED
      BY <3>2, <3>4
  <2>3. draining = 0 => Len(written) + Unwritten(Len(queue)) = Len(closed)
    BY <1>0, <1>1, <1>4
  <2> QED
    BY <2>1, <2>2, <2>3 DEF WrittenOnceInOrder
<1> QED
  BY <1>5, <1>6, <1>7 DEF IbufInv

\* Buffers keep what was put into them, writev takes the bytes of the closed ones
\* once and in their order, and ibuf_left says what a call will be granted: for
\* any sizes, any IOV_MAX and however writev cuts the buffers.
THEOREM IbufCorrect ==
    IbufSpec => [](IbufTypeOK /\ BufferHoldsContent /\ WrittenOnceInOrder /\ LeftIsRoom)
<1>1. IbufInit => IbufInv
  BY IbufStart
<1>2. IbufInv /\ [IbufNext]_ibufVars => IbufInv'
  BY IbufStep
<1>3. IbufInv => IbufTypeOK /\ BufferHoldsContent /\ WrittenOnceInOrder /\ LeftIsRoom
  BY IbufImplies
<1> QED
  BY <1>1, <1>2, <1>3, PTL DEF IbufSpec

-----------------------------------------------------------------------------

(* The control connection: the Qt client follows it and shows only what its *)
(* user asked for, and the broadcaster reports announcements intact.        *)

\* The values of the records of Control.
QtClient == [isConnected : BOOLEAN, state : Bodies, contacts : SUBSET Names,
             list : Seq(Names), socket : Seq(Halves)]
Broadcaster == [stream : BOOLEAN, buffer : Seq(Nodes), from : Chars,
                sent : Seq(Nodes)]
History == [asked : SUBSET Names, refused : SUBSET Names, garbled : BOOLEAN,
            adds : 0..MaxAdds, losses : 0..MaxLosses]

\* The halves of commands of a client whose user added the contacts A.
HalvesFor(A) == {h \in Halves : h[1] = "ADD" => h[2] \in A}

DaemonInv ==
    /\ tls \in BOOLEAN
    /\ mc_client \in Clients \cup {"none"}
    /\ accepted \subseteq Clients /\ bevs \subseteq accepted
    /\ conn \in [Clients -> {"none", "syn", "open", "dead"}]
    /\ net \subseteq Nodes

RecordsInv ==
    /\ qt \in QtClient
    /\ bc \in Broadcaster
    /\ history \in History

\* What ShownWasAsked rests on: everything between the Qt client and the
\* daemon is about the contacts of this user, in both directions.
AskedInv ==
    /\ DOMAIN up = Clients
    /\ up["bc"] \in Seq(Halves)
    /\ up["qt"] \in Seq(HalvesFor(history.asked))
    /\ down \in Seq(HalvesFor(history.asked))
    /\ qt.socket \in Seq(HalvesFor(history.asked))
    /\ qt.list \in Seq(history.asked)

\* What the window and the model of contacts rest on: Network::isConnected is
\* the state of the TCP connection as far as the client has been told.
LinkInv ==
    /\ (conn["qt"] \in {"none", "syn"}) <=> ~qt.isConnected
    /\ ViewMatchesConnection
    /\ ContactsOfConnection

ControlInv == DaemonInv /\ RecordsInv /\ AskedInv /\ LinkInv

-----------------------------------------------------------------------------
(* Sequences and texts *)

\* What is taken from the front of a sequence, and what stays, is a sequence of
\* the same elements.
LEMMA CutText ==
    ASSUME NEW S, NEW s \in Seq(S), NEW k \in Nat
    PROVE  /\ k <= Len(s) => SubSeq(s, 1, k) \in Seq(S)
           /\ SubSeq(s, k + 1, Len(s)) \in Seq(S)
<1>1. Len(s) \in Nat /\ \A i \in 1..Len(s) : s[i] \in S
  BY LenProperties, ElementOfSeq
<1>2. ASSUME k <= Len(s) PROVE SubSeq(s, 1, k) \in Seq(S)
  <2>1. \A i \in 1..k : s[i] \in S
    BY <1>1, <1>2
  <2>2. QED
    BY <1>1, <2>1, SubSeqProperties
<1>3. SubSeq(s, k + 1, Len(s)) \in Seq(S)
  <2>1. \A i \in (k + 1)..Len(s) : s[i] \in S
    BY <1>1
  <2>2. k + 1 \in Int /\ Len(s) \in Int
    BY <1>1
  <2>3. QED
    BY <2>1, <2>2, SubSeqProperties
<1>4. QED
  BY <1>2, <1>3

\* At takes elements of the sequence it is given, and nothing else.
LEMMA AtTyped ==
    ASSUME NEW A, NEW n \in Nat, NEW s, NEW S, S \subseteq 1..n,
           \A i \in S : s[i] \in A, NEW t \in At(s, S)
    PROVE  t \in Seq(A)
<1>1. PICK e \in InOrder(S) : t = [i \in DOMAIN e |-> s[e[i]]]
  BY DEF At
<1>2. Cardinality(S) \in Nat
  <2>1. S \in SUBSET Nat /\ \A i \in S : i <= n
    OBVIOUS
  <2>2. IsFiniteSet(S)
    BY <2>1, FS_BoundedSetOfNaturals
  <2>3. QED
    BY <2>2, FS_CardinalityType
<1>3. e \in [1..Cardinality(S) -> S]
  BY DEF InOrder
<1>4. t \in [1..Cardinality(S) -> A]
  BY <1>1, <1>3
<1>5. QED
  BY <1>2, <1>4, SeqDef

\* The text of commands about some names consists of the halves of those
\* commands.
LEMMA TextTyped ==
    ASSUME NEW A, NEW H, NEW op, NEW ids \in Seq(A),
           \A x \in A : <<op, x, 1>> \in H /\ <<op, x, 2>> \in H
    PROVE  Text(op, ids) \in Seq(H)
<1>1. Len(ids) \in Nat /\ \A i \in 1..Len(ids) : ids[i] \in A
  BY LenProperties, ElementOfSeq
<1> DEFINE n == 2 * Len(ids)
<1>2. n \in Nat
  BY <1>1
<1>3. ASSUME NEW p \in 1..n
      PROVE  <<op, ids[(p + 1) \div 2], 2 - (p % 2)>> \in H
  <2>1. (p + 1) \div 2 \in 1..Len(ids)
    BY <1>1
  <2>2. 2 - (p % 2) \in {1, 2}
    BY <1>1
  <2>3. PICK x \in A : x = ids[(p + 1) \div 2]
    BY <1>1, <2>1
  <2>4. PICK h \in {1, 2} : h = 2 - (p % 2)
    BY <2>2
  <2>5. <<op, x, h>> \in H
    OBVIOUS
  <2>6. QED
    BY <2>3, <2>4, <2>5
<1>4. Text(op, ids) \in [1..n -> H]
  BY <1>3 DEF Text
<1>5. QED
  BY <1>2, <1>4, SeqDef

\* libtclt executes only commands that are there as a whole.
LEMMA Dispatched ==
    ASSUME NEW S, NEW text \in Seq(S), NEW j \in tclt_dispatch_command(text)
    PROVE  j \in Nat /\ \A i \in 1..j : 2 * i \in 1..Len(text)
<1> DEFINE Starts(m) == \A i \in 1..m :
               /\ text[2 * i - 1][3] = 1
               /\ text[2 * i] = [text[2 * i - 1] EXCEPT ![3] = 2]
           N == Len(text) \div 2
           T == {m \in 0..N : Starts(m)}
<1>1. Len(text) \in Nat /\ N \in Nat /\ 2 * N <= Len(text)
  <2>1. Len(text) \in Nat
    BY LenProperties
  <2>2. QED
    BY <2>1
<1>2. Whole(text) = CHOOSE m \in 0..N : Starts(m) /\ \A n \in 0..N : Starts(n) => n <= m
  BY DEF Whole
<1>3. 0 \in T
  BY <1>1
<1> HIDE DEF Starts, N
<1>4. \E m \in T : \A n \in T : n <= m
  BY <1>1, <1>3, GreatestNumber
<1>5. Whole(text) \in 0..N
  BY <1>2, <1>4
<1>6. j \in Nat /\ j <= N
  BY <1>1, <1>5 DEF tclt_dispatch_command
<1>7. QED
  BY <1>1, <1>6

\* The names in the ADD commands of a text are those of its halves.
LEMMA AddsTyped ==
    ASSUME NEW A, NEW text \in Seq(HalvesFor(A)), NEW j \in tclt_dispatch_command(text),
           NEW cmds, cmds = [i \in 1..j |-> Command(text, i)],
           NEW U, U \subseteq {i \in 1..Len(cmds) : cmds[i].op = "ADD"},
           NEW t \in At(Ids(cmds), U)
    PROVE  t \in Seq(A)
<1>1. j \in Nat /\ \A i \in 1..j : 2 * i \in 1..Len(text)
  BY Dispatched
<1>2. Len(cmds) = j
  BY <1>1
<1>3. ASSUME NEW i \in U PROVE Ids(cmds)[i] \in A
  <2>1. i \in 1..j
    BY <1>2
  <2>2. text[2 * i] \in HalvesFor(A)
    BY <1>1, <2>1, ElementOfSeq
  <2>3. cmds[i].op = text[2 * i][1] /\ cmds[i].id = text[2 * i][2]
    BY <2>1 DEF Command
  <2>4. text[2 * i][2] \in A
    BY <2>2, <2>3 DEF HalvesFor
  <2>5. QED
    BY <1>2, <2>1, <2>3, <2>4 DEF Ids
<1>4. U \subseteq 1..j
  BY <1>2
<1>5. QED
  BY <1>1, <1>3, <1>4, AtTyped

-----------------------------------------------------------------------------
(* The steps of the daemon and of the broadcaster *)

\* The halves for more contacts include those for fewer.
LEMMA HalvesGrow ==
    ASSUME NEW A, NEW B, A \subseteq B
    PROVE  HalvesFor(A) \subseteq HalvesFor(B) /\ HalvesFor(A) \subseteq Halves
BY DEF HalvesFor

\* The program starts in the invariant.
LEMMA ControlStarts == Init => ControlInv
<1> SUFFICES ASSUME Init PROVE ControlInv
  OBVIOUS
<1> USE DEF Init, QtMain, BroadcasterMain, QtInit, BroadcasterInit
<1>1. DaemonInv
  BY DEF DaemonInv, Clients
<1>2. RecordsInv
  <2>1. qt \in QtClient
    BY EmptySeq DEF QtClient, Bodies
  <2>2. bc \in Broadcaster
    BY EmptySeq DEF Broadcaster, Chars
  <2>3. history \in History
    BY ControlAssumption DEF History
  <2>4. QED
    BY <2>1, <2>2, <2>3 DEF RecordsInv
<1>3. AskedInv
  BY EmptySeq DEF AskedInv, Clients
<1>4. LinkInv
  BY DEF LinkInv, ViewMatchesConnection, ContactsOfConnection, Clients
<1>5. QED
  BY <1>1, <1>2, <1>3, <1>4 DEF ControlInv

\* A client that is accepted takes the slot; nothing else is touched.
LEMMA AcceptKeeps ==
    ASSUME ControlInv, NEW c \in Clients, listen_client_callback(c)
    PROVE  ControlInv'
<1> USE DEF ControlInv, listen_client_callback
<1>1. DaemonInv'
  BY DEF DaemonInv
<1>2. RecordsInv' /\ AskedInv' /\ LinkInv'
  BY DEF RecordsInv, AskedInv, LinkInv, ViewMatchesConnection, ContactsOfConnection
<1>3. QED
  BY <1>1, <1>2

\* The daemon answers a client with the names it was asked for, and the answer
\* goes to the client that asked.
LEMMA ReadCbKeeps ==
    ASSUME ControlInv, NEW c \in Clients, client_mc_read_cb(c)
    PROVE  ControlInv'
<1>1. UNCHANGED <<daemon, conn, qt, bc, net>>
  BY DEF client_mc_read_cb
<1> DEFINE A == history.asked
           Arrived(k) == SubSeq(up[c], 1, k)
           Cmds(k, j) == [i \in 1..j |-> Command(Arrived(k), i)]
           Effect(k, j, dialled, answer) ==
               /\ up' = [up EXCEPT ![c] = SubSeq(@, k + 1, Len(@))]
               /\ down' = IF add_peer(c) = "qt" THEN down \o answer ELSE down
               /\ history' = [history EXCEPT
                    !.refused = @ \cup (({Cmds(k, j)[i].id : i \in 1..j} \ dialled) \cap Names),
                    !.garbled = @ \/ (c = "qt" /\ Text(Arrived(k)[1][1], <<Arrived(k)[1][2]>>) # Arrived(k))]
<1>2. PICK k \in 1..Len(up[c]) : \E j \in tclt_dispatch_command(Arrived(k)) :
        \E dialled \in SUBSET {Cmds(k, j)[i].id : i \in 1..j} :
        \E answer \in Replies(Cmds(k, j), dialled) : Effect(k, j, dialled, answer)
  BY Zenon DEF client_mc_read_cb
<1>3. PICK j \in tclt_dispatch_command(Arrived(k)) :
        \E dialled : \E answer \in Replies(Cmds(k, j), dialled) :
            Effect(k, j, dialled, answer)
  BY <1>2
<1>4. PICK dialled : \E answer \in Replies(Cmds(k, j), dialled) :
        Effect(k, j, dialled, answer)
  BY <1>3
<1>5. PICK answer \in Replies(Cmds(k, j), dialled) : Effect(k, j, dialled, answer)
  BY <1>4
<1>6. history' \in History /\ history'.asked = A
  <2>1. history \in History
    BY DEF ControlInv, RecordsInv
  <2>2. PICK R, g : history' = [history EXCEPT !.refused = @ \cup (R \cap Names),
                                               !.garbled = @ \/ g] /\ g \in BOOLEAN
    BY <1>5
  <2>3. QED
    BY <2>1, <2>2 DEF History
<1>7. /\ DOMAIN up = Clients
      /\ up["bc"] \in Seq(Halves) /\ up["qt"] \in Seq(HalvesFor(A))
      /\ down \in Seq(HalvesFor(A))
  BY DEF ControlInv, AskedInv
<1>8. CASE c = "qt"
  <2>1. /\ DOMAIN up' = Clients /\ up'["bc"] = up["bc"]
        /\ up'["qt"] = SubSeq(up["qt"], k + 1, Len(up["qt"]))
        /\ down' = down \o answer
    BY <1>5, <1>7, <1>8 DEF Clients, add_peer
  <2>2. k \in Nat /\ k <= Len(up["qt"])
    BY <1>7, <1>8, LenProperties
  <2>3. /\ SubSeq(up["qt"], k + 1, Len(up["qt"])) \in Seq(HalvesFor(A))
        /\ Arrived(k) \in Seq(HalvesFor(A))
    BY <1>7, <1>8, <2>2, CutText
  <2>4. answer \in Seq(HalvesFor(A))
    <3> DEFINE cmds == Cmds(k, j)
               U == {i \in 1..Len(cmds) : cmds[i].op = "ADD" /\ cmds[i].id \in dialled}
    <3>1. PICK t \in At(Ids(cmds), U) : answer = Text("ADD", t)
      BY DEF Replies
    <3>2. U \subseteq {i \in 1..Len(cmds) : cmds[i].op = "ADD"}
      OBVIOUS
    <3>3. t \in Seq(A)
      <4> HIDE DEF U
      <4>1. PICK cs : cs = cmds
        OBVIOUS
      <4>2. QED
        BY <2>3, <3>1, <3>2, <4>1, AddsTyped
    <3>4. \A x \in A : /\ <<"ADD", x, 1>> \in HalvesFor(A)
                       /\ <<"ADD", x, 2>> \in HalvesFor(A)
      BY DEF ControlInv, RecordsInv, History, HalvesFor, Halves
    <3>5. QED
      BY <3>1, <3>3, <3>4, TextTyped
  <2>5. down' \in Seq(HalvesFor(A))
    BY <1>7, <2>1, <2>4, ConcatProperties
  <2>6. AskedInv'
    BY <1>1, <1>6, <1>7, <2>1, <2>3, <2>5 DEF AskedInv, ControlInv
  <2>7. QED
    BY <1>1, <1>6, <2>6 DEF ControlInv, DaemonInv, RecordsInv, LinkInv, daemon,
       ViewMatchesConnection, ContactsOfConnection
<1>9. CASE c = "bc"
  <2>1. /\ DOMAIN up' = Clients /\ up'["qt"] = up["qt"]
        /\ up'["bc"] = SubSeq(up["bc"], k + 1, Len(up["bc"]))
        /\ down' = down
    BY <1>5, <1>7, <1>9 DEF Clients, add_peer
  <2>2. k \in Nat /\ k <= Len(up["bc"])
    BY <1>7, <1>9, LenProperties
  <2>3. SubSeq(up["bc"], k + 1, Len(up["bc"])) \in Seq(Halves)
    BY <1>7, <2>2, CutText
  <2>4. AskedInv'
    BY <1>1, <1>6, <1>7, <2>1, <2>3 DEF AskedInv, ControlInv
  <2>5. QED
    BY <1>1, <1>6, <2>4 DEF ControlInv, DaemonInv, RecordsInv, LinkInv, daemon,
       ViewMatchesConnection, ContactsOfConnection
<1>10. QED
  BY <1>8, <1>9 DEF Clients

\* A connection that breaks loses what was under way and nothing else: the
\* client has not been told yet.
LEMMA EventCbKeeps ==
    ASSUME ControlInv, NEW c \in Clients, client_mc_event_cb(c)
    PROVE  ControlInv'
<1>1. /\ conn[c] = "open" /\ history.losses < MaxLosses
      /\ conn' = [conn EXCEPT ![c] = "dead"]
      /\ up' = [up EXCEPT ![c] = << >>]
      /\ accepted' = accepted \ {c} /\ bevs' = bevs \ {c}
      /\ history' = [history EXCEPT !.losses = @ + 1]
      /\ UNCHANGED <<tls, mc_client, qt, bc, net>>
  BY DEF client_mc_event_cb
<1>2. down' = down \/ down' = << >>
  BY DEF client_mc_event_cb
<1>3. history' \in History /\ history'.asked = history.asked
  BY <1>1, ControlAssumption DEF ControlInv, RecordsInv, History
<1>4. DaemonInv'
  BY <1>1 DEF ControlInv, DaemonInv
<1>5. RecordsInv'
  BY <1>1, <1>3 DEF ControlInv, RecordsInv
<1>6. AskedInv'
  <2>1. /\ DOMAIN up' = Clients
        /\ up'["bc"] = up["bc"] \/ up'["bc"] = << >>
        /\ up'["qt"] = up["qt"] \/ up'["qt"] = << >>
    BY <1>1 DEF ControlInv, AskedInv, Clients
  <2>2. QED
    BY <1>1, <1>2, <1>3, <2>1, EmptySeq DEF ControlInv, AskedInv
<1>7. LinkInv'
  <2>1. (conn'["qt"] \in {"none", "syn"}) <=> (conn["qt"] \in {"none", "syn"})
    BY <1>1 DEF ControlInv, DaemonInv, Clients
  <2>2. QED
    BY <1>1, <2>1 DEF ControlInv, LinkInv, ViewMatchesConnection, ContactsOfConnection
<1>8. QED
  BY <1>4, <1>5, <1>6, <1>7 DEF ControlInv

\* What the buffer of the broadcaster holds is text of nodes, and it is the
\* text of the sender when no longer text was there.
LEMMA ReceivedIs ==
    ASSUME NEW n \in Nodes, NEW buffer \in Seq(Nodes)
    PROVE  /\ Received(n, buffer) \in Seq(Nodes)
           /\ Len(buffer) <= n => Received(n, buffer) = NodeText(n)
<1>1. n \in Nat /\ Len(buffer) \in Nat
  BY ControlAssumption, LenProperties
<1>2. NodeText(n) \in Seq(Nodes)
  <2>1. NodeText(n) \in [1..n -> Nodes]
    BY DEF NodeText
  <2>2. QED
    BY <1>1, <2>1, SeqDef
<1>3. SubSeq(buffer, n + 1, Len(buffer)) \in Seq(Nodes)
  BY <1>1, CutText
<1>4. ASSUME Len(buffer) <= n PROVE SubSeq(buffer, n + 1, Len(buffer)) = << >>
  <2>1. n + 1 \in Int /\ Len(buffer) \in Int /\ Len(buffer) < n + 1
    BY <1>1, <1>4
  <2>2. QED
    BY <2>1, SubSeqEmpty
<1>5. QED
  BY <1>2, <1>3, <1>4, ConcatProperties, ConcatEmptySeq DEF Received

\* An announcement changes the broadcaster and what it sends, and nothing of
\* the Qt client.
LEMMA RecvKeeps ==
    ASSUME ControlInv, NEW n \in Nodes, handl_recv(n)
    PROVE  ControlInv'
<1> DEFINE data == Received(n, bc.buffer)
           bite == Text("ADD", <<"bite">>)
<1>1. /\ net' \in {net, net \ {n}}
      /\ up' = up \/ up' = [up EXCEPT !["bc"] = bite]
      /\ UNCHANGED <<daemon, conn, down, qt, history>>
  BY DEF handl_recv
<1>2. bc' \in Broadcaster
  <2>1. bc \in Broadcaster /\ bc.buffer \in Seq(Nodes)
    BY DEF ControlInv, RecordsInv, Broadcaster
  <2>2. data \in Seq(Nodes)
    BY <2>1, ReceivedIs
  <2>3. PICK w \in BOOLEAN, o \in BOOLEAN :
          bc' = [bc EXCEPT !.buffer = data,
                           !.stream = @ /\ (w => o),
                           !.from   = IF w THEN n ELSE @,
                           !.sent   = IF w THEN data ELSE @]
    BY <2>1 DEF handl_recv, Broadcaster
  <2>4. n \in Chars
    BY DEF Chars
  <2> HIDE DEF data
  <2>5. QED
    BY <2>1, <2>2, <2>3, <2>4 DEF Broadcaster
<1>3. AskedInv'
  <2>1. bite \in Seq(Halves)
    <3>1. <<"bite">> \in Seq({"bite"})
      OBVIOUS
    <3>2. \A x \in {"bite"} : <<"ADD", x, 1>> \in Halves /\ <<"ADD", x, 2>> \in Halves
      BY DEF Halves
    <3>3. QED
      BY <3>1, <3>2, TextTyped
  <2> HIDE DEF bite
  <2>2. /\ DOMAIN up' = Clients /\ up'["qt"] = up["qt"]
        /\ up'["bc"] = up["bc"] \/ up'["bc"] = bite
    BY <1>1 DEF ControlInv, AskedInv, Clients
  <2>3. QED
    BY <1>1, <2>1, <2>2 DEF ControlInv, AskedInv
<1>4. QED
  BY <1>1, <1>2, <1>3 DEF ControlInv, DaemonInv, RecordsInv, LinkInv, daemon,
     ViewMatchesConnection, ContactsOfConnection

\* An announcement under way changes nothing else.
LEMMA AnnounceKeeps ==
    ASSUME ControlInv, NEW n \in Nodes, handle_announce(n)
    PROVE  ControlInv'
BY DEF handle_announce, ControlInv, DaemonInv, RecordsInv, AskedInv, LinkInv,
   daemon, ViewMatchesConnection, ContactsOfConnection

-----------------------------------------------------------------------------
(* The steps of the Qt client *)

\* Network::disconnected leaves the client without connection, in the window
\* for one, and keeps the list.
LEMMA DisconnectedIs ==
    ASSUME NEW q \in QtClient
    PROVE  /\ Disconnected(q) \in QtClient
           /\ Disconnected(q).isConnected = FALSE
           /\ Disconnected(q).state = "CONNEXION"
           /\ Disconnected(q).contacts = {}
           /\ Disconnected(q).socket = << >>
           /\ Disconnected(q).list = q.list
BY EmptySeq DEF Disconnected, ControllerDisconnected, ClearContacts,
   ViewDisconnected, QtClient, Bodies

\* Dialling, and a dialling that fails, leave the client without connection.
LEMMA DialKeeps ==
    ASSUME ControlInv,
           (\E a \in Addresses : changeRootNode(a)) \/ error
    PROVE  ControlInv'
<1>1. /\ UNCHANGED <<daemon, up, down, qt, bc, net, history>>
      /\ conn["qt"] \in {"none", "syn"}
      /\ \E x \in {"none", "syn"} : conn' = [conn EXCEPT !["qt"] = x]
  BY DEF changeRootNode, error
<1>2. conn' \in [Clients -> {"none", "syn", "open", "dead"}] /\ conn'["qt"] \in {"none", "syn"}
  BY <1>1 DEF ControlInv, DaemonInv, Clients
<1>3. QED
  BY <1>1, <1>2 DEF ControlInv, DaemonInv, RecordsInv, AskedInv, LinkInv, daemon,
     ViewMatchesConnection, ContactsOfConnection

\* The connection and the window change together.
LEMMA ConnectedKeeps ==
    ASSUME ControlInv, connected
    PROVE  ControlInv'
<1>1. /\ conn["qt"] = "syn" /\ conn' = [conn EXCEPT !["qt"] = "open"]
      /\ qt' = [ViewConnected(qt) EXCEPT !.isConnected = TRUE]
      /\ history' = [history EXCEPT !.garbled = FALSE, !.refused = {}]
      /\ UNCHANGED <<daemon, up, down, bc, net>>
  BY DEF connected
<1>2. qt \in QtClient /\ qt.state = "CONNEXION"
  BY <1>1 DEF ControlInv, RecordsInv, LinkInv, ViewMatchesConnection
<1>3. changeNextBody(qt.state, "MAIN") = "MAIN"
  BY <1>2 DEF changeNextBody
<1>4. /\ qt' \in QtClient /\ qt'.isConnected /\ qt'.state = "MAIN"
      /\ qt'.list = qt.list /\ qt'.socket = qt.socket
  BY <1>1, <1>2, <1>3 DEF ViewConnected, QtClient, Bodies
<1>5. history' \in History /\ history'.asked = history.asked
  BY <1>1 DEF ControlInv, RecordsInv, History
<1>6. conn' \in [Clients -> {"none", "syn", "open", "dead"}] /\ conn'["qt"] = "open"
  BY <1>1 DEF ControlInv, DaemonInv, Clients
<1>7. DaemonInv' /\ RecordsInv'
  BY <1>1, <1>4, <1>5, <1>6 DEF ControlInv, DaemonInv, RecordsInv, daemon
<1>8. AskedInv'
  BY <1>1, <1>4, <1>5 DEF ControlInv, AskedInv
<1>9. LinkInv'
  BY <1>4, <1>6 DEF LinkInv, ViewMatchesConnection, ContactsOfConnection
<1>10. QED
  BY <1>7, <1>8, <1>9 DEF ControlInv

\* The end of the connection is noticed by the event loop.
LEMMA DisconnectedKeeps ==
    ASSUME ControlInv, disconnected
    PROVE  ControlInv'
<1>1. /\ qt' = Disconnected(qt) /\ conn' = [conn EXCEPT !["qt"] = "none"]
      /\ down' = << >>
      /\ UNCHANGED <<daemon, up, bc, net, history>>
  BY DEF disconnected, Closed
<1>2. /\ qt' \in QtClient /\ qt'.isConnected = FALSE /\ qt'.state = "CONNEXION"
      /\ qt'.contacts = {} /\ qt'.socket = << >> /\ qt'.list = qt.list
  BY <1>1, DisconnectedIs DEF ControlInv, RecordsInv
<1>3. conn' \in [Clients -> {"none", "syn", "open", "dead"}] /\ conn'["qt"] = "none"
  BY <1>1 DEF ControlInv, DaemonInv, Clients
<1>4. DaemonInv' /\ RecordsInv'
  BY <1>1, <1>2, <1>3 DEF ControlInv, DaemonInv, RecordsInv, daemon
<1>5. AskedInv'
  BY <1>1, <1>2, EmptySeq DEF ControlInv, AskedInv
<1>6. LinkInv'
  BY <1>2, <1>3 DEF LinkInv, ViewMatchesConnection, ContactsOfConnection
<1>7. QED
  BY <1>4, <1>5, <1>6 DEF ControlInv

\* A write either leaves the client as it is, or runs Network::disconnected.
\* The bytes between the client and the daemon are about the contacts A when
\* those that were written are.
LEMMA WriteLeaves ==
    ASSUME ControlInv, NEW A, history.asked \subseteq A,
           NEW text \in Seq(HalvesFor(A)), NEW q, NEW r, Write(text, q, r)
    PROVE  /\ DOMAIN up' = Clients
           /\ up'["bc"] \in Seq(Halves)
           /\ up'["qt"] \in Seq(HalvesFor(A))
           /\ down' \in Seq(HalvesFor(A))
           /\ \/ r = q /\ conn' = conn
              \/ /\ r = Disconnected(q)
                 /\ conn' = [conn EXCEPT !["qt"] = "none"]
<1>1. /\ DOMAIN up = Clients /\ up["bc"] \in Seq(Halves)
      /\ up["qt"] \in Seq(HalvesFor(A)) /\ down \in Seq(HalvesFor(A))
  BY HalvesGrow, SeqMonotonic DEF ControlInv, AskedInv
<1>2. up' = up \/ up' = [up EXCEPT !["qt"] = @ \o text]
  BY DEF Write
<1>3. /\ DOMAIN up' = Clients /\ up'["bc"] = up["bc"]
      /\ up'["qt"] = up["qt"] \/ up'["qt"] = up["qt"] \o text
  BY <1>1, <1>2 DEF Clients
<1>4. up["qt"] \o text \in Seq(HalvesFor(A))
  BY <1>1, ConcatProperties
<1>5. down' = down \/ down' = << >>
  BY DEF Write, Closed
<1>6. \/ r = q /\ conn' = conn
      \/ r = Disconnected(q) /\ conn' = [conn EXCEPT !["qt"] = "none"]
  BY DEF Write, Closed
<1>7. QED
  BY <1>1, <1>3, <1>4, <1>5, <1>6, EmptySeq

\* A connection that ends inside addContact leaves the client disconnected:
\* the window it goes back to afterwards is the one for a connection.
LEMMA AddContactKeeps ==
    ASSUME ControlInv, NEW name \in Names, addContact(name)
    PROVE  ControlInv'
<1> DEFINE q == AddToModel(qt, name)
           A == history.asked \cup {name}
<1>1. PICK r : Write(Text("ADD", <<name>>), q, r) /\ qt' = PrevBody(r)
  BY DEF addContact, addContact_accepted
<1>2. /\ qt.state = "ADDCONTACT" /\ history.adds < MaxAdds
      /\ history' = [history EXCEPT !.adds = @ + 1, !.asked = @ \cup {name}]
      /\ UNCHANGED <<daemon, bc, net>>
  BY DEF addContact
<1>3. qt \in QtClient /\ history \in History
  BY DEF ControlInv, RecordsInv
<1>4. history' \in History /\ history'.asked = A
  <2>1. history.adds \in 0..MaxAdds /\ A \in SUBSET Names
    BY <1>3 DEF History
  <2>2. PICK m \in 0..MaxAdds : m = history.adds + 1
    BY <1>2, <2>1, ControlAssumption
  <2>3. history' = [history EXCEPT !.adds = m, !.asked = A]
    BY <1>2, <2>2
  <2> HIDE DEF A
  <2>4. QED
    BY <1>3, <2>1, <2>3 DEF History
<1>5. /\ q \in QtClient /\ q.state = "ADDCONTACT" /\ q.isConnected = qt.isConnected
      /\ q.list = qt.list /\ q.socket = qt.socket
  BY <1>2, <1>3 DEF AddToModel, QtClient
<1>6. Text("ADD", <<name>>) \in Seq(HalvesFor(A))
  <2>1. <<name>> \in Seq({name})
    OBVIOUS
  <2>2. \A x \in {name} : /\ <<"ADD", x, 1>> \in HalvesFor(A)
                          /\ <<"ADD", x, 2>> \in HalvesFor(A)
    BY DEF HalvesFor, Halves
  <2> HIDE DEF A
  <2>3. QED
    BY <2>1, <2>2, TextTyped
<1>7. history.asked \subseteq A
  OBVIOUS
<1>8. /\ qt.isConnected
      /\ qt.socket \in Seq(HalvesFor(A)) /\ qt.list \in Seq(A)
  BY <1>2, <1>7, HalvesGrow, SeqMonotonic DEF ControlInv, AskedInv, LinkInv, ViewMatchesConnection
<1> HIDE DEF q, A
<1>9. /\ DOMAIN up' = Clients /\ up'["bc"] \in Seq(Halves)
      /\ up'["qt"] \in Seq(HalvesFor(A)) /\ down' \in Seq(HalvesFor(A))
      /\ \/ r = q /\ conn' = conn
         \/ r = Disconnected(q) /\ conn' = [conn EXCEPT !["qt"] = "none"]
  BY <1>1, <1>6, <1>7, WriteLeaves
<1>10. CASE r = q /\ conn' = conn
  <2>1. changePrevBody(q.state) = "MAIN"
    BY <1>5 DEF changePrevBody
  <2>2. /\ qt' \in QtClient /\ qt'.state = "MAIN" /\ qt'.isConnected = qt.isConnected
        /\ qt'.list = qt.list /\ qt'.socket = qt.socket
    BY <1>1, <1>5, <1>10, <2>1 DEF PrevBody, QtClient, Bodies
  <2>3. DaemonInv' /\ RecordsInv'
    BY <1>2, <1>4, <1>10, <2>2 DEF ControlInv, DaemonInv, RecordsInv, daemon
  <2>4. AskedInv'
    BY <1>4, <1>8, <1>9, <2>2 DEF AskedInv
  <2>5. LinkInv'
    BY <1>8, <1>10, <2>2 DEF ControlInv, LinkInv, ViewMatchesConnection, ContactsOfConnection
  <2>6. QED
    BY <2>3, <2>4, <2>5 DEF ControlInv
<1>11. CASE r = Disconnected(q) /\ conn' = [conn EXCEPT !["qt"] = "none"]
  <2>1. /\ r \in QtClient /\ r.isConnected = FALSE /\ r.state = "CONNEXION"
        /\ r.contacts = {} /\ r.socket = << >> /\ r.list = qt.list
    BY <1>5, <1>11, DisconnectedIs
  <2>2. changePrevBody(r.state) = "CONNEXION"
    BY <2>1 DEF changePrevBody
  <2>3. /\ qt' \in QtClient /\ qt'.state = "CONNEXION" /\ qt'.isConnected = FALSE
        /\ qt'.contacts = {} /\ qt'.list = qt.list /\ qt'.socket = << >>
    BY <1>1, <2>1, <2>2 DEF PrevBody, QtClient, Bodies
  <2>4. conn' \in [Clients -> {"none", "syn", "open", "dead"}] /\ conn'["qt"] = "none"
    BY <1>11 DEF ControlInv, DaemonInv, Clients
  <2>5. DaemonInv' /\ RecordsInv'
    BY <1>2, <1>4, <2>3, <2>4 DEF ControlInv, DaemonInv, RecordsInv, daemon
  <2>6. AskedInv'
    BY <1>4, <1>8, <1>9, <2>3, EmptySeq DEF AskedInv
  <2>7. LinkInv'
    BY <2>3, <2>4 DEF LinkInv, ViewMatchesConnection, ContactsOfConnection
  <2>8. QED
    BY <2>5, <2>6, <2>7 DEF ControlInv
<1>12. QED
  BY <1>9, <1>10, <1>11

\* Deleting contacts shortens the list, whatever becomes of the connection
\* while the daemon is told.
LEMMA DeleteContactKeeps ==
    ASSUME ControlInv, deleteContact
    PROVE  ControlInv'
<1> DEFINE A == history.asked
<1>1. qt.state = "MAIN" /\ UNCHANGED <<daemon, bc, net, history>>
  BY DEF deleteContact
<1>2. PICK selected \in SUBSET (1..Len(qt.list)) :
        \E peers \in At(qt.list, selected),
           kept \in At(qt.list, (1..Len(qt.list)) \ selected) :
        \E r : Write(DeleteCommand(peers), qt, r) /\ qt' = [r EXCEPT !.list = kept]
  BY DEF deleteContact
<1>3. PICK peers \in At(qt.list, selected),
           kept \in At(qt.list, (1..Len(qt.list)) \ selected) :
        \E r : Write(DeleteCommand(peers), qt, r) /\ qt' = [r EXCEPT !.list = kept]
  BY <1>2
<1>4. PICK r : Write(DeleteCommand(peers), qt, r) /\ qt' = [r EXCEPT !.list = kept]
  BY <1>3
<1>5. qt \in QtClient /\ A \subseteq Names /\ qt.list \in Seq(A) /\ qt.socket \in Seq(HalvesFor(A))
  BY DEF ControlInv, RecordsInv, AskedInv, History
<1>6. Len(qt.list) \in Nat /\ \A i \in 1..Len(qt.list) : qt.list[i] \in A
  BY <1>5, LenProperties, ElementOfSeq
<1>7. peers \in Seq(A) /\ kept \in Seq(A)
  <2>1. peers \in Seq(A)
    BY <1>6, AtTyped
  <2>2. kept \in Seq(A)
    <3>1. PICK K : K = (1..Len(qt.list)) \ selected
      OBVIOUS
    <3>2. K \subseteq 1..Len(qt.list) /\ \A i \in K : qt.list[i] \in A
      BY <1>6, <3>1
    <3>3. QED
      BY <1>6, <3>1, <3>2, AtTyped
  <2>3. QED
    BY <2>1, <2>2
<1>8. DeleteCommand(peers) \in Seq(HalvesFor(A))
  <2>1. \A x \in A : /\ <<"DELETE", x, 1>> \in HalvesFor(A)
                     /\ <<"DELETE", x, 2>> \in HalvesFor(A)
    BY <1>5 DEF HalvesFor, Halves
  <2>2. QED
    BY <1>7, <2>1, TextTyped DEF DeleteCommand
<1>9. /\ DOMAIN up' = Clients /\ up'["bc"] \in Seq(Halves)
      /\ up'["qt"] \in Seq(HalvesFor(A)) /\ down' \in Seq(HalvesFor(A))
      /\ \/ r = qt /\ conn' = conn
         \/ r = Disconnected(qt) /\ conn' = [conn EXCEPT !["qt"] = "none"]
  BY <1>4, <1>8, WriteLeaves
<1>10. kept \in Seq(Names)
  BY <1>5, <1>7, SeqMonotonic
<1>11. CASE r = qt /\ conn' = conn
  <2>1. /\ qt' \in QtClient /\ qt'.state = qt.state /\ qt'.isConnected = qt.isConnected
        /\ qt'.contacts = qt.contacts /\ qt'.list = kept /\ qt'.socket = qt.socket
    BY <1>4, <1>5, <1>10, <1>11 DEF QtClient
  <2>2. DaemonInv' /\ RecordsInv'
    BY <1>1, <1>11, <2>1 DEF ControlInv, DaemonInv, RecordsInv, daemon
  <2>3. AskedInv'
    BY <1>1, <1>5, <1>7, <1>9, <2>1 DEF AskedInv
  <2>4. LinkInv'
    BY <1>11, <2>1 DEF ControlInv, LinkInv, ViewMatchesConnection, ContactsOfConnection
  <2>5. QED
    BY <2>2, <2>3, <2>4 DEF ControlInv
<1>12. CASE r = Disconnected(qt) /\ conn' = [conn EXCEPT !["qt"] = "none"]
  <2>1. /\ r \in QtClient /\ r.isConnected = FALSE /\ r.state = "CONNEXION"
        /\ r.contacts = {} /\ r.socket = << >>
    BY <1>5, <1>12, DisconnectedIs
  <2>2. /\ qt' \in QtClient /\ qt'.state = "CONNEXION" /\ qt'.isConnected = FALSE
        /\ qt'.contacts = {} /\ qt'.list = kept /\ qt'.socket = << >>
    BY <1>4, <1>10, <2>1 DEF QtClient
  <2>3. conn' \in [Clients -> {"none", "syn", "open", "dead"}] /\ conn'["qt"] = "none"
    BY <1>12 DEF ControlInv, DaemonInv, Clients
  <2>4. DaemonInv' /\ RecordsInv'
    BY <1>1, <2>2, <2>3 DEF ControlInv, DaemonInv, RecordsInv, daemon
  <2>5. AskedInv'
    BY <1>1, <1>7, <1>9, <2>2, EmptySeq DEF AskedInv
  <2>6. LinkInv'
    BY <2>2, <2>3 DEF LinkInv, ViewMatchesConnection, ContactsOfConnection
  <2>7. QED
    BY <2>4, <2>5, <2>6 DEF ControlInv
<1>13. QED
  BY <1>9, <1>11, <1>12

\* Going to the window for a new contact and back keeps the connection.
LEMMA WindowKeeps ==
    ASSUME ControlInv, viewAddContact \/ unuseAddContact
    PROVE  ControlInv'
<1>1. /\ UNCHANGED <<daemon, conn, up, down, bc, net, history>>
      /\ qt.state \in {"MAIN", "ADDCONTACT"}
      /\ \E x \in {"MAIN", "ADDCONTACT"} : qt' = [qt EXCEPT !.state = x]
  <2>1. /\ qt.state = "MAIN" => changeNextBody(qt.state, "ADDCONTACT") = "ADDCONTACT"
        /\ qt.state = "ADDCONTACT" => changePrevBody(qt.state) = "MAIN"
    BY DEF changeNextBody, changePrevBody
  <2>2. QED
    BY <2>1 DEF viewAddContact, unuseAddContact, PrevBody
<1>2. /\ qt' \in QtClient /\ qt'.state # "CONNEXION" /\ qt'.isConnected = qt.isConnected
      /\ qt'.contacts = qt.contacts /\ qt'.list = qt.list /\ qt'.socket = qt.socket
  BY <1>1 DEF ControlInv, RecordsInv, QtClient, Bodies
<1>3. QED
  BY <1>1, <1>2 DEF ControlInv, DaemonInv, RecordsInv, AskedInv, LinkInv, daemon,
     ViewMatchesConnection, ContactsOfConnection

\* What the client shows comes from the answers it got.
LEMMA ReadKeepsClient ==
    ASSUME ControlInv, read
    PROVE  ControlInv'
<1> DEFINE A == history.asked
           Arrived(k) == qt.socket \o SubSeq(down, 1, k)
           Cmds(k, j) == [i \in 1..j |-> Command(Arrived(k), i)]
           Effect(k, j, list) ==
               /\ down' = SubSeq(down, k + 1, Len(down))
               /\ qt' = [qt EXCEPT !.socket = Unread(Arrived(k), j), !.list = list]
               /\ history' = [history EXCEPT !.garbled = @ \/ Len(Arrived(k)) > 2]
<1>1. UNCHANGED <<daemon, conn, up, bc, net>>
  BY DEF read
<1>2. PICK k \in 1..Len(down) : \E j \in tclt_dispatch_command(Arrived(k)) :
        \E list \in Controll(qt.list, Cmds(k, j)) : Effect(k, j, list)
  BY Zenon DEF read
<1>3. PICK j \in tclt_dispatch_command(Arrived(k)) :
        \E list \in Controll(qt.list, Cmds(k, j)) : Effect(k, j, list)
  BY <1>2
<1>4. PICK list \in Controll(qt.list, Cmds(k, j)) : Effect(k, j, list)
  BY <1>3
<1>5. /\ qt \in QtClient /\ A \subseteq Names /\ qt.list \in Seq(A)
      /\ down \in Seq(HalvesFor(A)) /\ qt.socket \in Seq(HalvesFor(A))
  BY DEF ControlInv, RecordsInv, AskedInv, History
<1>6. k \in Nat /\ k <= Len(down)
  BY <1>5, LenProperties
<1>7. /\ SubSeq(down, k + 1, Len(down)) \in Seq(HalvesFor(A))
      /\ Arrived(k) \in Seq(HalvesFor(A))
  BY <1>5, <1>6, CutText, ConcatProperties
<1>8. list \in Seq(A)
  <2>1. PICK cmds : cmds = Cmds(k, j)
    OBVIOUS
  <2>2. PICK U : U = {i \in 1..Len(cmds) : cmds[i].op = "ADD"}
    OBVIOUS
  <2>3. PICK names \in At(Ids(cmds), U) : list = qt.list \o names
    BY <2>1, <2>2 DEF Controll, addNewPeer
  <2>4. names \in Seq(A)
    BY <1>7, <2>1, <2>2, <2>3, AddsTyped
  <2>5. QED
    BY <1>5, <2>3, <2>4, ConcatProperties
<1>9. Unread(Arrived(k), j) \in Seq(HalvesFor(A))
  BY <1>7, EmptySeq DEF Unread
<1>10. PICK g \in BOOLEAN : history' = [history EXCEPT !.garbled = @ \/ g]
  BY <1>4, Zenon
<1>11. PICK left : /\ left \in Seq(HalvesFor(A))
                  /\ down' \in Seq(HalvesFor(A))
                  /\ qt' = [qt EXCEPT !.socket = left, !.list = list]
  BY <1>4, <1>7, <1>9
<1>12. left \in Seq(Halves) /\ list \in Seq(Names)
  BY <1>5, <1>8, <1>11, HalvesGrow, SeqMonotonic
<1>13. /\ qt' \in QtClient /\ qt'.socket = left /\ qt'.list = list
       /\ qt'.isConnected = qt.isConnected /\ qt'.state = qt.state
       /\ qt'.contacts = qt.contacts
  BY <1>5, <1>11, <1>12 DEF QtClient
<1>14. history' \in History /\ history'.asked = A
  BY <1>10 DEF ControlInv, RecordsInv, History
<1>15. AskedInv'
  BY <1>1, <1>8, <1>11, <1>13, <1>14 DEF ControlInv, AskedInv
<1>16. QED
  BY <1>1, <1>13, <1>14, <1>15 DEF ControlInv, DaemonInv, RecordsInv, LinkInv, daemon,
     ViewMatchesConnection, ContactsOfConnection

-----------------------------------------------------------------------------
(* The theorems *)

\* Every step keeps the invariant.
LEMMA ControlNextKeeps == ControlInv /\ [Next]_vars => ControlInv'
<1> SUFFICES ASSUME ControlInv, [Next]_vars PROVE ControlInv'
  OBVIOUS
<1>1. CASE UNCHANGED vars
  BY <1>1 DEF vars, ControlInv, DaemonInv, RecordsInv, AskedInv, LinkInv,
     ViewMatchesConnection, ContactsOfConnection
<1>2. CASE \E c \in Clients : listen_client_callback(c) \/ client_mc_read_cb(c)
                              \/ client_mc_event_cb(c)
  BY <1>2, AcceptKeeps, ReadCbKeeps, EventCbKeeps
<1>3. CASE (\E a \in Addresses : changeRootNode(a)) \/ error
  BY <1>3, DialKeeps
<1>4. CASE connected \/ disconnected
  BY <1>4, ConnectedKeeps, DisconnectedKeeps
<1>5. CASE \E name \in Names : addContact(name)
  BY <1>5, AddContactKeeps
<1>6. CASE deleteContact \/ viewAddContact \/ unuseAddContact \/ read
  BY <1>6, DeleteContactKeeps, WindowKeeps, ReadKeepsClient
<1>7. CASE \E n \in Nodes : handle_announce(n) \/ handl_recv(n)
  BY <1>7, AnnounceKeeps, RecvKeeps
<1>8. QED
  BY <1>1, <1>2, <1>3, <1>4, <1>5, <1>6, <1>7 DEF Next

\* The invariant holds in every state.
LEMMA ControlInvariant == Spec => []ControlInv
<1>1. Init => ControlInv
  BY ControlStarts
<1>2. ControlInv /\ [Next]_vars => ControlInv'
  BY ControlNextKeeps
<1>3. QED
  BY <1>1, <1>2, PTL DEF Spec

\* The state of both clients and of their connections is well formed.
THEOREM ControlTyped == Spec => []TypeOK
<1>1. ControlInv => TypeOK
  <2> SUFFICES ASSUME ControlInv PROVE TypeOK
    OBVIOUS
  <2>1. \A c \in Clients : up[c] \in Seq(Halves)
    BY HalvesGrow, SeqMonotonic DEF ControlInv, AskedInv, Clients
  <2>2. down \in Seq(Halves)
    BY HalvesGrow, SeqMonotonic DEF ControlInv, AskedInv
  <2>3. /\ qt.isConnected \in BOOLEAN /\ qt.state \in Bodies
        /\ qt.contacts \subseteq Names /\ qt.list \in Seq(Names)
        /\ qt.socket \in Seq(Halves)
    BY DEF ControlInv, RecordsInv, QtClient
  <2>4. /\ bc.stream \in BOOLEAN /\ bc.buffer \in Seq(Nodes)
        /\ bc.from \in Chars /\ bc.sent \in Seq(Nodes)
    BY DEF ControlInv, RecordsInv, Broadcaster
  <2>5. /\ history.asked \subseteq Names /\ history.refused \subseteq Names
        /\ history.garbled \in BOOLEAN
        /\ history.adds \in 0..MaxAdds /\ history.losses \in 0..MaxLosses
    BY DEF ControlInv, RecordsInv, History
  <2>6. QED
    BY <2>1, <2>2, <2>3, <2>4, <2>5 DEF TypeOK, ControlInv, DaemonInv
<1>2. QED
  BY <1>1, ControlInvariant, PTL

\* The window and the contacts of the Qt client follow its connection, also
\* when Network::disconnected runs inside a slot, and its list shows only
\* contacts that its user added, although the daemon has one slot for clients.
THEOREM ClientCorrect == Spec => []ClientFollowsConnection
<1>1. ControlInv => ClientFollowsConnection
  <2> SUFFICES ASSUME ControlInv PROVE ClientFollowsConnection
    OBVIOUS
  <2>1. ShownWasAsked
    BY ElementOfSeq DEF ControlInv, AskedInv, ShownWasAsked
  <2>2. QED
    BY <2>1 DEF ControlInv, LinkInv, ClientFollowsConnection
<1>2. QED
  BY <1>1, ControlInvariant, PTL

\* The broadcaster reports a node as it announced itself, unless a longer
\* announcement is in the buffer that handl_recv does not clear.
THEOREM ReportsIntact == Spec => ReportedIntact
<1> DEFINE Intact == bc'.sent # bc.sent => \/ bc'.sent = NodeText(bc'.from)
                                           \/ Len(bc.buffer) > bc'.from
<1>1. ControlInv /\ [Next]_vars => [Intact]_vars
  <2> SUFFICES ASSUME ControlInv, Next, bc'.sent # bc.sent
               PROVE  Intact
    OBVIOUS
  <2>1. bc \in Broadcaster /\ bc.buffer \in Seq(Nodes)
    BY DEF ControlInv, RecordsInv, Broadcaster
  <2>2. PICK n \in Nodes : handl_recv(n)
    BY DEF Next, listen_client_callback, client_mc_read_cb, client_mc_event_cb,
       changeRootNode, connected, error, disconnected, addContact, deleteContact,
       viewAddContact, unuseAddContact, read, handle_announce
  <2>3. bc'.sent = Received(n, bc.buffer) /\ bc'.from = n
    BY <2>1, <2>2 DEF handl_recv, Broadcaster
  <2>4. Len(bc.buffer) <= n => bc'.sent = NodeText(n)
    BY <2>1, <2>3, ReceivedIs
  <2>5. n \in Nat /\ Len(bc.buffer) \in Nat
    BY <2>1, ControlAssumption, LenProperties
  <2>6. QED
    BY <2>3, <2>4, <2>5
<1>2. QED
  BY <1>1, ControlInvariant, PTL DEF Spec, ReportedIntact

=============================================================================
