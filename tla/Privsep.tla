------------------------------ MODULE Privsep ------------------------------
(***************************************************************************)
(* The two processes of a daemon: the privileged parent of                 *)
(* sys/unix/tnetacled.c and the unprivileged child of                      *)
(* sys/unix/tnetacle.c.  They start, exchange the messages that create     *)
(* the tap device over a socket pair, and stop on signals.                 *)
(*                                                                         *)
(* The socket pair is the FIFO of messages Imsg implements.  Both ends     *)
(* watch it with one edge-triggered event (EV_ET): an edge is reported     *)
(* once, and the handlers remember what was ready in is_ready_read and     *)
(* is_ready_write.  SIGINT is handled like SIGTERM.                        *)
(***************************************************************************)
EXTENDS Naturals, Sequences

CONSTANTS MaxTerm  \* bound: SIGTERMs from outside

ASSUME PrivsepAssumption == MaxTerm \in Nat

\* Phases of main, from tnt_fork on.  init: SIGTERM has its default action.
\* sigs: the sigterm event is added.  armed: the sigchld event is added.
\* killed: a signal ended the process without its cleanup.
ParentStates == {"init", "sigs", "armed", "loop", "exit", "gone", "killed"}

\* Phases of tnt_fork in the child.  init: before the events are added.
ChildStates == {"init", "loop", "gone"}

VARIABLES
    parent, child,
    sigchld_recv,      \* set by init_sig_hdlr
    caught,            \* signals libevent caught in the parent
    child_term,        \* libevent caught a SIGTERM in the child
    p2c, c2p,          \* messages in the socket pair
    parent_w, child_w,          \* ibuf.w of each process
    parent_edge, child_edge,    \* edges not reported yet
    parent_ready, child_ready,  \* is_ready_read, is_ready_write
    dev,               \* the parent's tap device
    dev_up,            \* tnt_ttc_set_ip and tnt_ttc_up were called
    device_fd,         \* the child called server_set_device
    terms              \* SIGTERMs so far

channel == <<p2c, c2p, parent_w, child_w, parent_edge, child_edge,
             parent_ready, child_ready>>
device == <<dev, dev_up, device_fd>>
signals == <<sigchld_recv, caught, child_term, terms>>
privsepVars == <<parent, child, channel, device, signals>>

Edges == {"EV_READ", "EV_WRITE"}

ParentAlive == parent \notin {"gone", "killed"}
ChildAlive == child # "gone"

PrivsepInit ==
    /\ parent = "init"
    /\ child = "init"
    /\ sigchld_recv = FALSE
    /\ caught = {}
    /\ child_term = FALSE
    /\ p2c = <<>> /\ c2p = <<>>
    /\ parent_w = <<>> /\ child_w = <<>>
    /\ parent_edge = {} /\ child_edge = {}
    /\ parent_ready = {} /\ child_ready = {}
    /\ dev = "none" /\ dev_up = FALSE /\ device_fd = FALSE
    /\ terms = 0

\* What an edge-triggered event reports first.
FirstEdges(incoming, otherAlive) ==
    IF incoming # <<>> \/ ~otherAlive THEN Edges ELSE {"EV_WRITE"}

----------------------------------------------------------------------------
(* Signals and the end of a process. *)

\* The child ends: the parent gets SIGCHLD, by init_sig_hdlr or by libevent,
\* and its end of the socket pair becomes readable.
ChildEnds ==
    /\ child' = "gone"
    /\ sigchld_recv' = (sigchld_recv \/ parent \in {"init", "sigs"})
    /\ caught' = IF parent \in {"armed", "loop"} THEN caught \cup {"SIGCHLD"}
                 ELSE caught
    /\ parent_edge' = IF parent \in {"sigs", "armed", "loop"}
                      THEN parent_edge \cup {"EV_READ"} ELSE parent_edge

\* The child fails in its initialisation (log_err, log_errx) or crashes.
child_dies ==
    /\ ChildAlive
    /\ ChildEnds
    /\ UNCHANGED <<parent, child_term, p2c, c2p, parent_w, child_w, child_edge,
                   parent_ready, child_ready, device, terms>>

\* Mutant: SIGTERM keeps its default action in the loop.
DefaultAction_loop == {"init", "sigs", "armed", "loop"}

\* Where SIGTERM still has its default action: before event_add of sigterm.
DefaultAction == {"init"}

\* SIGTERM from outside to the parent.
term_parent ==
    /\ terms < MaxTerm
    /\ terms' = terms + 1
    /\ \/ /\ parent \in DefaultAction
          /\ parent' = "killed"
          /\ child_edge' = IF child = "loop" THEN child_edge \cup {"EV_READ"}
                           ELSE child_edge
          /\ UNCHANGED caught
       \/ /\ parent \in {"sigs", "armed", "loop"} \ DefaultAction
          /\ caught' = caught \cup {"SIGTERM"}
          /\ UNCHANGED <<parent, child_edge>>
    /\ UNCHANGED <<child, sigchld_recv, child_term, p2c, c2p, parent_w, child_w,
                   parent_edge, parent_ready, child_ready, device>>

\* SIGTERM from outside to the child, once its event is added.
term_child ==
    /\ terms < MaxTerm
    /\ terms' = terms + 1
    /\ child = "loop"
    /\ child_term' = TRUE
    /\ UNCHANGED <<parent, child, sigchld_recv, caught, channel, device>>

----------------------------------------------------------------------------
(* The parent: main. *)

\* event_add of the socket pair, sigint and sigterm.
parent_add_events ==
    /\ parent = "init"
    /\ parent' = "sigs"
    /\ parent_edge' = FirstEdges(c2p, ChildAlive)
    /\ UNCHANGED <<child, p2c, c2p, parent_w, child_w, child_edge, parent_ready,
                   child_ready, device, signals>>

\* event_add of sigchld: from now on libevent catches it.
parent_add_sigchld ==
    /\ parent = "sigs"
    /\ parent' = "armed"
    /\ UNCHANGED <<child, channel, device, signals>>

\* Mutant: sigchld_recv is not looked at.
dispatch_unchecked ==
    /\ parent = "armed"
    /\ parent' = "loop"
    /\ UNCHANGED <<child, channel, device, signals>>

\* The child may be stillborn: then the event loop is not started.
parent_dispatch ==
    /\ parent = "armed"
    /\ parent' = IF sigchld_recv THEN "exit" ELSE "loop"
    /\ UNCHANGED <<child, channel, device, signals>>

\* sig_gen_hdlr: event_base_loopbreak.
sig_gen_hdlr ==
    /\ parent = "loop"
    /\ caught # {}
    /\ parent' = "exit"
    /\ UNCHANGED <<child, channel, device, signals>>

\* tuntap_destroy: the device is gone with the struct.
tnt_ttc_close == dev' = "none"

\* The end of main: the child is sent SIGTERM, the socket and the device are
\* closed.  A child that has not added its events yet dies of the signal.
parent_exit ==
    /\ parent = "exit"
    /\ parent' = "gone"
    /\ child' = IF child = "init" THEN "gone" ELSE child
    /\ child_term' = (child_term \/ child = "loop")
    /\ child_edge' = IF child = "loop" THEN child_edge \cup {"EV_READ"} ELSE child_edge
    /\ parent_w' = <<>>
    /\ tnt_ttc_close
    /\ UNCHANGED <<sigchld_recv, caught, terms, p2c, c2p, child_w, parent_edge,
                   parent_ready, child_ready, dev_up, device_fd>>

Kinds(v) == {v[i] : i \in DOMAIN v}

\* What the handler of a process takes from the socket.
Taken(edge, ready, incoming) ==
    IF "EV_READ" \in edge \cup ready THEN incoming ELSE <<>>

\* Mutant: the flags are not remembered.
Ready_forgets(edge, ready, incoming, otherAlive) == {}

\* The flags after a handler; imsg_read that returns 0 resets is_ready_read,
\* one that finds nothing (-2) does not.
Ready(edge, ready, incoming, otherAlive) ==
    (edge \cup ready) \ (IF incoming = <<>> /\ ~otherAlive THEN {"EV_READ"} ELSE {})

\* dispatch_imsg: the queue of the parent after the messages m.  opened tells
\* whether tnt_ttc_open succeeds.
Reply(m, opened) == IF "CREATE_DEV" \in Kinds(m) /\ opened
                    THEN Append(parent_w, "CREATE_DEV") ELSE parent_w

\* tnt_ttc_open, which may fail, for a CREATE_DEV.
Device(m, opened) == IF "CREATE_DEV" \notin Kinds(m) THEN dev
                     ELSE IF opened THEN "open" ELSE "failed"

\* tnt_ttc_set_ip and tnt_ttc_up for a SET_IP, if there is a device.
Configured(m, device_now) == "SET_IP" \in Kinds(m) /\ device_now = "open"

\* imsg_callback_handler: dispatch_imsg, then one msgbuf_write, which sends one
\* message because each of the parent's has a descriptor.  The parent does
\* not ignore SIGPIPE: writing to a child that is gone kills it.
imsg_callback_handler(opened) ==
    LET m == Taken(parent_edge, parent_ready, c2p)
        queue == Reply(m, opened)
        writes == "EV_WRITE" \in parent_edge \cup parent_ready /\ queue # <<>>
    IN  /\ parent = "loop"
        /\ parent_edge # {}
        /\ parent_edge' = {}
        /\ parent_ready' = Ready(parent_edge, parent_ready, c2p, ChildAlive)
        /\ c2p' = IF m = <<>> THEN c2p ELSE <<>>
        /\ dev' = Device(m, opened)
        /\ dev_up' = (dev_up \/ Configured(m, dev'))
        /\ parent' = IF writes /\ ~ChildAlive THEN "killed" ELSE parent
        /\ parent_w' = IF writes THEN Tail(queue) ELSE queue
        /\ p2c' = IF writes /\ ChildAlive THEN Append(p2c, Head(queue)) ELSE p2c
        /\ child_edge' = IF writes /\ ChildAlive THEN child_edge \cup {"EV_READ"}
                         ELSE child_edge
        /\ UNCHANGED <<child, child_w, child_ready, device_fd, signals>>

----------------------------------------------------------------------------
(* The child: tnt_fork. *)

\* Mutant: the address is asked for together with the device.
start_asks_both ==
    /\ child = "init"
    /\ child' = "loop"
    /\ child_edge' = FirstEdges(p2c, ParentAlive)
    /\ child_w' = <<"CREATE_DEV", "SET_IP">>
    /\ UNCHANGED <<parent, p2c, c2p, parent_w, parent_edge, parent_ready,
                   child_ready, device, signals>>

\* server_init has succeeded, the events are added and the device is asked for.
child_start ==
    /\ child = "init"
    /\ child' = "loop"
    /\ child_edge' = FirstEdges(p2c, ParentAlive)
    /\ child_w' = <<"CREATE_DEV">>
    /\ UNCHANGED <<parent, p2c, c2p, parent_w, parent_edge, parent_ready,
                   child_ready, device, signals>>

\* tnt_dispatch_imsg: the device has come, its address is asked for.
Request(m) == IF "CREATE_DEV" \in Kinds(m) THEN Append(child_w, "SET_IP")
              ELSE child_w

\* tnt_imsg_callback: tnt_dispatch_imsg, which calls server_set_device, then one
\* msgbuf_write, which sends all that is queued.  SIGPIPE is ignored: a failed
\* write resets is_ready_write.
tnt_imsg_callback ==
    LET m == Taken(child_edge, child_ready, p2c)
        queue == Request(m)
        writes == "EV_WRITE" \in child_edge \cup child_ready /\ queue # <<>>
    IN  /\ child = "loop"
        /\ child_edge # {}
        /\ child_edge' = {}
        /\ child_ready' = Ready(child_edge, child_ready, p2c, ParentAlive)
                          \ (IF writes /\ ~ParentAlive THEN {"EV_WRITE"} ELSE {})
        /\ p2c' = IF m = <<>> THEN p2c ELSE <<>>
        /\ device_fd' = (device_fd \/ "CREATE_DEV" \in Kinds(m))
        /\ child_w' = IF writes /\ ParentAlive THEN <<>> ELSE queue
        /\ c2p' = IF writes /\ ParentAlive THEN c2p \o queue ELSE c2p
        /\ parent_edge' = IF writes /\ parent \in {"sigs", "armed", "loop"}
                          THEN parent_edge \cup {"EV_READ"} ELSE parent_edge
        /\ UNCHANGED <<parent, child, parent_w, parent_ready, dev, dev_up, signals>>

\* After the loop the queue is written and cleared, the server deleted, and the
\* child exits.
CleanExit ==
    /\ c2p' = IF ParentAlive THEN c2p \o child_w ELSE c2p
    /\ child_w' = <<>>
    /\ ChildEnds

\* chld_sighdlr: event_base_loopbreak.
chld_sighdlr ==
    /\ child = "loop"
    /\ child_term
    /\ CleanExit
    /\ UNCHANGED <<parent, child_term, p2c, parent_w, child_edge, parent_ready,
                   child_ready, device, terms>>

\* The kernel reports an end of the socket pair writable again, as it does when
\* the other end has read.
write_space ==
    /\ \/ /\ parent = "loop"
          /\ parent_edge' = parent_edge \cup {"EV_WRITE"}
          /\ UNCHANGED child_edge
       \/ /\ child = "loop"
          /\ child_edge' = child_edge \cup {"EV_WRITE"}
          /\ UNCHANGED parent_edge
    /\ UNCHANGED <<parent, child, p2c, c2p, parent_w, child_w, parent_ready,
                   child_ready, device, signals>>

PrivsepNext ==
    \/ child_dies
    \/ term_parent
    \/ term_child
    \/ parent_add_events
    \/ parent_add_sigchld
    \/ parent_dispatch
    \/ sig_gen_hdlr
    \/ parent_exit
    \/ \E opened \in BOOLEAN : imsg_callback_handler(opened)
    \/ child_start
    \/ tnt_imsg_callback
    \/ chld_sighdlr
    \/ write_space

\* Both processes run, and libevent dispatches what is ready.
PrivsepFairness ==
    /\ WF_privsepVars(parent_add_events)
    /\ WF_privsepVars(parent_add_sigchld)
    /\ WF_privsepVars(parent_dispatch)
    /\ WF_privsepVars(sig_gen_hdlr)
    /\ WF_privsepVars(parent_exit)
    /\ WF_privsepVars(\E opened \in BOOLEAN : imsg_callback_handler(opened))
    /\ WF_privsepVars(tnt_imsg_callback)
    /\ WF_privsepVars(chld_sighdlr)

----------------------------------------------------------------------------
(* Properties *)

\* The processes, queues and flags have the values the code gives them.
PrivsepTypeOK ==
    /\ parent \in ParentStates
    /\ child \in ChildStates
    /\ sigchld_recv \in BOOLEAN
    /\ caught \subseteq {"SIGTERM", "SIGCHLD"}
    /\ child_term \in BOOLEAN
    /\ p2c \in Seq({"CREATE_DEV"})
    /\ c2p \in Seq({"CREATE_DEV", "SET_IP"})
    /\ parent_w \in Seq({"CREATE_DEV"})
    /\ child_w \in Seq({"CREATE_DEV", "SET_IP"})
    /\ parent_edge \subseteq Edges
    /\ child_edge \subseteq Edges
    /\ parent_ready \subseteq Edges
    /\ child_ready \subseteq Edges
    /\ dev \in {"none", "open", "failed"}
    /\ dev_up \in BOOLEAN
    /\ device_fd \in BOOLEAN
    /\ terms \in 0..MaxTerm

\* At most one message is under way between the processes.  The handlers call
\* imsg_read and msgbuf_write once per edge, which is only enough because of
\* this: a second message behind the first would wait for an edge that does
\* not come.
OneMessageUnderWay ==
    Len(p2c) + Len(c2p) + Len(parent_w) + Len(child_w) <= 1

\* The parent is never asked to set the address of a device it does not have
\* (the warning of dispatch_imsg is never printed): the child asks after the
\* device has arrived.
AddressAfterDevice ==
    parent = "loop" /\ "SET_IP" \in Kinds(c2p) => dev = "open"

\* The child has a device only if dispatch_imsg of the parent could open one,
\* and a parent that lives keeps its struct device for the SET_IP to come.
DeviceIsShared == device_fd /\ ParentAlive => dev = "open"

\* A parent that a signal ends without its cleanup leaves its child behind,
\* which goes on after "pipe closed".  Such a child never has the device:
\* main adds the sigterm event before it answers a CREATE_DEV, and SIGPIPE
\* only kills a parent whose child is gone.
OrphanHasNoDevice == parent = "killed" /\ ChildAlive => ~device_fd /\ dev # "open"

\* The end of the child is noticed whenever it happens, in the initialisation
\* of the parent (init_sig_hdlr, sigchld_recv) or in its loop (sig_gen_hdlr),
\* and ends the parent.
ChildDeathNoticed == ~ChildAlive ~> ~ParentAlive

\* A parent that ends its loop takes the child with it.
ParentExitStopsChild == parent = "gone" ~> ~ChildAlive

\* The device is set up in both processes, although each edge is reported
\* once, unless opening it fails or a process ends.
DeviceSetUp ==
    child = "loop" ~> \/ device_fd /\ dev_up
                      \/ dev = "failed"
                      \/ ~ChildAlive
                      \/ ~ParentAlive

\* Who has the device: the parent whenever it is asked about it or the child has
\* it, and never a child whose parent was killed.
DeviceOwned == AddressAfterDevice /\ DeviceIsShared /\ OrphanHasNoDevice

\* Neither process stays without the other, once the loop of the parent runs.
ProcessesEndTogether == ChildDeathNoticed /\ ParentExitStopsChild

=============================================================================
