----------------------------- MODULE Protocols -----------------------------
(* The protocols that run one child process per session, each as the record   *)
(* of what its lifecycle methods do: initialize, createSession,               *)
(* doCreateSession, sendInput and closeSession, with the handlers that        *)
(* doCreateSession puts on the process.                                       *)
(*                                                                            *)
(* copies  how many 'output' events one chunk of output causes                *)
(* ends    the event emitted for the process's 'close': 'session-complete',   *)
(*         or 'session-closed' with the entries of the session deleted        *)
(* errors  what the process's 'error' does: it is reported, or the session    *)
(*         is also made inactive                                              *)
(* stop    closeSession: SIGTERM alone, SIGTERM and a timer that escalates,   *)
(*         or 'exit' on the standard input and a timer that sends SIGTERM     *)
(* closed  what closeSession gives its 'session-closed' event: a record with  *)
(*         the session's id, or the bare id                                   *)
(* strict  closeSession returns at once for a session without entries         *)
EXTENDS Naturals

Events == {"session-complete", "session-closed"}

Profile == [copies : 1..2, ends : Events, errors : {"report", "deactivate"},
            stop : {"term", "escalate", "exit"}, closed : {"record", "name"}, strict : BOOLEAN]

(* What LocalProtocol, the protocol of the shells, puts on the process. *)
LocalHandlers == [copies |-> 2, ends |-> "session-closed", errors |-> "deactivate"]

Local == [copies |-> LocalHandlers.copies, ends |-> LocalHandlers.ends,
          errors |-> LocalHandlers.errors,
          stop |-> "escalate", closed |-> "record", strict |-> TRUE]

(* The class that most of the others repeat. *)
Python == [copies |-> 1, ends |-> "session-complete", errors |-> "report",
           stop |-> "escalate", closed |-> "name", strict |-> FALSE]

(* Asks the shell to leave before it signals. *)
PowerShellDirect == [Python EXCEPT !.stop = "exit"]

(* Database clients: a signal without a timer, and an event with a record. *)
Cassandra == [Python EXCEPT !.stop = "term", !.closed = "record"]

Ruby == Python
Java == Python
Node == Python
PHP == Python
GoLang == Python
Rust == Python
DotNet == Python
BMC == Python
Chef == Python
Containerd == Python
DBus == Python
GoTTY == Python
Guacamole == Python
HyperV == Python
ILO == Python
IDRAC == Python
JTAG == Python
LXC == Python
MessageQueue == Python
PSExec == Python
PSRemoting == Python
Puppet == Python
QEMU == Python
SPICE == Python
SaltStack == Python
TTYD == Python
Terraform == Python
VMware == Python
Vagrant == Python
VirtualBox == Python
NamedPipe == Python
Podman == Python

MongoDB == Cassandra
MySQL == Cassandra
PostgreSQL == Cassandra
Redis == Cassandra
SQLite == Cassandra

Interpreters ==
    {Python, Ruby, Java, Node, PHP, GoLang, Rust, DotNet}

Machines ==
    {BMC, HyperV, ILO, IDRAC, QEMU, VMware, Vagrant, VirtualBox, JTAG}

Containers ==
    {Containerd, LXC, Podman}

Services ==
    {Chef, DBus, MessageQueue, NamedPipe, PSExec, PSRemoting,
     PowerShellDirect, Puppet, SaltStack, Terraform}

Displays ==
    {GoTTY, Guacamole, SPICE, TTYD}

Databases ==
    {Cassandra, MongoDB, MySQL, PostgreSQL, Redis, SQLite}

AllProfiles == {Local} \cup Interpreters \cup Machines \cup Containers \cup Services
               \cup Displays \cup Databases
=============================================================================
