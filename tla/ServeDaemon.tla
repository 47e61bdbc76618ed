------------------------------- MODULE ServeDaemon -------------------------------
(****************************************************************************)
(* `pennyprompt serve --daemon`, `--status` and `--stop`: command processes *)
(* and the daemons they start, which meet at the path of the pid file, at   *)
(* the lock on the file it names, at the port of the proxy and at the path  *)
(* of the admin socket.  A file goes on existing, and stays locked, after   *)
(* its path is removed: an inode has the name of the daemon that made it.   *)
(* Any process may be killed at any step, and a daemon outlives the command *)
(* that started it.                                                         *)
(****************************************************************************)
EXTENDS Naturals, FiniteSets

CONSTANTS
  Commands,  \* command processes that may run at the same time
  Daemons,   \* daemon processes, by pid
  None, Empty

ASSUME NamesAssumption == /\ Commands \cap Daemons = {} /\ None \notin Daemons \cup Commands
                          /\ Empty \notin Daemons

VARIABLES
  path,    \* the inode at the path of the pid file
  content, \* of each inode: the pid written in it
  lock,    \* of each inode: the process that holds its flock
  port,    \* the daemon that listens at the address of the proxy
  socket,  \* the daemon whose socket is at the path of the admin plane
  daemon,  \* the state of each daemon
  command, \* the state of each command
  raced    \* history: a command was started while a daemon, whose command
           \* was killed, had not yet written its pid

vars == <<path, content, lock, port, socket, daemon, command, raced>>
files == <<path, content, lock>>

Unborn == [at |-> "unborn", file |-> None, proxy |-> "none", admin |-> "none",
           handlers |-> FALSE, told |-> FALSE, clients |-> FALSE]
Idle == [is |-> "idle", at |-> "idle", pid |-> None, child |-> None,
         held |-> None, reply |-> "none"]

Init == /\ path = None /\ port = None /\ socket = None
        /\ content = [d \in Daemons |-> Empty]
        /\ lock = [d \in Daemons |-> None]
        /\ daemon = [d \in Daemons |-> Unborn]
        /\ command = [c \in Commands |-> Idle]
        /\ raced = FALSE

--------------------------------------------------------------------------------
(* The daemon: run_serve_daemon_child                                       *)

Alive(d) == daemon[d].at \notin {"unborn", "dead"}
Becomes(d, state) == daemon' = [daemon EXCEPT ![d] = state]
Goto(d, at) == Becomes(d, [daemon[d] EXCEPT !.at = at])

(* Whatever ends a process, the kernel closes what it had open.             *)
Die(d) == /\ Becomes(d, [Unborn EXCEPT !.at = "dead"])
          /\ lock' = [i \in Daemons |-> IF lock[i] = d THEN None ELSE lock[i]]
          /\ port' = IF port = d THEN None ELSE port
          /\ UNCHANGED <<path, content, socket>>

(* ServePidFileLock::acquire: open or create, then try the lock.            *)
OpenPidFile(d) ==
  LET inode == IF path = None THEN d ELSE path IN
  /\ daemon[d].at = "spawned"
  /\ path' = inode /\ Becomes(d, [daemon[d] EXCEPT !.at = "opened", !.file = inode])
  /\ UNCHANGED <<content, lock, port, socket, command, raced>>

Acquire(d) ==
  LET inode == daemon[d].file IN
  /\ daemon[d].at = "opened"
  /\ IF lock[inode] = None
     THEN /\ lock' = [lock EXCEPT ![inode] = d]
          /\ Goto(d, "locked") /\ UNCHANGED <<path, content, port, socket>>
     ELSE Die(d)
  /\ UNCHANGED <<command, raced>>

(* With the lock the file is truncated, and written in a further call.      *)
Truncate(d) ==
  /\ daemon[d].at = "locked"
  /\ content' = [content EXCEPT ![daemon[d].file] = Empty] /\ Goto(d, "truncated")
  /\ UNCHANGED <<path, lock, port, socket, command, raced>>

WriteMetadata(d) ==
  /\ daemon[d].at = "truncated"
  /\ content' = [content EXCEPT ![daemon[d].file] = d] /\ Goto(d, "building")
  /\ UNCHANGED <<path, lock, port, socket, command, raced>>

(* run_serve_with_shutdown: configuration, provider or state may fail.      *)
Build(d) ==
  /\ daemon[d].at = "building"
  /\ \E built \in BOOLEAN : Goto(d, IF built THEN "up" ELSE "served")
  /\ UNCHANGED <<files, port, socket, command, raced>>

(* The tasks of the two planes, and the select that installs the handlers   *)
(* of the signals, start in any order.  A plane that cannot bind ends, and  *)
(* tells the other to shut down; a plane told so binds all the same.        *)
Up(d) == daemon[d].at \in {"up", "draining"}

BindProxy(d) ==
  /\ Up(d) /\ daemon[d].proxy = "none"
  /\ IF port = None
     THEN port' = d /\ Becomes(d, [daemon[d] EXCEPT !.proxy = "bound"])
     ELSE UNCHANGED port /\ Becomes(d, [daemon[d] EXCEPT !.proxy = "closed", !.at = "draining"])
  /\ UNCHANGED <<files, socket, command, raced>>

(* bind_unix_listener removes what is at the path, whoever listens there.   *)
UnlinkSocket(d) ==
  /\ Up(d) /\ daemon[d].admin = "none"
  /\ socket' = None /\ Becomes(d, [daemon[d] EXCEPT !.admin = "unlinked"])
  /\ UNCHANGED <<files, port, command, raced>>

BindAdmin(d) ==
  /\ Up(d) /\ daemon[d].admin = "unlinked"
  /\ IF socket = None
     THEN socket' = d /\ Becomes(d, [daemon[d] EXCEPT !.admin = "bound"])
     ELSE UNCHANGED socket /\ Becomes(d, [daemon[d] EXCEPT !.admin = "closed", !.at = "draining"])
  /\ UNCHANGED <<files, port, command, raced>>

InstallHandlers(d) ==
  /\ daemon[d].at = "up" /\ ~daemon[d].handlers
  /\ Becomes(d, [daemon[d] EXCEPT !.handlers = TRUE])
  /\ UNCHANGED <<files, port, socket, command, raced>>

(* Streams of the proxy and tails of the admin plane end when their clients *)
(* go: the loop behind /admin/events has no other end.                      *)
Attach(d) ==
  /\ daemon[d].at = "up" /\ ~daemon[d].clients /\ (port = d \/ socket = d)
  /\ Becomes(d, [daemon[d] EXCEPT !.clients = TRUE])
  /\ UNCHANGED <<files, port, socket, command, raced>>

Detach(d) ==
  /\ daemon[d].clients /\ Becomes(d, [daemon[d] EXCEPT !.clients = FALSE])
  /\ UNCHANGED <<files, port, socket, command, raced>>

(* Mutant: the signal is broadcast to no plane.                             *)
ReceiveSignalOnly(d) ==
  /\ daemon[d].at = "up" /\ daemon[d].told
  /\ Becomes(d, [daemon[d] EXCEPT !.told = FALSE])
  /\ UNCHANGED <<files, port, socket, command, raced>>

(* Mutant: the pid file is removed before the planes are joined.            *)
ReceiveSignalAndClean(d) ==
  /\ daemon[d].at = "up" /\ daemon[d].told
  /\ path' = None /\ Goto(d, "draining") /\ UNCHANGED <<content, lock, port, socket, command, raced>>

(* The select ends with the signal, and both planes are told.               *)
ReceiveSignal(d) ==
  /\ daemon[d].at = "up" /\ daemon[d].told
  /\ Goto(d, "draining") /\ UNCHANGED <<files, port, socket, command, raced>>

(* A plane that drains stops listening at once, and ends with the last of   *)
(* its clients; then the admin plane removes the path of its socket.        *)
CloseProxy(d) ==
  /\ daemon[d].at = "draining" /\ daemon[d].proxy = "bound"
  /\ port' = None /\ Becomes(d, [daemon[d] EXCEPT !.proxy = "closed"])
  /\ UNCHANGED <<files, socket, command, raced>>

CloseAdmin(d) ==
  /\ daemon[d].at = "draining" /\ daemon[d].admin = "bound" /\ ~daemon[d].clients
  /\ socket' = None /\ Becomes(d, [daemon[d] EXCEPT !.admin = "closed"])
  /\ UNCHANGED <<files, port, command, raced>>

Join(d) ==
  /\ daemon[d].at = "draining" /\ ~daemon[d].clients
  /\ daemon[d].proxy = "closed" /\ daemon[d].admin = "closed"
  /\ Goto(d, "served") /\ UNCHANGED <<files, port, socket, command, raced>>

(* The path of the pid file goes first, the lock with the process.          *)
RemovePidFile(d) ==
  /\ daemon[d].at = "served"
  /\ path' = None /\ Goto(d, "unlinked")
  /\ UNCHANGED <<content, lock, port, socket, command, raced>>

Exit(d) == daemon[d].at = "unlinked" /\ Die(d) /\ UNCHANGED <<command, raced>>
Crash(d) == Alive(d) /\ Die(d) /\ UNCHANGED <<command, raced>>

Daemon(d) ==
  \/ OpenPidFile(d) \/ Acquire(d) \/ Truncate(d) \/ WriteMetadata(d) \/ Build(d)
  \/ BindProxy(d) \/ UnlinkSocket(d) \/ BindAdmin(d) \/ InstallHandlers(d)
  \/ ReceiveSignal(d) \/ CloseProxy(d) \/ CloseAdmin(d) \/ Join(d)
  \/ RemovePidFile(d) \/ Exit(d)

--------------------------------------------------------------------------------
(* The commands                                                             *)

At(c, at) == command[c].at = at /\ command[c].held = None
Going(c, at) == [command EXCEPT ![c].at = at]
Replied(c, reply, pid) ==
  [command EXCEPT ![c].at = "replied", ![c].reply = reply, ![c].pid = pid]
Continue(c, at) == command' = Going(c, at)
Reply(c, reply, pid) == command' = Replied(c, reply, pid)

(* A daemon that cannot be found by its pid file yet.                       *)
Unnamed(d) == daemon[d].at \in {"spawned", "opened", "locked", "truncated"}

(* Bound: a start has a pid left to give to its child.                      *)
Invoke(c) ==
  /\ command[c].at = "idle"
  /\ \E is \in {"start", "status", "stop"} :
       /\ is = "start" => \E d \in Daemons : daemon[d].at = "unborn"
       /\ command' = [command EXCEPT ![c].is = is, ![c].at = "read"]
  /\ raced' = (raced \/ \E d \in Daemons : Unnamed(d))
  /\ UNCHANGED <<files, port, socket, daemon>>

Return(c) ==
  /\ At(c, "replied")
  /\ command' = [command EXCEPT ![c] = Idle]
  /\ UNCHANGED <<files, port, socket, daemon, raced>>

(* Its child is not told.                                                   *)
Kill(c) ==
  /\ command[c].at # "idle" /\ command' = [command EXCEPT ![c] = Idle]
  /\ lock' = [i \in Daemons |-> IF lock[i] = c THEN None ELSE lock[i]]
  /\ UNCHANGED <<path, content, port, socket, daemon, raced>>

(* Where a command goes on when there is no metadata.                       *)
NoMetadata(c) ==
  IF command[c].child # None THEN Reply(c, "failed", None)
  ELSE IF command[c].is = "start" THEN Continue(c, "spawn") ELSE Reply(c, "stopped", None)

(* read_serve_metadata, first or, with a child, once the port is answered.  *)
ReadMetadata(c) ==
  /\ At(c, "read")
  /\ IF path = None THEN NoMetadata(c)
     ELSE IF content[path] = Empty THEN Continue(c, "discard")
     ELSE IF command[c].child # None THEN Reply(c, "started", content[path])
     ELSE command' = [command EXCEPT ![c].at = "probe", ![c].pid = content[path]]
  /\ UNCHANGED <<files, port, socket, daemon, raced>>

(* What cannot be parsed is removed, by its path.                           *)
Discard(c) ==
  /\ At(c, "discard") /\ path' = None /\ NoMetadata(c)
  /\ UNCHANGED <<content, lock, port, socket, daemon, raced>>

(* Mutant: a pid file that exists is taken to be in use.                    *)
LockedIfThere(c) == path # None

(* Mutant: the lock of a platform without flock, which is always granted.   *)
LockedNever(c) == FALSE

(* is_serve_pid_file_locked tries the lock, and has it for a moment.        *)
Locked(c) == path # None /\ lock[path] # None

AfterProbe(c, locked) ==
  CASE locked /\ command[c].is = "start"  -> Replied(c, "already", command[c].pid)
    [] locked /\ command[c].is = "status" -> Replied(c, "running", command[c].pid)
    [] locked /\ command[c].is = "stop"   -> Going(c, "terminate")
    [] ~locked /\ command[c].is = "status" -> Replied(c, "stopped", None)
    [] OTHER -> Going(c, "remove")

(* The command holds the lock it got until it closes the file.              *)
Probed(c, next) ==
  IF path # None /\ lock[path] = None
  THEN /\ lock' = [lock EXCEPT ![path] = c]
       /\ command' = [next EXCEPT ![c].held = path]
  ELSE UNCHANGED lock /\ command' = next

Probe(c) ==
  /\ At(c, "probe")
  /\ Probed(c, AfterProbe(c, Locked(c)))
  /\ UNCHANGED <<path, content, port, socket, daemon, raced>>

CloseFile(c) ==
  /\ command[c].held # None
  /\ lock' = [lock EXCEPT ![command[c].held] = None]
  /\ command' = [command EXCEPT ![c].held = None]
  /\ UNCHANGED <<path, content, port, socket, daemon, raced>>

RemoveStale(c) ==
  /\ At(c, "remove") /\ path' = None
  /\ IF command[c].is = "start" THEN Continue(c, "spawn") ELSE Reply(c, "stopped", None)
  /\ UNCHANGED <<content, lock, port, socket, daemon, raced>>

Spawn(c) ==
  /\ At(c, "spawn")
  /\ \E d \in Daemons :
       /\ daemon[d].at = "unborn" /\ Goto(d, "spawned")
       /\ command' = [command EXCEPT ![c].child = d, ![c].at = "ready"]
  /\ UNCHANGED <<files, port, socket, raced>>

(* terminate_process: a process without handlers is ended by the kernel.    *)
Terminate(d) ==
  IF Alive(d) /\ ~daemon[d].handlers THEN Die(d)
  ELSE /\ daemon' = IF Alive(d) THEN [daemon EXCEPT ![d].told = TRUE] ELSE daemon
       /\ UNCHANGED <<files, port, socket>>

(* wait_for_daemon_ready: until the child is gone or something answers at   *)
(* the port, or the deadline passes.                                        *)
AwaitReady(c) ==
  /\ At(c, "ready")
  /\ IF daemon[command[c].child].at = "dead" THEN Reply(c, "failed", None)
     ELSE port # None /\ Continue(c, "read")
  /\ UNCHANGED <<files, port, socket, daemon, raced>>

ReadyDeadline(c) ==
  /\ At(c, "ready") /\ Alive(command[c].child)
  /\ Terminate(command[c].child) /\ Reply(c, "failed", None)
  /\ UNCHANGED raced

SendTerm(c) ==
  /\ At(c, "terminate") /\ Terminate(command[c].pid) /\ Continue(c, "await")
  /\ UNCHANGED raced

(* wait_for_pid_file_unlock, for five seconds.                              *)
AwaitUnlock(c) ==
  /\ At(c, "await") /\ ~Locked(c) /\ Probed(c, Going(c, "remove"))
  /\ UNCHANGED <<path, content, port, socket, daemon, raced>>

UnlockDeadline(c) ==
  /\ At(c, "await") /\ Locked(c) /\ Reply(c, "failed", None)
  /\ UNCHANGED <<files, port, socket, daemon, raced>>

Command(c) ==
  \/ ReadMetadata(c) \/ Discard(c) \/ Probe(c) \/ CloseFile(c) \/ RemoveStale(c) \/ Spawn(c)
  \/ AwaitReady(c) \/ ReadyDeadline(c) \/ SendTerm(c) \/ AwaitUnlock(c) \/ UnlockDeadline(c)

Next == \/ \E d \in Daemons : Daemon(d) \/ Attach(d) \/ Detach(d) \/ Crash(d)
        \/ \E c \in Commands : Command(c) \/ Invoke(c) \/ Return(c) \/ Kill(c)

Spec == Init /\ [][Next]_vars

(* Processes are scheduled; streams end with the timeout of the provider,   *)
(* and tails are closed by who opened them.                                 *)
LiveSpec == Spec /\ \A d \in Daemons : WF_vars(Daemon(d)) /\ WF_vars(Detach(d))

--------------------------------------------------------------------------------
Running(d) == daemon[d].at \in {"locked", "truncated", "building", "up"} /\ ~daemon[d].told

(* However starts time out or are killed, daemons crash and shutdowns drag  *)
(* on, never two daemons run that were not told to end; unless a command    *)
(* was started while the child of a killed one was not in its pid file yet. *)
OneDaemon == ~raced => \A d, e \in Daemons : Running(d) /\ Running(e) => d = e

(* A command that answers that nothing runs, or that it has stopped what    *)
(* ran, is right; one that names a running process names a live one; and    *)
(* the daemon a start names is the one it started: with the same exception. *)
RepliesTrue ==
  [][\A c \in Commands :
       ~raced /\ command[c].reply = "none" =>
         /\ command'[c].reply = "stopped" => \A d \in Daemons : ~Running(d)
         /\ command'[c].reply \in {"already", "running"} => Alive(command'[c].pid)
         /\ command'[c].reply = "started" => command'[c].pid = command'[c].child]_vars

(* The socket of a daemon that serves is at the path of the admin plane,    *)
(* with the same exception.                                                 *)
AdminReachable ==
  ~raced => \A d \in Daemons :
    daemon[d].admin = "bound" /\ daemon[d].at = "up" => socket = d

(* A daemon that is told to end does, once its clients are gone.            *)
ToldEnds == \A d \in Daemons : daemon[d].told ~> ~Alive(d)
================================================================================
