---------------------------- MODULE ServeDaemonProofs ----------------------------
(****************************************************************************)
(* Proofs about ServeDaemon, for any number of daemons in the life of the   *)
(* system and one command at a time: wherever commands are killed and       *)
(* daemons fail, crash, drag on with their shutdown or start too late.      *)
(****************************************************************************)
EXTENDS ServeDaemon, TLAPS

DaemonState ==
  [at : {"unborn", "spawned", "opened", "locked", "truncated", "building", "up", "draining",
         "served", "unlinked", "dead"},
   file : Daemons \cup {None}, proxy : {"none", "bound", "closed"},
   admin : {"none", "unlinked", "bound", "closed"},
   handlers : BOOLEAN, told : BOOLEAN, clients : BOOLEAN]
CommandState ==
  [is : {"idle", "start", "status", "stop"},
   at : {"idle", "read", "probe", "discard", "remove", "spawn", "ready", "terminate", "await",
         "replied"},
   pid : Daemons \cup {None}, child : Daemons \cup {None}, held : Daemons \cup {None},
   reply : {"none", "failed", "stopped", "started", "already", "running"}]

Types ==
  /\ path \in Daemons \cup {None} /\ port \in Daemons \cup {None} /\ socket \in Daemons \cup {None}
  /\ content \in [Daemons -> Daemons \cup {Empty}]
  /\ lock \in [Daemons -> Daemons \cup Commands \cup {None}]
  /\ daemon \in [Daemons -> DaemonState] /\ command \in [Commands -> CommandState]

(* No two commands at the same time.                                        *)
Singly == \A c, e \in Commands : c = e

Fresh(d) == Unnamed(d) \/ daemon[d].at \in {"unborn", "building"}
Owns(d) == daemon[d].at \in {"locked", "truncated", "building", "up", "draining", "served"}
Past(d) == daemon[d].at \in {"unborn", "unlinked", "dead"}

(* A daemon that owns the pid file has it at its path and locked, and is    *)
(* named in it once it has written it.                                      *)
Owner(d) ==
  /\ Owns(d) \/ daemon[d].at = "opened" => path \in Daemons /\ path = daemon[d].file
  /\ Owns(d) => lock[path] = d
  /\ Owns(d) /\ ~Unnamed(d) => content[path] = d
Owners == \A d \in Daemons : Owner(d)

(* A lock is of a daemon that has the file open, or of a command that has.  *)
Locks ==
  /\ \A i, d \in Daemons :
       lock[i] = d => daemon[d].file = i /\ (Owns(d) \/ daemon[d].at = "unlinked")
  /\ \A i \in Daemons, c \in Commands : lock[i] = c <=> command[c].held = i

(* A file is of a daemon that opened it; one that was removed stays so.     *)
Inode(d) ==
  /\ path = d => daemon[d].at \notin {"unborn", "spawned"}
  /\ daemon[d].at \in {"unborn", "spawned", "dead"} => daemon[d].file = None
  /\ daemon[d].file # None => daemon[daemon[d].file].at \notin {"unborn", "spawned"}
  /\ daemon[d].at = "unlinked" => daemon[d].file # None /\ path # daemon[d].file
Inodes == \A d \in Daemons : Inode(d)

(* A daemon that is not in its pid file yet is alone, and its command waits *)
(* for it or was killed; and where a command is about to start one, or to   *)
(* remove the pid file, none is there.                                      *)
Starting(d) ==
  /\ Unnamed(d) =>
       /\ \A e \in Daemons \ {d} : Past(e)
       /\ \A c \in Commands :
            command[c].at = "idle" \/ (command[c].at = "ready" /\ command[c].child = d)
  /\ Fresh(d) => ~daemon[d].handlers
Awaiting(c) ==
  /\ command[c].at = "ready" =>
       /\ command[c].child \in Daemons /\ daemon[command[c].child].at # "unborn"
       /\ \A d \in Daemons \ {command[c].child} : Past(d)
  /\ command[c].at \in {"discard", "remove", "spawn"} => \A d \in Daemons : Past(d)
Starts == (\A d \in Daemons : Starting(d)) /\ (\A c \in Commands : Awaiting(c))

(* What a command has read still holds when it replies.                     *)
Reading(c) ==
  /\ command[c].at = "idle" => command[c].child = None
  /\ command[c].at \in {"probe", "terminate"} => command[c].pid \in Daemons
  /\ command[c].at = "probe" \/ (command[c].at = "read" /\ command[c].child = None) =>
       command[c].is # "idle"
  /\ command[c].at = "probe" => path = None \/ content[path] = command[c].pid
  /\ command[c].at = "read" /\ command[c].child # None =>
       path = None \/ content[path] = command[c].child
Readings == \A c \in Commands : Reading(c)

(* A daemon listens while its planes run, and has none before they start.   *)
Planes ==
  \A d \in Daemons :
    /\ port = d => daemon[d].at \in {"up", "draining"} /\ daemon[d].proxy = "bound"
    /\ Fresh(d) => daemon[d].admin = "none"
Sockets == \A d \in Daemons : daemon[d].admin = "bound" /\ daemon[d].at = "up" => socket = d

Base == Types /\ Owners /\ Locks /\ Inodes /\ Starts /\ Readings
Known == Base /\ Planes /\ Sockets
IInv == ~raced => Known

LEMMA OneOwner ==
  ASSUME Owners, NEW d \in Daemons, NEW e \in Daemons, Owns(d), Owns(e)
  PROVE  d = e
BY DEF Owners, Owner

--------------------------------------------------------------------------------
(* What the steps of a daemon change                                        *)

Others(d) == daemon' \in [Daemons -> DaemonState] /\ \A e \in Daemons \ {d} : daemon'[e] = daemon[e]

LEMMA Becoming ==
  ASSUME Types, NEW d \in Daemons, NEW j \in DaemonState, daemon' = [daemon EXCEPT ![d] = j]
  PROVE  Others(d) /\ daemon'[d] = j
BY DEF Types, Others

(* The files stay, and the daemon where it is or further on its way.        *)
Inner(d) ==
  /\ UNCHANGED files /\ Others(d) /\ daemon'[d].file = daemon[d].file
  /\ \/ /\ daemon'[d].at = daemon[d].at
        /\ daemon'[d].handlers = daemon[d].handlers \/ daemon[d].at = "up"
     \/ /\ daemon[d].at \in {"building", "up", "draining"}
        /\ daemon'[d].at \in {"up", "draining", "served"}

Dies(d) ==
  /\ UNCHANGED <<path, content>> /\ Others(d)
  /\ daemon'[d].at = "dead" /\ daemon'[d].file = None
  /\ lock' = [i \in Daemons |-> IF lock[i] = d THEN None ELSE lock[i]]

LEMMA Deaths ==
  ASSUME Types, NEW d \in Daemons, Die(d)
  PROVE  Dies(d) /\ port' # d /\ (port' = port \/ port' = None) /\ UNCHANGED socket
<1> DEFINE j == [Unborn EXCEPT !.at = "dead"]
<1>1. j \in DaemonState /\ j.at = "dead" /\ j.file = None
  BY DEF Unborn, DaemonState
<1>2. daemon' = [daemon EXCEPT ![d] = j]
  BY DEF Die, Becomes
<1> HIDE DEF j
<1>3. Others(d) /\ daemon'[d] = j
  BY <1>1, <1>2, Becoming
<1> QED
  BY <1>1, <1>3, NamesAssumption DEF Die, Dies

InnerStep(d) ==
  \/ Build(d) \/ BindProxy(d) \/ UnlinkSocket(d) \/ BindAdmin(d) \/ InstallHandlers(d)
  \/ Attach(d) \/ Detach(d) \/ ReceiveSignal(d) \/ CloseProxy(d) \/ CloseAdmin(d) \/ Join(d)

(* A state that an inner step can leave the daemon in.                      *)
Fits(d, j) ==
  /\ j \in DaemonState /\ j.file = daemon[d].file
  /\ \/ /\ j.at = daemon[d].at
        /\ j.handlers = daemon[d].handlers \/ daemon[d].at = "up"
     \/ /\ daemon[d].at \in {"building", "up", "draining"}
        /\ j.at \in {"up", "draining", "served"}

LEMMA Fitting ==
  ASSUME Types, NEW d \in Daemons, NEW j, Fits(d, j), Becomes(d, j), UNCHANGED files
  PROVE  Inner(d)
<1>1. Others(d) /\ daemon'[d] = j
  BY Becoming DEF Becomes, Fits
<1> QED
  BY <1>1 DEF Inner, Fits

(* What a step assigns to the fields of a daemon.                           *)
LEMMA Fields ==
  ASSUME NEW r \in DaemonState
  PROVE  /\ \A at \in {"up", "draining", "served"} :
              LET j == [r EXCEPT !.at = at] IN
              j \in DaemonState /\ j.file = r.file /\ j.handlers = r.handlers /\ j.at = at
         /\ \A p \in {"bound", "closed"} :
              LET j == [r EXCEPT !.proxy = p] IN
              j \in DaemonState /\ j.file = r.file /\ j.handlers = r.handlers /\ j.at = r.at
         /\ \A a \in {"unlinked", "bound", "closed"} :
              LET j == [r EXCEPT !.admin = a] IN
              j \in DaemonState /\ j.file = r.file /\ j.handlers = r.handlers /\ j.at = r.at
         /\ LET j == [r EXCEPT !.proxy = "closed", !.at = "draining"] IN
            j \in DaemonState /\ j.file = r.file /\ j.handlers = r.handlers /\ j.at = "draining"
         /\ LET j == [r EXCEPT !.admin = "closed", !.at = "draining"] IN
            j \in DaemonState /\ j.file = r.file /\ j.handlers = r.handlers /\ j.at = "draining"
         /\ LET j == [r EXCEPT !.handlers = TRUE] IN
            j \in DaemonState /\ j.file = r.file /\ j.at = r.at
         /\ \A b \in BOOLEAN :
              LET j == [r EXCEPT !.clients = b] IN
              j \in DaemonState /\ j.file = r.file /\ j.handlers = r.handlers /\ j.at = r.at
BY DEF DaemonState

LEMMA InnerSteps ==
  ASSUME Types, NEW d \in Daemons, InnerStep(d)
  PROVE  Inner(d) /\ UNCHANGED command
<1> DEFINE r == daemon[d]
<1>1. r \in DaemonState
  BY DEF Types
<1>2. UNCHANGED <<files, command>>
  BY DEF InnerStep, Build, BindProxy, UnlinkSocket, BindAdmin, InstallHandlers, Attach, Detach,
         ReceiveSignal, CloseProxy, CloseAdmin, Join
<1>3. CASE Build(d)
  <2>1. PICK built \in BOOLEAN : Goto(d, IF built THEN "up" ELSE "served")
    BY <1>3 DEF Build
  <2> DEFINE at == IF built THEN "up" ELSE "served"
  <2>2. at \in {"up", "draining", "served"} /\ Becomes(d, [daemon[d] EXCEPT !.at = at])
    BY <2>1 DEF Goto
  <2> HIDE DEF at
  <2> DEFINE j == [daemon[d] EXCEPT !.at = at]
  <2>3. j \in DaemonState /\ j.file = r.file /\ j.at = at
    BY <1>1, <2>2 DEF DaemonState
  <2>4. at \in {"up", "served"} /\ r.at = "building"
    BY <1>3 DEF Build, at
  <2> HIDE DEF j
  <2>5. Fits(d, j)
    BY <2>3, <2>4 DEF Fits
  <2> QED
    BY <1>2, <2>2, <2>5, Fitting DEF j
<1>4. CASE ReceiveSignal(d) \/ Join(d)
  <2>1. ASSUME NEW at \in {"draining", "served"}, Goto(d, at)
        PROVE  Inner(d)
    <3> DEFINE j == [daemon[d] EXCEPT !.at = at]
    <3>1. j \in DaemonState /\ j.file = r.file /\ j.at = at
      BY <1>1 DEF DaemonState
    <3>2. r.at \in {"up", "draining"}
      BY <1>4 DEF ReceiveSignal, Join
    <3> HIDE DEF j
    <3>3. Fits(d, j)
      BY <3>1, <3>2 DEF Fits
    <3> QED
      BY <1>2, <2>1, <3>3, Fitting DEF Goto, j
  <2> QED
    BY <1>2, <1>4, <2>1 DEF ReceiveSignal, Join
<1>5. CASE BindProxy(d)
  <2>1. CASE Becomes(d, [daemon[d] EXCEPT !.proxy = "bound"])
    <3>1. Fits(d, [daemon[d] EXCEPT !.proxy = "bound"])
      BY <1>1, Fields DEF Fits
    <3> QED
      BY <1>2, <2>1, <3>1, Fitting
  <2>2. CASE Becomes(d, [daemon[d] EXCEPT !.proxy = "closed", !.at = "draining"])
    <3>1. Fits(d, [daemon[d] EXCEPT !.proxy = "closed", !.at = "draining"])
      BY <1>1, <1>5, Fields DEF Fits, BindProxy, Up
    <3> QED
      BY <1>2, <2>2, <3>1, Fitting
  <2> QED
    BY <1>5, <2>1, <2>2 DEF BindProxy
<1>6. CASE BindAdmin(d)
  <2>1. CASE Becomes(d, [daemon[d] EXCEPT !.admin = "bound"])
    <3>1. Fits(d, [daemon[d] EXCEPT !.admin = "bound"])
      BY <1>1, Fields DEF Fits
    <3> QED
      BY <1>2, <2>1, <3>1, Fitting
  <2>2. CASE Becomes(d, [daemon[d] EXCEPT !.admin = "closed", !.at = "draining"])
    <3>1. Fits(d, [daemon[d] EXCEPT !.admin = "closed", !.at = "draining"])
      BY <1>1, <1>6, Fields DEF Fits, BindAdmin, Up
    <3> QED
      BY <1>2, <2>2, <3>1, Fitting
  <2> QED
    BY <1>6, <2>1, <2>2 DEF BindAdmin
<1>7. CASE UnlinkSocket(d)
  <2>1. Fits(d, [daemon[d] EXCEPT !.admin = "unlinked"])
    BY <1>1, Fields DEF Fits
  <2> QED
    BY <1>2, <1>7, <2>1, Fitting DEF UnlinkSocket
<1>8. CASE InstallHandlers(d)
  <2>1. Fits(d, [daemon[d] EXCEPT !.handlers = TRUE])
    BY <1>1, <1>8, Fields DEF Fits, InstallHandlers
  <2> QED
    BY <1>2, <1>8, <2>1, Fitting DEF InstallHandlers
<1>9. CASE Attach(d) \/ Detach(d)
  <2>1. PICK b \in BOOLEAN : Becomes(d, [daemon[d] EXCEPT !.clients = b])
    BY <1>9 DEF Attach, Detach
  <2>2. Fits(d, [daemon[d] EXCEPT !.clients = b])
    BY <1>1, Fields DEF Fits
  <2> QED
    BY <1>2, <2>1, <2>2, Fitting
<1>10. CASE CloseProxy(d)
  <2>1. Fits(d, [daemon[d] EXCEPT !.proxy = "closed"])
    BY <1>1, Fields DEF Fits
  <2> QED
    BY <1>2, <1>10, <2>1, Fitting DEF CloseProxy
<1>11. CASE CloseAdmin(d)
  <2>1. Fits(d, [daemon[d] EXCEPT !.admin = "closed"])
    BY <1>1, Fields DEF Fits
  <2> QED
    BY <1>2, <1>11, <2>1, Fitting DEF CloseAdmin
<1> QED
  BY <1>2, <1>3, <1>4, <1>5, <1>6, <1>7, <1>8, <1>9, <1>10, <1>11 DEF InnerStep

Opens(d) ==
  LET inode == IF path = None THEN d ELSE path IN
  /\ daemon[d].at = "spawned" /\ path' = inode
  /\ UNCHANGED <<content, lock>> /\ Others(d)
  /\ daemon'[d].at = "opened" /\ daemon'[d].file = inode
  /\ daemon'[d].handlers = daemon[d].handlers

LEMMA OpenSteps ==
  ASSUME Types, NEW d \in Daemons, OpenPidFile(d)
  PROVE  Opens(d) /\ UNCHANGED <<command, port, socket>>
<1> DEFINE inode == IF path = None THEN d ELSE path
           r == daemon[d]
           j == [r EXCEPT !.at = "opened", !.file = inode]
<1>1. inode \in Daemons /\ r \in DaemonState
  BY DEF Types
<1>2. daemon' = [daemon EXCEPT ![d] = j]
  BY DEF OpenPidFile, Becomes
<1> HIDE DEF inode, r
<1>3. j \in DaemonState /\ j.at = "opened" /\ j.file = inode /\ j.handlers = r.handlers
  BY <1>1 DEF DaemonState
<1> HIDE DEF j
<1>4. Others(d) /\ daemon'[d] = j
  BY <1>2, <1>3, Becoming
<1> QED
  BY <1>3, <1>4 DEF OpenPidFile, Opens, inode, r

Moves(d, from, to) ==
  /\ daemon[d].at = from /\ Others(d) /\ daemon'[d].at = to
  /\ daemon'[d].file = daemon[d].file /\ daemon'[d].handlers = daemon[d].handlers
  /\ UNCHANGED <<command, port, socket>>

LEMMA MoveSteps ==
  ASSUME Types, NEW d \in Daemons
  PROVE  /\ Acquire(d) =>
              \/ /\ Moves(d, "opened", "locked") /\ lock[daemon[d].file] = None
                 /\ lock' = [lock EXCEPT ![daemon[d].file] = d] /\ UNCHANGED <<path, content>>
              \/ Die(d) /\ UNCHANGED command
         /\ Truncate(d) =>
              /\ Moves(d, "locked", "truncated")
              /\ content' = [content EXCEPT ![daemon[d].file] = Empty] /\ UNCHANGED <<path, lock>>
         /\ WriteMetadata(d) =>
              /\ Moves(d, "truncated", "building")
              /\ content' = [content EXCEPT ![daemon[d].file] = d] /\ UNCHANGED <<path, lock>>
         /\ RemovePidFile(d) =>
              Moves(d, "served", "unlinked") /\ path' = None /\ UNCHANGED <<content, lock>>
<1>1. ASSUME NEW at \in {"locked", "truncated", "building", "unlinked"}, Goto(d, at)
      PROVE  /\ Others(d) /\ daemon'[d].at = at /\ daemon'[d].file = daemon[d].file
             /\ daemon'[d].handlers = daemon[d].handlers
  <2> DEFINE r == daemon[d]
             j == [r EXCEPT !.at = at]
  <2>1. r \in DaemonState
    BY DEF Types
  <2>2. daemon' = [daemon EXCEPT ![d] = j]
    BY <1>1 DEF Goto, Becomes
  <2> HIDE DEF r
  <2>3. j \in DaemonState /\ j.at = at /\ j.file = r.file /\ j.handlers = r.handlers
    BY <2>1 DEF DaemonState
  <2> HIDE DEF j
  <2> QED
    BY <2>2, <2>3, Becoming DEF r
<1>2. Acquire(d) => \/ /\ Moves(d, "opened", "locked") /\ lock[daemon[d].file] = None
                       /\ lock' = [lock EXCEPT ![daemon[d].file] = d]
                       /\ UNCHANGED <<path, content>>
                    \/ Die(d) /\ UNCHANGED command
  BY <1>1 DEF Acquire, Moves
<1>3. Truncate(d) =>
              /\ Moves(d, "locked", "truncated")
              /\ content' = [content EXCEPT ![daemon[d].file] = Empty] /\ UNCHANGED <<path, lock>>
  BY <1>1 DEF Truncate, Moves
<1>4. WriteMetadata(d) =>
              /\ Moves(d, "truncated", "building")
              /\ content' = [content EXCEPT ![daemon[d].file] = d] /\ UNCHANGED <<path, lock>>
  BY <1>1 DEF WriteMetadata, Moves
<1>5. RemovePidFile(d) =>
              Moves(d, "served", "unlinked") /\ path' = None /\ UNCHANGED <<content, lock>>
  BY <1>1 DEF RemovePidFile, Moves
<1> QED
  BY <1>2, <1>3, <1>4, <1>5

--------------------------------------------------------------------------------
(* The files, under the steps of a daemon                                   *)

Held == \A c \in Commands : command'[c].held = command[c].held
Files == Owners /\ Locks /\ Inodes

(* The states of a daemon's life.                                           *)
LEMMA Stages ==
  ASSUME Types, NEW d \in Daemons
  PROVE  /\ daemon[d].at \in {"unborn", "spawned", "opened", "locked", "truncated", "building",
                              "up", "draining", "served", "unlinked", "dead"}
         /\ daemon[d].file \in Daemons \cup {None}
         /\ None \notin Daemons
         /\ Unnamed(d) \/ Owns(d) \/ Past(d)
BY NamesAssumption DEF Types, DaemonState, Unnamed, Owns, Past

LEMMA InnerFiles ==
  ASSUME Types, Files, NEW d \in Daemons, Inner(d), Held
  PROVE  Files'
<1>1. UNCHANGED <<path, content, lock>> /\ daemon'[d].file = daemon[d].file
      /\ \A e \in Daemons \ {d} : daemon'[e] = daemon[e]
  BY DEF Inner, files, Others
<1>2. \/ daemon'[d].at = daemon[d].at
      \/ /\ daemon[d].at \in {"building", "up", "draining"}
         /\ daemon'[d].at \in {"up", "draining", "served"}
  BY DEF Inner
<1>3. ASSUME NEW e \in Daemons PROVE Owner(e)'
  <2>1. Owner(e)
    BY DEF Files, Owners
  <2> QED
    BY <1>1, <1>2, <2>1 DEF Owner, Owns, Unnamed
<1>4. Locks'
  BY <1>1, <1>2 DEF Files, Locks, Owns, Held
<1>5. ASSUME NEW e \in Daemons PROVE Inode(e)'
  <2>1. Inode(e)
    BY DEF Files, Inodes
  <2>2. daemon'[e].file = daemon[e].file
    BY <1>1
  <2>3. \A f \in Daemons : daemon[f].at \notin {"unborn", "spawned"} =>
                           daemon'[f].at \notin {"unborn", "spawned"}
    BY <1>1, <1>2
  <2>4. daemon[e].file # None => daemon[e].file \in Daemons
    BY Stages
  <2> QED
    BY <1>1, <1>2, <2>1, <2>2, <2>3, <2>4 DEF Inode
<1> QED
  BY <1>3, <1>4, <1>5 DEF Files, Owners, Inodes

LEMMA DeathFiles ==
  ASSUME Types, Files, NEW d \in Daemons, Dies(d), Held
  PROVE  Files'
<1>1. UNCHANGED <<path, content>> /\ daemon'[d].at = "dead" /\ daemon'[d].file = None
      /\ \A e \in Daemons \ {d} : daemon'[e] = daemon[e]
  BY DEF Dies, Others
<1>2. \A i \in Daemons : lock'[i] = IF lock[i] = d THEN None ELSE lock[i]
  BY DEF Dies
<1>3. ASSUME NEW e \in Daemons PROVE Owner(e)'
  <2>1. Owner(e)
    BY DEF Files, Owners
  <2> QED
    BY <1>1, <1>2, <2>1 DEF Owner, Owns, Unnamed
<1>4. Locks'
  BY <1>1, <1>2, NamesAssumption DEF Files, Locks, Owns, Held
<1>5. ASSUME NEW e \in Daemons PROVE Inode(e)'
  <2>1. Inode(e)
    BY DEF Files, Inodes
  <2>2. \A f \in Daemons : daemon[f].at \notin {"unborn", "spawned"} =>
                           daemon'[f].at \notin {"unborn", "spawned"}
    BY <1>1
  <2>3. daemon[e].file # None => daemon[e].file \in Daemons
    BY Stages
  <2> QED
    BY <1>1, <2>1, <2>2, <2>3 DEF Inode
<1> QED
  BY <1>3, <1>4, <1>5 DEF Files, Owners, Inodes

LEMMA OpenFiles ==
  ASSUME Types, Files, NEW d \in Daemons, Opens(d), Held
  PROVE  Files'
<1> DEFINE inode == IF path = None THEN d ELSE path
<1>1. /\ path' = inode /\ UNCHANGED <<content, lock>>
      /\ daemon[d].at = "spawned" /\ daemon'[d].at = "opened" /\ daemon'[d].file = inode
      /\ \A e \in Daemons \ {d} : daemon'[e] = daemon[e]
  BY DEF Opens, Others
<1>2. inode \in Daemons /\ (path # None => inode = path) /\ (path = None => inode = d)
  BY DEF Types
<1> HIDE DEF inode
<1>3. ASSUME NEW e \in Daemons PROVE Owner(e)'
  <2>1. Owner(e) /\ None \notin Daemons
    BY Stages DEF Files, Owners
  <2> QED
    BY <1>1, <1>2, <2>1 DEF Owner, Owns, Unnamed
<1>4. Locks'
  BY <1>1 DEF Files, Locks, Owns, Held
<1>5. ASSUME NEW e \in Daemons PROVE Inode(e)'
  <2>1. Inode(e) /\ Inode(d)
    BY DEF Files, Inodes
  <2>2. \A f \in Daemons : daemon[f].at \notin {"unborn", "spawned"} =>
                           daemon'[f].at \notin {"unborn", "spawned"}
    BY <1>1
  <2>3. daemon[e].file # None => daemon[e].file \in Daemons
    BY Stages
  <2>4. path = None \/ daemon[path].at \notin {"unborn", "spawned"}
    BY DEF Files, Inodes, Inode, Types
  <2>5. CASE e = d
    BY <1>1, <1>2, <2>2, <2>4, <2>5 DEF Inode
  <2>6. CASE e # d
    <3>1. daemon'[e] = daemon[e] /\ daemon[e].file # d
      BY <1>1, <2>1, <2>6, Stages DEF Inode
    <3>2. path' = e => path = e
      BY <1>1, <1>2, <2>6
    <3> QED
      BY <1>1, <1>2, <2>1, <2>2, <2>3, <3>1, <3>2 DEF Inode
  <2> QED
    BY <2>5, <2>6
<1> QED
  BY <1>3, <1>4, <1>5 DEF Files, Owners, Inodes

Acquires(d) ==
  /\ Moves(d, "opened", "locked") /\ lock[daemon[d].file] = None
  /\ lock' = [lock EXCEPT ![daemon[d].file] = d] /\ UNCHANGED <<path, content>>
Writes(d, to, text) ==
  /\ to = "truncated" \/ (to = "building" /\ text = d)
  /\ Moves(d, IF to = "truncated" THEN "locked" ELSE "truncated", to)
  /\ content' = [content EXCEPT ![daemon[d].file] = text] /\ UNCHANGED <<path, lock>>
Removes(d) ==
  Moves(d, "served", "unlinked") /\ path' = None /\ UNCHANGED <<content, lock>>

(* The part of the files that a move changes only in the daemon's stage.    *)
LEMMA MoveInodes ==
  ASSUME Types, Files, NEW d \in Daemons, NEW from, NEW to, Moves(d, from, to),
         from \in {"opened", "locked", "truncated"}, to \in {"locked", "truncated", "building"},
         UNCHANGED path
  PROVE  Inodes'
<1>1. daemon[d].at = from /\ daemon'[d].at = to /\ daemon'[d].file = daemon[d].file
      /\ \A e \in Daemons \ {d} : daemon'[e] = daemon[e]
  BY DEF Moves, Others
<1>2. ASSUME NEW e \in Daemons PROVE Inode(e)'
  <2>1. Inode(e)
    BY DEF Files, Inodes
  <2>2. \A f \in Daemons : daemon[f].at \notin {"unborn", "spawned"} =>
                           daemon'[f].at \notin {"unborn", "spawned"}
    BY <1>1
  <2>3. daemon[e].file # None => daemon[e].file \in Daemons
    BY Stages
  <2>4. daemon'[e].file = daemon[e].file
    BY <1>1
  <2> QED
    BY <1>1, <2>1, <2>2, <2>3, <2>4 DEF Inode
<1> QED
  BY <1>2 DEF Inodes

LEMMA AcquireFiles ==
  ASSUME Types, Files, NEW d \in Daemons, Acquires(d)
  PROVE  Files'
<1> DEFINE inode == daemon[d].file
<1>1. /\ lock[inode] = None /\ lock' = [lock EXCEPT ![inode] = d]
      /\ UNCHANGED <<path, content, command>>
      /\ daemon[d].at = "opened" /\ daemon'[d].at = "locked" /\ daemon'[d].file = inode
      /\ \A e \in Daemons \ {d} : daemon'[e] = daemon[e]
  BY DEF Acquires, Moves, Others
<1>2. inode \in Daemons /\ path = inode
  BY <1>1 DEF Files, Owners, Owner
<1>3. lock'[inode] = d /\ \A i \in Daemons \ {inode} : lock'[i] = lock[i]
  BY <1>1, <1>2 DEF Types
<1>4. \A c \in Commands : c \notin Daemons /\ c # None
  BY NamesAssumption
<1> HIDE DEF inode
<1>5. ASSUME NEW e \in Daemons PROVE Owner(e)'
  <2>1. Owner(e) /\ None \notin Daemons
    BY Stages DEF Files, Owners
  <2>2. CASE e = d
    BY <1>1, <1>2, <1>3, <2>2 DEF Owner, Owns, Unnamed
  <2>3. CASE e # d
    BY <1>1, <1>2, <1>3, <2>1, <2>3 DEF Owner, Owns, Unnamed
  <2> QED
    BY <2>2, <2>3
<1>6. Locks'
  <2>1. ASSUME NEW i \in Daemons, NEW e \in Daemons, lock'[i] = e
        PROVE  daemon'[e].file = i /\ (Owns(e)' \/ daemon'[e].at = "unlinked")
    BY <1>1, <1>2, <1>3, <2>1 DEF Files, Locks, Owns
  <2>2. ASSUME NEW i \in Daemons, NEW c \in Commands
        PROVE  lock'[i] = c <=> command'[c].held = i
    BY <1>1, <1>2, <1>3, <1>4 DEF Files, Locks
  <2> QED
    BY <2>1, <2>2 DEF Locks
<1>7. Inodes'
  BY MoveInodes DEF Acquires
<1> QED
  BY <1>5, <1>6, <1>7 DEF Files, Owners

LEMMA WriteFiles ==
  ASSUME Types, Files, NEW d \in Daemons, NEW to, NEW text, Writes(d, to, text)
  PROVE  Files'
<1> DEFINE inode == daemon[d].file
           from == IF to = "truncated" THEN "locked" ELSE "truncated"
<1>1. /\ UNCHANGED <<path, lock, command>> /\ content' = [content EXCEPT ![inode] = text]
      /\ daemon[d].at = from /\ daemon'[d].at = to /\ daemon'[d].file = inode
      /\ \A e \in Daemons \ {d} : daemon'[e] = daemon[e]
      /\ to = "truncated" \/ (to = "building" /\ text = d)
  BY DEF Writes, Moves, Others
<1>2. inode \in Daemons /\ path = inode /\ lock[inode] = d
  BY <1>1 DEF Files, Owners, Owner, Owns, Unnamed
<1>3. content'[inode] = text
  BY <1>1, <1>2 DEF Types
<1> HIDE DEF inode
<1>4. ASSUME NEW e \in Daemons PROVE Owner(e)'
  <2>1. Owner(e)
    BY DEF Files, Owners
  <2>2. CASE e = d
    BY <1>1, <1>2, <1>3, <2>2 DEF Owner, Owns, Unnamed
  <2>3. CASE e # d
    BY <1>1, <1>2, <2>1, <2>3 DEF Owner, Owns, Unnamed
  <2> QED
    BY <2>2, <2>3
<1>5. Locks'
  BY <1>1 DEF Files, Locks, Owns, inode
<1>6. Inodes'
  BY <1>1, MoveInodes DEF Writes
<1> QED
  BY <1>4, <1>5, <1>6 DEF Files, Owners

(* The path goes while nobody is there.                                     *)
LEMMA Unpathed ==
  ASSUME Types, Files, path' = None, UNCHANGED <<content, lock, daemon>>, Held,
         \A d \in Daemons : Past(d)
  PROVE  Files'
<1>1. None \notin Daemons
  BY NamesAssumption
<1>2. \A d \in Daemons : ~Owns(d) /\ daemon[d].at # "opened"
  BY DEF Past, Owns
<1>3. Owners'
  BY <1>2 DEF Owners, Owner, Owns, Unnamed
<1>4. Locks'
  BY DEF Files, Locks, Owns, Held
<1>5. Inodes'
  BY <1>1 DEF Files, Inodes, Inode
<1> QED
  BY <1>3, <1>4, <1>5 DEF Files

(* A daemon starts only where every other is past.                          *)
LEMMA YoungAlone ==
  ASSUME Starts, NEW d \in Daemons, Unnamed(d)
  PROVE  \A e \in Daemons \ {d} : Past(e)
BY DEF Starts, Starting

LEMMA RemoveFiles ==
  ASSUME Types, Files, Starts, NEW d \in Daemons, Removes(d)
  PROVE  Files'
<1>1. /\ UNCHANGED <<lock, command>> /\ path' = None
      /\ daemon[d].at = "served" /\ daemon'[d].at = "unlinked"
      /\ daemon'[d].file = daemon[d].file /\ \A e \in Daemons \ {d} : daemon'[e] = daemon[e]
  BY DEF Removes, Moves, Others
<1>2. None \notin Daemons /\ daemon[d].file \in Daemons
  BY <1>1, NamesAssumption DEF Files, Owners, Owner, Owns, Unnamed
<1>3. ASSUME NEW e \in Daemons \ {d} PROVE ~Owns(e) /\ daemon[e].at # "opened"
  <2>1. ~Owns(e)
    BY <1>1, <1>3, OneOwner DEF Files, Owns
  <2>2. ~Unnamed(e)
    BY <1>1, <1>3, YoungAlone DEF Past
  <2> QED
    BY <2>1, <2>2 DEF Unnamed
<1>4. Owners'
  BY <1>1, <1>3 DEF Owners, Owner, Owns, Unnamed
<1>5. Locks'
  BY <1>1 DEF Files, Locks, Owns
<1>6. ASSUME NEW e \in Daemons PROVE Inode(e)'
  <2>1. Inode(e)
    BY DEF Files, Inodes
  <2>2. \A f \in Daemons : daemon[f].at \notin {"unborn", "spawned"} =>
                           daemon'[f].at \notin {"unborn", "spawned"}
    BY <1>1
  <2>3. daemon[e].file # None => daemon[e].file \in Daemons
    BY Stages
  <2> QED
    BY <1>1, <1>2, <2>1, <2>2, <2>3 DEF Inode
<1> QED
  BY <1>4, <1>5, <1>6 DEF Files, Inodes

--------------------------------------------------------------------------------
(* The commands, under the steps of a daemon                                *)

Commanding == Starts /\ Readings

LEMMA InnerCommands ==
  ASSUME Types, Commanding, NEW d \in Daemons, Inner(d), UNCHANGED command
  PROVE  Commanding'
<1>1. UNCHANGED <<path, content>> /\ \A e \in Daemons \ {d} : daemon'[e] = daemon[e]
  BY DEF Inner, files, Others
<1>2. \/ /\ daemon'[d].at = daemon[d].at
         /\ daemon'[d].handlers = daemon[d].handlers \/ daemon[d].at = "up"
      \/ /\ daemon[d].at \in {"building", "up", "draining"}
         /\ daemon'[d].at \in {"up", "draining", "served"}
  BY DEF Inner
<1>3. \A e \in Daemons : Past(e) => Past(e)'
  BY <1>1, <1>2 DEF Past
<1>4. ASSUME NEW e \in Daemons PROVE Starting(e)'
  <2>1. Starting(e) /\ (Unnamed(e)' => Unnamed(e)) /\ (Fresh(e)' => Fresh(e))
    BY <1>1, <1>2 DEF Commanding, Starts, Unnamed, Fresh
  <2>2. Fresh(e)' => daemon'[e].handlers = daemon[e].handlers
    BY <1>1, <1>2 DEF Fresh, Unnamed
  <2> QED
    BY <1>1, <1>2, <1>3, <2>1, <2>2 DEF Starting
<1>5. \A e \in Daemons : daemon[e].at # "unborn" => daemon'[e].at # "unborn"
  BY <1>1, <1>2
<1>6. ASSUME NEW c \in Commands PROVE Awaiting(c)' /\ Reading(c)'
  <2>1. Awaiting(c) /\ Reading(c)
    BY DEF Commanding, Starts, Readings
  <2> QED
    BY <1>1, <1>3, <1>5, <2>1 DEF Awaiting, Reading
<1> QED
  BY <1>4, <1>6 DEF Commanding, Starts, Readings

LEMMA DeathCommands ==
  ASSUME Types, Commanding, NEW d \in Daemons, Dies(d), UNCHANGED command
  PROVE  Commanding'
<1>1. UNCHANGED <<path, content>> /\ daemon'[d].at = "dead"
      /\ \A e \in Daemons \ {d} : daemon'[e] = daemon[e]
  BY DEF Dies, Others
<1>2. \A e \in Daemons : Past(e) => Past(e)'
  BY <1>1 DEF Past
<1>3. ASSUME NEW e \in Daemons PROVE Starting(e)'
  <2>1. Starting(e) /\ (Fresh(e)' => daemon'[e] = daemon[e])
    BY <1>1 DEF Commanding, Starts, Fresh, Unnamed
  <2> QED
    BY <1>1, <1>2, <2>1 DEF Starting, Fresh, Unnamed
<1>4. \A e \in Daemons : daemon[e].at # "unborn" => daemon'[e].at # "unborn"
  BY <1>1
<1>5. ASSUME NEW c \in Commands PROVE Awaiting(c)' /\ Reading(c)'
  <2>1. Awaiting(c) /\ Reading(c)
    BY DEF Commanding, Starts, Readings
  <2> QED
    BY <1>1, <1>2, <1>4, <2>1 DEF Awaiting, Reading
<1> QED
  BY <1>3, <1>5 DEF Commanding, Starts, Readings

(* A daemon that starts is alone, and its command waits for it, if it runs. *)
LEMMA YoungCommands ==
  ASSUME Types, Commanding, NEW d \in Daemons, Others(d), UNCHANGED command, Unnamed(d),
         Unnamed(d)' \/ daemon'[d].at = "building", daemon'[d].handlers = daemon[d].handlers
  PROVE  Commanding'
<1>1. \A e \in Daemons \ {d} : daemon'[e] = daemon[e] /\ Past(e)
  BY YoungAlone DEF Others, Commanding
<1>2. /\ \A c \in Commands :
           command[c].at = "idle" \/ (command[c].at = "ready" /\ command[c].child = d)
      /\ ~daemon[d].handlers
  BY DEF Commanding, Starts, Starting, Fresh
<1>3. daemon'[d].at # "unborn"
  BY DEF Unnamed
<1>4. ASSUME NEW e \in Daemons PROVE Starting(e)'
  <2>1. Starting(e) /\ \A f \in Daemons \ {d} : Past(f)'
    BY <1>1 DEF Commanding, Starts, Past
  <2>2. CASE e = d
    BY <1>2, <2>1, <2>2 DEF Starting
  <2>3. CASE e # d
    BY <1>1, <2>1, <2>3 DEF Starting, Unnamed, Fresh, Past
  <2> QED
    BY <2>2, <2>3
<1>5. ASSUME NEW c \in Commands PROVE Awaiting(c)' /\ Reading(c)'
  <2>1. Reading(c)
    BY DEF Commanding, Readings
  <2> QED
    BY <1>1, <1>2, <1>3, <2>1 DEF Awaiting, Reading, Past
<1> QED
  BY <1>4, <1>5 DEF Commanding, Starts, Readings

LEMMA RemoveCommands ==
  ASSUME Types, Commanding, NEW d \in Daemons, Removes(d)
  PROVE  Commanding'
<1>1. /\ UNCHANGED <<content, command>> /\ path' = None
      /\ daemon[d].at = "served" /\ daemon'[d].at = "unlinked"
      /\ \A e \in Daemons \ {d} : daemon'[e] = daemon[e]
  BY DEF Removes, Moves, Others
<1>2. \A e \in Daemons : Past(e) => Past(e)'
  BY <1>1 DEF Past
<1>3. ASSUME NEW e \in Daemons PROVE Starting(e)'
  <2>1. Starting(e) /\ (Fresh(e)' => daemon'[e] = daemon[e])
    BY <1>1 DEF Commanding, Starts, Fresh, Unnamed
  <2> QED
    BY <1>1, <1>2, <2>1 DEF Starting, Fresh, Unnamed
<1>4. \A e \in Daemons : daemon[e].at # "unborn" => daemon'[e].at # "unborn"
  BY <1>1
<1>5. ASSUME NEW c \in Commands PROVE Awaiting(c)' /\ Reading(c)'
  <2>1. Awaiting(c) /\ Reading(c)
    BY DEF Commanding, Starts, Readings
  <2> QED
    BY <1>1, <1>2, <1>4, <2>1 DEF Awaiting, Reading
<1> QED
  BY <1>3, <1>5 DEF Commanding, Starts, Readings

(* What a daemon does by itself keeps the files and what commands know.     *)
LEMMA DaemonBase ==
  ASSUME Base, NEW d \in Daemons, Daemon(d) \/ Attach(d) \/ Detach(d) \/ Crash(d)
  PROVE  Files' /\ Commanding'
<1> USE DEF Base
<1>1. Files /\ Commanding
  BY DEF Files, Commanding
<1>2. ASSUME UNCHANGED command PROVE Held
  BY <1>2 DEF Held
<1>3. CASE InnerStep(d)
  BY <1>1, <1>2, <1>3, InnerSteps, InnerFiles, InnerCommands
<1>4. ASSUME Die(d), UNCHANGED command PROVE Files' /\ Commanding'
  BY <1>1, <1>2, <1>4, Deaths, DeathFiles, DeathCommands
<1>5. CASE Exit(d) \/ Crash(d)
  BY <1>4, <1>5 DEF Exit, Crash
<1>6. CASE OpenPidFile(d)
  <2>1. Opens(d) /\ UNCHANGED command
    BY <1>6, OpenSteps
  <2>2. Others(d) /\ Unnamed(d) /\ Unnamed(d)' /\ daemon'[d].handlers = daemon[d].handlers
    BY <2>1 DEF Opens, Unnamed
  <2> QED
    BY <1>1, <1>2, <2>1, <2>2, OpenFiles, YoungCommands
<1>7. CASE Acquire(d)
  <2>1. Acquires(d) \/ (Die(d) /\ UNCHANGED command)
    BY <1>7, MoveSteps DEF Acquires
  <2>2. CASE Acquires(d)
    <3>1. Others(d) /\ Unnamed(d) /\ Unnamed(d)' /\ daemon'[d].handlers = daemon[d].handlers
          /\ UNCHANGED command
      BY <2>2 DEF Acquires, Moves, Unnamed
    <3> QED
      BY <1>1, <2>2, <3>1, AcquireFiles, YoungCommands
  <2> QED
    BY <1>4, <2>1, <2>2
<1>8. CASE Truncate(d) \/ WriteMetadata(d)
  <2>1. Writes(d, "truncated", Empty) \/ Writes(d, "building", d)
    BY <1>8, MoveSteps DEF Writes
  <2>2. /\ Others(d) /\ Unnamed(d) /\ (Unnamed(d)' \/ daemon'[d].at = "building")
        /\ daemon'[d].handlers = daemon[d].handlers /\ UNCHANGED command
    BY <2>1 DEF Writes, Moves, Unnamed
  <2> QED
    BY <1>1, <2>1, <2>2, WriteFiles, YoungCommands
<1>9. CASE RemovePidFile(d)
  <2>1. Removes(d)
    BY <1>9, MoveSteps DEF Removes
  <2> QED
    BY <1>1, <2>1, RemoveFiles, RemoveCommands
<1> QED
  BY <1>3, <1>5, <1>6, <1>7, <1>8, <1>9 DEF Daemon, InnerStep

--------------------------------------------------------------------------------
(* The steps of a command                                                   *)

Same(c) == \A e \in Commands \ {c} : command'[e] = command[e]

(* Where a command does anything but wait, no daemon starts.                *)
LEMMA NoneYoung ==
  ASSUME Starts, NEW c \in Commands, command[c].at \notin {"idle", "ready"}, NEW d \in Daemons
  PROVE  ~Unnamed(d)
BY DEF Starts, Starting

(* Where no daemon owns the pid file either, all are past.                  *)
LEMMA AllPast ==
  ASSUME Base, NEW c \in Commands, command[c].at \notin {"idle", "ready"},
         \/ path = None \/ content[path] = Empty \/ lock[path] = None
  PROVE  \A d \in Daemons : Past(d)
<1> SUFFICES ASSUME NEW d \in Daemons PROVE Past(d)
  OBVIOUS
<1>1. ~Unnamed(d)
  BY NoneYoung DEF Base
<1>2. ~Owns(d)
  <2>1. SUFFICES ASSUME Owns(d) PROVE FALSE
    OBVIOUS
  <2>2. path \in Daemons /\ lock[path] = d
    BY <2>1 DEF Base, Owners, Owner
  <2>3. content[path] = d
    BY <1>1, <2>1 DEF Base, Owners, Owner, Unnamed
  <2> QED
    BY <2>2, <2>3, NamesAssumption
<1> QED
  BY <1>1, <1>2, Stages DEF Base

(* What Awaiting and Reading say of a command that changes its place.       *)
LEMMA Placing ==
  ASSUME Singly, Types, NEW c \in Commands, Awaiting(c)', Reading(c)',
         \A d \in Daemons : Starting(d)'
  PROVE  Commanding'
<1>1. \A e \in Commands : e = c
  BY DEF Singly
<1> QED
  BY <1>1 DEF Commanding, Starts, Readings

(* A command of any state.                                                  *)
Takes(c, j) ==
  command' \in [Commands -> CommandState] /\ command'[c] = j /\ Same(c)

LEMMA Taking ==
  ASSUME Types, NEW c \in Commands, NEW j \in CommandState, command' = [command EXCEPT ![c] = j]
  PROVE  Takes(c, j)
BY DEF Types, Takes, Same

LEMMA Continues ==
  ASSUME Types, NEW c \in Commands,
         NEW at \in {"read", "probe", "discard", "remove", "spawn", "ready", "terminate", "await"},
         Continue(c, at)
  PROVE  /\ command' \in [Commands -> CommandState] /\ Held
         /\ command'[c].at = at /\ command'[c].reply = command[c].reply
         /\ command'[c].pid = command[c].pid /\ command'[c].child = command[c].child
         /\ command'[c].is = command[c].is
<1> DEFINE r == command[c]
           j == [r EXCEPT !.at = at]
<1>1. r \in CommandState
  BY DEF Types
<1>2. command' = [command EXCEPT ![c] = j]
  BY DEF Continue, Going
<1> HIDE DEF r
<1>3. /\ j \in CommandState /\ j.at = at /\ j.reply = r.reply /\ j.pid = r.pid
      /\ j.child = r.child /\ j.held = r.held /\ j.is = r.is
  BY <1>1 DEF CommandState
<1> HIDE DEF j
<1>4. Takes(c, j)
  BY <1>2, <1>3, Taking
<1> QED
  BY <1>3, <1>4 DEF Takes, Held, Same, r

LEMMA Replying ==
  ASSUME Types, NEW c \in Commands,
         NEW reply \in {"none", "failed", "stopped", "started", "already", "running"},
         NEW pid \in Daemons \cup {None}, Reply(c, reply, pid)
  PROVE  /\ command' \in [Commands -> CommandState] /\ Held
         /\ command'[c].at = "replied" /\ command'[c].reply = reply
         /\ command'[c].pid = pid /\ command'[c].child = command[c].child
         /\ command'[c].is = command[c].is
<1> DEFINE r == command[c]
           j == [r EXCEPT !.at = "replied", !.reply = reply, !.pid = pid]
<1>1. r \in CommandState
  BY DEF Types
<1>2. command' = [command EXCEPT ![c] = j]
  BY DEF Reply, Replied
<1> HIDE DEF r
<1>3. /\ j \in CommandState /\ j.at = "replied" /\ j.reply = reply /\ j.pid = pid
      /\ j.child = r.child /\ j.held = r.held /\ j.is = r.is
  BY <1>1 DEF CommandState
<1> HIDE DEF j
<1>4. Takes(c, j)
  BY <1>2, <1>3, Taking
<1> QED
  BY <1>3, <1>4 DEF Takes, Held, Same, r

(* Where no daemon starts, it is enough what its place says of the command. *)
LEMMA Placed ==
  ASSUME Singly, Base, NEW c \in Commands,
         \A d \in Daemons : ~Unnamed(d)' /\ (Fresh(d)' => daemon'[d] = daemon[d]),
         command'[c].at # "ready",
         command'[c].at \in {"discard", "remove", "spawn"} => \A d \in Daemons : Past(d)',
         Reading(c)'
  PROVE  Commanding'
<1>1. Awaiting(c)'
  BY DEF Awaiting
<1>2. ASSUME NEW d \in Daemons PROVE Starting(d)'
  <2>1. Starting(d)
    BY DEF Base, Starts
  <2> QED
    BY <2>1 DEF Starting, Fresh, Unnamed
<1> QED
  BY <1>1, <1>2, Placing DEF Base

(* What a reply says is so.                                                 *)
Truthful(c) ==
  command[c].reply = "none" =>
    /\ command'[c].reply = "stopped" => \A d \in Daemons : ~Running(d)
    /\ command'[c].reply \in {"already", "running"} => Alive(command'[c].pid)
    /\ command'[c].reply = "started" => command'[c].pid = command'[c].child

Kept(c) == /\ command' \in [Commands -> CommandState] /\ Files' /\ Commanding' /\ Truthful(c)

LEMMA Still ==
  ASSUME Base, UNCHANGED <<files, daemon>>, Held
  PROVE  Files'
BY DEF Base, Files, files, Owners, Owner, Owns, Unnamed, Locks, Inodes, Inode, Held

LEMMA PastIdle ==
  ASSUME NEW d \in Daemons, Past(d)
  PROVE  ~Running(d) /\ ~Unnamed(d) /\ ~Owns(d)
BY DEF Past, Running, Unnamed, Owns

LEMMA InvokeKeeps ==
  ASSUME Singly, Base, NEW c \in Commands, Invoke(c), ~raced'
  PROVE  Kept(c)
<1> DEFINE r == command[c]
<1>1. PICK is \in {"start", "status", "stop"} :
           command' = [command EXCEPT ![c].is = is, ![c].at = "read"]
  BY DEF Invoke
<1> DEFINE j == [r EXCEPT !.is = is, !.at = "read"]
<1>2. r \in CommandState /\ r.at = "idle" /\ r.child = None
  BY DEF Base, Types, Invoke, Readings, Reading
<1>3. command' = [command EXCEPT ![c] = j]
  BY <1>1
<1> HIDE DEF r
<1>4. /\ j \in CommandState /\ j.at = "read" /\ j.reply = r.reply /\ j.is # "idle"
      /\ j.child = r.child /\ j.held = r.held
  BY <1>2 DEF CommandState
<1> HIDE DEF j
<1>5. Takes(c, j)
  BY <1>3, <1>4, Taking DEF Base
<1>6. Held /\ UNCHANGED <<files, daemon>> /\ command'[c] = j
  BY <1>4, <1>5 DEF Takes, Held, Same, r, Invoke
<1>7. \A d \in Daemons : ~Unnamed(d) /\ ~Unnamed(d)'
  BY <1>6 DEF Invoke, Unnamed
<1>8. Reading(c)'
  BY <1>2, <1>4, <1>6 DEF Reading
<1>9. Commanding'
  BY <1>4, <1>6, <1>7, <1>8, Placed
<1>10. Truthful(c)
  BY <1>4, <1>6 DEF Truthful, r
<1> QED
  BY <1>5, <1>6, <1>9, <1>10, Still DEF Kept, Takes

LEMMA ReturnKeeps ==
  ASSUME Singly, Base, NEW c \in Commands, Return(c)
  PROVE  Kept(c)
<1>1. Idle \in CommandState /\ Idle.at = "idle" /\ Idle.reply = "none" /\ Idle.child = None
      /\ Idle.held = None
  BY DEF Idle, CommandState
<1>2. Takes(c, Idle)
  BY <1>1, Taking DEF Return, Base
<1>3. Held /\ UNCHANGED <<files, daemon>> /\ command'[c] = Idle /\ command[c].at = "replied"
  BY <1>1, <1>2 DEF Takes, Held, Same, Return, At
<1>4. \A d \in Daemons : ~Unnamed(d) /\ ~Unnamed(d)'
  BY <1>3, NoneYoung DEF Base, Unnamed
<1>5. Reading(c)'
  BY <1>1, <1>3 DEF Reading
<1>6. Commanding'
  BY <1>1, <1>3, <1>4, <1>5, Placed
<1>7. Truthful(c)
  BY <1>1, <1>3 DEF Truthful
<1> QED
  BY <1>2, <1>3, <1>6, <1>7, Still DEF Kept, Takes

(* A command that finds no pid file, or has removed it, where all are past. *)
LEMMA Without ==
  ASSUME Singly, Base, NEW c \in Commands, NoMetadata(c), UNCHANGED daemon, Files',
         \A d \in Daemons : Past(d)
  PROVE  Kept(c)
<1>1. \A d \in Daemons : ~Running(d) /\ Past(d)' /\ ~Unnamed(d)'
  BY DEF Past, Unnamed, Running
<1>2. CASE Continue(c, "spawn")
  <2>1. /\ command' \in [Commands -> CommandState] /\ command'[c].at = "spawn"
        /\ command'[c].reply = command[c].reply
    BY <1>2, Continues DEF Base
  <2>2. Reading(c)'
    BY <2>1 DEF Reading
  <2>3. Commanding'
    BY <1>1, <2>1, <2>2, Placed
  <2> QED
    BY <1>1, <2>1, <2>3 DEF Kept, Truthful
<1>3. ASSUME NEW reply \in {"failed", "stopped"}, Reply(c, reply, None) PROVE Kept(c)
  <2>1. /\ command' \in [Commands -> CommandState] /\ command'[c].at = "replied"
        /\ command'[c].reply = reply
    BY <1>3, Replying DEF Base
  <2>2. Reading(c)'
    BY <2>1 DEF Reading
  <2>3. Commanding'
    BY <1>1, <2>1, <2>2, Placed
  <2> QED
    BY <1>1, <2>1, <2>3 DEF Kept, Truthful
<1> QED
  BY <1>2, <1>3 DEF NoMetadata

LEMMA NoMetadataHeld ==
  ASSUME Types, NEW c \in Commands, NoMetadata(c)
  PROVE  Held
<1>1. Continue(c, "spawn") => Held
  BY Continues
<1>2. ASSUME NEW reply \in {"failed", "stopped"}, Reply(c, reply, None) PROVE Held
  BY <1>2, Replying
<1> QED
  BY <1>1, <1>2 DEF NoMetadata

LEMMA ReadKeeps ==
  ASSUME Singly, Base, NEW c \in Commands, ReadMetadata(c)
  PROVE  Kept(c)
<1>1. UNCHANGED <<files, daemon>> /\ command[c].at = "read"
  BY DEF ReadMetadata, At
<1>2. \A d \in Daemons : ~Unnamed(d) /\ ~Unnamed(d)'
  BY <1>1, NoneYoung DEF Base, Unnamed
<1>3. CASE path = None
  <2>1. NoMetadata(c)
    BY <1>3 DEF ReadMetadata
  <2>2. (\A d \in Daemons : Past(d)) /\ Files'
    BY <1>1, <1>3, <2>1, AllPast, NoMetadataHeld, Still DEF Base
  <2> QED
    BY <1>1, <2>1, <2>2, Without
<1>4. CASE path # None /\ content[path] = Empty
  <2>1. Continue(c, "discard")
    BY <1>4 DEF ReadMetadata
  <2>2. /\ command' \in [Commands -> CommandState] /\ Held
        /\ command'[c].at = "discard" /\ command'[c].reply = command[c].reply
    BY <2>1, Continues DEF Base
  <2>3. \A d \in Daemons : Past(d)'
    BY <1>1, <1>4, AllPast DEF Past
  <2>4. Reading(c)'
    BY <2>2 DEF Reading
  <2>5. Commanding'
    BY <1>1, <1>2, <2>2, <2>3, <2>4, Placed
  <2> QED
    BY <1>1, <2>2, <2>5, Still DEF Kept, Truthful
<1>5. CASE path # None /\ content[path] # Empty /\ command[c].child # None
  <2>1. Reply(c, "started", content[path]) /\ content[path] \in Daemons
    BY <1>5 DEF ReadMetadata, Base, Types
  <2>2. /\ command' \in [Commands -> CommandState] /\ Held
        /\ command'[c].at = "replied" /\ command'[c].reply = "started"
        /\ command'[c].pid = content[path] /\ command'[c].child = command[c].child
    BY <2>1, Replying DEF Base
  <2>3. command[c].child = content[path]
    BY <1>1, <1>5 DEF Base, Readings, Reading
  <2>4. Reading(c)'
    BY <2>2 DEF Reading
  <2>5. Commanding'
    BY <1>1, <1>2, <2>2, <2>4, Placed
  <2> QED
    BY <1>1, <2>2, <2>3, <2>5, Still DEF Kept, Truthful
<1>6. CASE path # None /\ content[path] # Empty /\ command[c].child = None
  <2> DEFINE r == command[c]
             j == [r EXCEPT !.at = "probe", !.pid = content[path]]
  <2>1. r \in CommandState /\ content[path] \in Daemons
    BY <1>6 DEF Base, Types
  <2>2. command' = [command EXCEPT ![c] = j]
    BY <1>6 DEF ReadMetadata
  <2> HIDE DEF r
  <2>3. /\ j \in CommandState /\ j.at = "probe" /\ j.reply = r.reply
        /\ j.pid = content[path] /\ j.held = r.held /\ j.is = r.is
    BY <2>1 DEF CommandState
  <2> HIDE DEF j
  <2>4. Takes(c, j)
    BY <2>2, <2>3, Taking DEF Base
  <2>5. Held /\ command'[c] = j
    BY <2>3, <2>4 DEF Takes, Held, Same, r
  <2>6. UNCHANGED <<path, content>>
    BY <1>1 DEF files
  <2>7. r.is # "idle"
    BY <1>1, <1>6 DEF Base, Readings, Reading, r
  <2>8. Reading(c)'
    BY <2>1, <2>3, <2>5, <2>6, <2>7 DEF Reading
  <2>9. Commanding'
    BY <1>1, <1>2, <2>3, <2>5, <2>8, Placed
  <2> QED
    BY <1>1, <2>3, <2>4, <2>5, <2>9, Still DEF Kept, Truthful, Takes, r
<1> QED
  BY <1>3, <1>4, <1>5, <1>6

LEMMA RemovalKeeps ==
  ASSUME Singly, Base, NEW c \in Commands, Discard(c) \/ RemoveStale(c)
  PROVE  Kept(c)
<1>1. path' = None /\ UNCHANGED <<content, lock, daemon>>
      /\ command[c].at \in {"discard", "remove"}
  BY DEF Discard, RemoveStale, At
<1>2. \A d \in Daemons : Past(d)
  BY <1>1 DEF Base, Starts, Awaiting
<1>3. ASSUME Held PROVE Files'
  BY <1>1, <1>2, <1>3, Unpathed DEF Base, Files
<1>4. CASE NoMetadata(c)
  BY <1>1, <1>2, <1>3, <1>4, NoMetadataHeld, Without DEF Base
<1>5. \A d \in Daemons : ~Running(d) /\ Past(d)' /\ ~Unnamed(d)'
  BY <1>1, <1>2 DEF Past, Unnamed, Running
<1>6. CASE Continue(c, "spawn")
  <2>1. /\ command' \in [Commands -> CommandState] /\ command'[c].at = "spawn" /\ Held
        /\ command'[c].reply = command[c].reply
    BY <1>6, Continues DEF Base
  <2>2. Reading(c)'
    BY <2>1 DEF Reading
  <2>3. Commanding'
    BY <1>1, <1>5, <2>1, <2>2, Placed
  <2> QED
    BY <1>3, <1>5, <2>1, <2>3 DEF Kept, Truthful
<1>7. CASE Reply(c, "stopped", None)
  <2>1. /\ command' \in [Commands -> CommandState] /\ command'[c].at = "replied" /\ Held
        /\ command'[c].reply = "stopped"
    BY <1>7, Replying DEF Base
  <2>2. Reading(c)'
    BY <2>1 DEF Reading
  <2>3. Commanding'
    BY <1>1, <1>5, <2>1, <2>2, Placed
  <2> QED
    BY <1>3, <1>5, <2>1, <2>3 DEF Kept, Truthful
<1> QED
  BY <1>4, <1>6, <1>7 DEF Discard, RemoveStale

LEMMA AwaitReadyKeeps ==
  ASSUME Singly, Base, Planes, NEW c \in Commands, AwaitReady(c)
  PROVE  Kept(c)
<1>1. UNCHANGED <<files, daemon>> /\ command[c].at = "ready"
  BY DEF AwaitReady, At
<1>2. /\ command[c].child \in Daemons
      /\ \A d \in Daemons \ {command[c].child} : Past(d)
  BY <1>1 DEF Base, Starts, Awaiting
<1>3. CASE daemon[command[c].child].at = "dead"
  <2>1. Reply(c, "failed", None)
    BY <1>3 DEF AwaitReady
  <2>2. /\ command' \in [Commands -> CommandState] /\ command'[c].at = "replied" /\ Held
        /\ command'[c].reply = "failed"
    BY <2>1, Replying DEF Base
  <2>3. \A d \in Daemons : ~Unnamed(d)'
    BY <1>1, <1>2, <1>3 DEF Past, Unnamed
  <2>4. Reading(c)'
    BY <2>2 DEF Reading
  <2>5. Commanding'
    BY <1>1, <2>2, <2>3, <2>4, Placed
  <2> QED
    BY <1>1, <2>2, <2>5, Still DEF Kept, Truthful
<1>4. CASE port # None /\ Continue(c, "read")
  <2>1. /\ command' \in [Commands -> CommandState] /\ command'[c].at = "read" /\ Held
        /\ command'[c].reply = command[c].reply /\ command'[c].child = command[c].child
    BY <1>4, Continues DEF Base
  <2>2. port \in Daemons /\ daemon[port].at \in {"up", "draining"}
    BY <1>4 DEF Base, Types, Planes
  <2>3. port = command[c].child
    BY <1>2, <2>2 DEF Past
  <2>4. \A d \in Daemons : ~Unnamed(d)'
    BY <1>1, <1>2, <2>2, <2>3 DEF Past, Unnamed
  <2>5. path \in Daemons /\ content[path] = command[c].child
    BY <2>2, <2>3 DEF Base, Owners, Owner, Owns, Unnamed
  <2>6. UNCHANGED <<path, content>>
    BY <1>1 DEF files
  <2>7. Reading(c)'
    BY <1>2, <2>1, <2>5, <2>6, NamesAssumption DEF Reading
  <2>8. Commanding'
    BY <1>1, <2>1, <2>4, <2>7, Placed
  <2> QED
    BY <1>1, <2>1, <2>8, Still DEF Kept, Truthful
<1> QED
  BY <1>3, <1>4 DEF AwaitReady

LEMMA UnlockDeadlineKeeps ==
  ASSUME Singly, Base, NEW c \in Commands, UnlockDeadline(c)
  PROVE  Kept(c)
<1>1. UNCHANGED <<files, daemon>> /\ command[c].at = "await" /\ Reply(c, "failed", None)
  BY DEF UnlockDeadline, At
<1>2. /\ command' \in [Commands -> CommandState] /\ command'[c].at = "replied" /\ Held
      /\ command'[c].reply = "failed"
  BY <1>1, Replying DEF Base
<1>3. \A d \in Daemons : ~Unnamed(d) /\ ~Unnamed(d)'
  BY <1>1, NoneYoung DEF Base, Unnamed
<1>4. Reading(c)'
  BY <1>2 DEF Reading
<1>5. Commanding'
  BY <1>1, <1>2, <1>3, <1>4, Placed
<1> QED
  BY <1>1, <1>2, <1>5, Still DEF Kept, Truthful

(* A command that has the lock of a file that no daemon holds.              *)
LEMMA LockTaken ==
  ASSUME Base, NEW c \in Commands, path \in Daemons, lock[path] = None, command[c].held = None,
         lock' = [lock EXCEPT ![path] = c], UNCHANGED <<path, content, daemon>>,
         command'[c].held = path, Same(c)
  PROVE  Files'
<1>1. lock'[path] = c /\ \A i \in Daemons \ {path} : lock'[i] = lock[i]
  BY DEF Base, Types
<1>2. None \notin Daemons /\ c \notin Daemons
  BY NamesAssumption
<1>3. Owners'
  BY <1>1, <1>2 DEF Base, Owners, Owner, Owns, Unnamed
<1>4. Inodes'
  BY DEF Base, Inodes, Inode
<1>5. ASSUME NEW i \in Daemons, NEW d \in Daemons, lock'[i] = d
      PROVE  daemon'[d].file = i /\ (Owns(d)' \/ daemon'[d].at = "unlinked")
  BY <1>1, <1>2, <1>5 DEF Base, Locks, Owns
<1>6. ASSUME NEW i \in Daemons, NEW e \in Commands
      PROVE  lock'[i] = e <=> command'[e].held = i
  <2>1. lock[i] = e <=> command[e].held = i
    BY DEF Base, Locks
  <2>2. CASE e = c
    BY <1>1, <1>2, <2>1, <2>2
  <2>3. CASE e # c
    <3>1. command'[e] = command[e] /\ e # None
      BY <2>3, NamesAssumption DEF Same
    <3> QED
      BY <1>1, <2>1, <2>3, <3>1
  <2> QED
    BY <2>2, <2>3
<1>7. Locks'
  BY <1>5, <1>6 DEF Locks
<1> QED
  BY <1>3, <1>4, <1>7 DEF Files

LEMMA CloseFileKeeps ==
  ASSUME Singly, Base, NEW c \in Commands, CloseFile(c)
  PROVE  Kept(c)
<1> DEFINE r == command[c]
           j == [r EXCEPT !.held = None]
<1>1. r \in CommandState /\ r.held # None /\ r.held \in Daemons
  BY DEF Base, Types, CloseFile, CommandState
<1>2. command' = [command EXCEPT ![c] = j]
  BY DEF CloseFile
<1>3. lock' = [lock EXCEPT ![r.held] = None] /\ UNCHANGED <<path, content, daemon>>
  BY DEF CloseFile
<1>4. lock[r.held] = c /\ None \notin Daemons /\ c \notin Daemons
  BY <1>1, NamesAssumption DEF Base, Locks
<1> HIDE DEF r
<1>5. /\ j \in CommandState /\ j.at = r.at /\ j.reply = r.reply /\ j.pid = r.pid
      /\ j.child = r.child /\ j.held = None /\ j.is = r.is
  BY <1>1 DEF CommandState
<1> HIDE DEF j
<1>6. Takes(c, j)
  BY <1>2, <1>5, Taking DEF Base
<1>7. /\ \A e \in Commands : /\ command'[e].at = command[e].at /\ command'[e].pid = command[e].pid
                             /\ command'[e].child = command[e].child
                             /\ command'[e].is = command[e].is
      /\ command'[c] = j
  BY <1>5, <1>6 DEF Takes, Same, r
<1>8. lock'[r.held] = None /\ \A i \in Daemons \ {r.held} : lock'[i] = lock[i]
  BY <1>1, <1>3 DEF Base, Types
<1>9. Files'
  <2>1. Owners'
    BY <1>3, <1>4, <1>8 DEF Base, Owners, Owner, Owns, Unnamed
  <2>2. Inodes'
    BY <1>3 DEF Base, Inodes, Inode
  <2>3. ASSUME NEW i \in Daemons, NEW d \in Daemons, lock'[i] = d
        PROVE  daemon'[d].file = i /\ (Owns(d)' \/ daemon'[d].at = "unlinked")
    BY <1>3, <1>4, <1>8, <2>3 DEF Base, Locks, Owns
  <2>4. ASSUME NEW i \in Daemons, NEW e \in Commands
        PROVE  lock'[i] = e <=> command'[e].held = i
    <3>1. (lock[i] = e <=> command[e].held = i) /\ e # None
      BY NamesAssumption DEF Base, Locks
    <3>2. CASE e = c
      BY <1>4, <1>5, <1>7, <1>8, <3>1, <3>2 DEF r
    <3>3. CASE e # c
      BY <1>4, <1>6, <1>8, <3>1, <3>3 DEF Takes, Same
    <3> QED
      BY <3>2, <3>3
  <2> QED
    BY <2>1, <2>2, <2>3, <2>4 DEF Files, Locks
<1>10. Commanding'
  BY <1>3, <1>7 DEF Base, Commanding, Starts, Starting, Unnamed, Fresh, Awaiting, Past, Readings, Reading
<1>11. Truthful(c)
  BY <1>5, <1>7 DEF Truthful, r
<1> QED
  BY <1>6, <1>9, <1>10, <1>11 DEF Kept, Takes

(* What a killed command leaves: no lock, and the child that it started.    *)
LEMMA KillKeeps ==
  ASSUME Singly, Base, NEW c \in Commands, Kill(c)
  PROVE  Kept(c) /\ lock' \in [Daemons -> Daemons \cup Commands \cup {None}]
<1>1. Idle \in CommandState /\ Idle.at = "idle" /\ Idle.reply = "none" /\ Idle.child = None
      /\ Idle.held = None
  BY DEF Idle, CommandState
<1>2. Takes(c, Idle)
  BY <1>1, Taking DEF Kill, Base
<1>3. /\ UNCHANGED <<path, content, daemon>> /\ command'[c] = Idle
      /\ \A e \in Commands : e = c
  BY <1>2 DEF Kill, Takes, Singly
<1>4. \A i \in Daemons : lock'[i] = IF lock[i] = c THEN None ELSE lock[i]
  BY DEF Kill
<1>5. None \notin Daemons /\ c \notin Daemons /\ c # None
  BY NamesAssumption
<1>6. Files'
  <2>1. Owners'
    BY <1>3, <1>4, <1>5 DEF Base, Owners, Owner, Owns, Unnamed
  <2>2. Inodes'
    BY <1>3 DEF Base, Inodes, Inode
  <2>3. ASSUME NEW i \in Daemons, NEW d \in Daemons, lock'[i] = d
        PROVE  daemon'[d].file = i /\ (Owns(d)' \/ daemon'[d].at = "unlinked")
    BY <1>3, <1>4, <1>5, <2>3 DEF Base, Locks, Owns
  <2>4. ASSUME NEW i \in Daemons, NEW e \in Commands
        PROVE  lock'[i] = e <=> command'[e].held = i
    BY <1>1, <1>3, <1>4, <1>5
  <2> QED
    BY <2>1, <2>2, <2>3, <2>4 DEF Files, Locks
<1>7. \A d \in Daemons : Starting(d)'
  BY <1>1, <1>3 DEF Base, Starts, Starting, Fresh, Unnamed, Past
<1>8. Awaiting(c)' /\ Reading(c)'
  BY <1>1, <1>3 DEF Awaiting, Reading
<1>9. Commanding'
  BY <1>7, <1>8, Placing DEF Base
<1>10. lock' \in [Daemons -> Daemons \cup Commands \cup {None}]
  BY DEF Kill, Base, Types
<1>11. Truthful(c)
  BY <1>1, <1>3 DEF Truthful
<1> QED
  BY <1>2, <1>6, <1>9, <1>10, <1>11 DEF Kept, Takes

(* A daemon that holds the lock at the path is the one that is named there. *)
LEMMA LockNames ==
  ASSUME Singly, Base, NEW c \in Commands, command[c].at \notin {"idle", "ready"},
         command[c].held = None, Locked(c)
  PROVE  content[path] \in Daemons /\ Alive(content[path])
<1>1. path \in Daemons /\ lock[path] \in Daemons \cup Commands
  BY DEF Locked, Base, Types
<1>2. lock[path] \notin Commands
  <2>1. \A e \in Commands : e = c /\ lock[path] # e
    BY <1>1, NamesAssumption DEF Singly, Base, Locks
  <2> QED
    BY <2>1
<1>3. PICK d \in Daemons : lock[path] = d
  BY <1>1, <1>2
<1>4. daemon[d].file = path /\ (Owns(d) \/ daemon[d].at = "unlinked")
  BY <1>1, <1>3 DEF Base, Locks
<1>5. Owns(d)
  BY <1>4 DEF Base, Inodes, Inode
<1>6. ~Unnamed(d)
  BY NoneYoung DEF Base
<1>7. content[path] = d
  BY <1>5, <1>6 DEF Base, Owners, Owner, Unnamed
<1> QED
  BY <1>5, <1>7 DEF Owns, Alive

(* The next place of a command that has tried the lock, and got it or not.  *)
LEMMA FreeKeeps ==
  ASSUME Singly, Base, NEW c \in Commands, command[c].at \notin {"idle", "ready"},
         command[c].held = None, ~Locked(c), UNCHANGED <<path, content, daemon>>,
         \/ Probed(c, Replied(c, "stopped", None)) \/ Probed(c, Going(c, "remove"))
  PROVE  Kept(c)
<1> DEFINE r == command[c]
<1>1. r \in CommandState
  BY DEF Base, Types
<1>2. \A d \in Daemons : Past(d)
  BY AllPast DEF Locked
<1>3. \A d \in Daemons : ~Running(d) /\ Past(d)' /\ ~Unnamed(d)'
  BY <1>2 DEF Past, Unnamed, Running
<1>4. ASSUME command' \in [Commands -> CommandState], Files', command'[c].at \in {"replied", "remove"},
             command'[c].reply \in {"stopped", r.reply}
      PROVE  Kept(c)
  <2>1. Reading(c)'
    BY <1>4 DEF Reading
  <2>2. Commanding'
    BY <1>3, <1>4, <2>1, Placed
  <2> QED
    BY <1>3, <1>4, <2>2 DEF Kept, Truthful
<1>5. CASE path # None
  <2> DEFINE j == [r EXCEPT !.at = "replied", !.reply = "stopped", !.pid = None, !.held = path]
             k == [r EXCEPT !.at = "remove", !.held = path]
  <2>1. path \in Daemons /\ lock[path] = None
    BY <1>5 DEF Locked, Base, Types
  <2>2. lock' = [lock EXCEPT ![path] = c]
        /\ (command' = [command EXCEPT ![c] = j] \/ command' = [command EXCEPT ![c] = k])
    <3>1. CASE Probed(c, Replied(c, "stopped", None))
      <4>1. lock' = [lock EXCEPT ![path] = c]
            /\ command' = [Replied(c, "stopped", None) EXCEPT ![c].held = path]
        BY <2>1, <3>1, <1>5 DEF Probed
      <4>2. [Replied(c, "stopped", None) EXCEPT ![c].held = path] = [command EXCEPT ![c] = j]
        BY DEF Replied, Base, Types, CommandState
      <4> QED
        BY <4>1, <4>2
    <3>2. CASE Probed(c, Going(c, "remove"))
      <4>1. lock' = [lock EXCEPT ![path] = c]
            /\ command' = [Going(c, "remove") EXCEPT ![c].held = path]
        BY <2>1, <3>2, <1>5 DEF Probed
      <4>2. [Going(c, "remove") EXCEPT ![c].held = path] = [command EXCEPT ![c] = k]
        BY DEF Going, Base, Types, CommandState
      <4> QED
        BY <4>1, <4>2
    <3> QED
      BY <3>1, <3>2
  <2> HIDE DEF r
  <2>3. /\ j \in CommandState /\ j.at = "replied" /\ j.reply = "stopped" /\ j.held = path
        /\ k \in CommandState /\ k.at = "remove" /\ k.reply = r.reply /\ k.held = path
    BY <1>1, <2>1 DEF CommandState
  <2> HIDE DEF j, k
  <2>4. Takes(c, j) \/ Takes(c, k)
    BY <2>2, <2>3, Taking DEF Base
  <2>5. Files'
    BY <2>1, <2>2, <2>3, <2>4, LockTaken DEF Takes
  <2> QED
    BY <1>4, <2>3, <2>4, <2>5 DEF Takes
<1>6. CASE path = None
  <2>1. UNCHANGED lock /\ (Reply(c, "stopped", None) \/ Continue(c, "remove"))
    BY <1>6 DEF Probed, Reply, Continue
  <2>2. CASE Reply(c, "stopped", None)
    <3>1. /\ command' \in [Commands -> CommandState] /\ Held
          /\ command'[c].at = "replied" /\ command'[c].reply = "stopped"
      BY <2>2, Replying DEF Base
    <3> QED
      BY <1>4, <2>1, <3>1, Still DEF files
  <2>3. CASE Continue(c, "remove")
    <3>1. /\ command' \in [Commands -> CommandState] /\ Held
          /\ command'[c].at = "remove" /\ command'[c].reply = command[c].reply
      BY <2>3, Continues DEF Base
    <3> QED
      BY <1>4, <2>1, <3>1, Still DEF files
  <2> QED
    BY <2>1, <2>2, <2>3
<1> QED
  BY <1>5, <1>6

(* A command that has tried a lock that a daemon holds.                     *)
LEMMA ProbeKeeps ==
  ASSUME Singly, Base, NEW c \in Commands, Probe(c)
  PROVE  Kept(c)
<1> DEFINE r == command[c]
<1>1. /\ UNCHANGED <<path, content, daemon>> /\ r.at = "probe" /\ r.held = None
      /\ Probed(c, AfterProbe(c, Locked(c)))
  BY DEF Probe, At
<1>2. r \in CommandState /\ r.pid \in Daemons /\ r.is # "idle"
  BY <1>1 DEF Base, Types, Readings, Reading
<1>3. r.is \in {"start", "status", "stop"}
  BY <1>2 DEF CommandState
<1>4. CASE ~Locked(c)
  <2>1. AfterProbe(c, Locked(c)) \in {Replied(c, "stopped", None), Going(c, "remove")}
    BY <1>3, <1>4 DEF AfterProbe
  <2> QED
    BY <1>1, <1>4, <2>1, FreeKeeps
<1>5. CASE Locked(c)
  <2>1. UNCHANGED lock /\ path # None /\ command' = AfterProbe(c, TRUE)
    BY <1>1, <1>5 DEF Probed, Locked
  <2>2. content[path] = r.pid /\ Alive(r.pid)
    BY <1>1, <1>5, <2>1, LockNames DEF Base, Readings, Reading
  <2>3. \A d \in Daemons : ~Unnamed(d) /\ ~Unnamed(d)'
    BY <1>1, NoneYoung DEF Base, Unnamed
  <2>4. CASE r.is = "stop"
    <3>1. Continue(c, "terminate")
      BY <2>1, <2>4 DEF AfterProbe, Continue
    <3>2. /\ command' \in [Commands -> CommandState] /\ Held /\ command'[c].at = "terminate"
          /\ command'[c].reply = command[c].reply /\ command'[c].pid = r.pid
      BY <3>1, Continues DEF Base
    <3>3. Reading(c)'
      BY <1>2, <3>2 DEF Reading
    <3>4. Commanding'
      BY <1>1, <2>3, <3>2, <3>3, Placed
    <3> QED
      BY <1>1, <2>1, <3>2, <3>4, Still DEF Kept, Truthful, files
  <2>5. ASSUME NEW reply \in {"already", "running"}, Reply(c, reply, r.pid) PROVE Kept(c)
    <3>1. /\ command' \in [Commands -> CommandState] /\ Held /\ command'[c].at = "replied"
          /\ command'[c].reply = reply /\ command'[c].pid = r.pid
      BY <1>2, <2>5, Replying DEF Base
    <3>2. Reading(c)'
      BY <3>1 DEF Reading
    <3>3. Commanding'
      BY <1>1, <2>3, <3>1, <3>2, Placed
    <3> QED
      BY <1>1, <2>1, <2>2, <3>1, <3>3, Still DEF Kept, Truthful, files
  <2>6. CASE r.is = "start" \/ r.is = "status"
    <3>1. Reply(c, "already", r.pid) \/ Reply(c, "running", r.pid)
      BY <2>1, <2>6 DEF AfterProbe, Reply
    <3> QED
      BY <2>5, <3>1
  <2> QED
    BY <1>3, <2>4, <2>6
<1> QED
  BY <1>4, <1>5

LEMMA AwaitUnlockKeeps ==
  ASSUME Singly, Base, NEW c \in Commands, AwaitUnlock(c)
  PROVE  Kept(c)
BY FreeKeeps DEF AwaitUnlock, At

LEMMA SpawnKeeps ==
  ASSUME Singly, Base, NEW c \in Commands, Spawn(c)
  PROVE  Kept(c) /\ \E d \in Daemons : daemon[d].at = "unborn" /\ Goto(d, "spawned")
<1> DEFINE r == command[c]
<1>1. PICK d \in Daemons : /\ daemon[d].at = "unborn" /\ Goto(d, "spawned")
                           /\ command' = [command EXCEPT ![c].child = d, ![c].at = "ready"]
  BY DEF Spawn
<1>2. UNCHANGED files /\ r.at = "spawn"
  BY DEF Spawn, At
<1> DEFINE j == [r EXCEPT !.child = d, !.at = "ready"]
<1>3. r \in CommandState
  BY DEF Base, Types
<1>4. command' = [command EXCEPT ![c] = j]
  BY <1>1
<1> HIDE DEF r
<1>5. /\ j \in CommandState /\ j.at = "ready" /\ j.child = d /\ j.held = r.held
      /\ j.reply = r.reply
  BY <1>3 DEF CommandState
<1> HIDE DEF j
<1>6. Takes(c, j)
  BY <1>4, <1>5, Taking DEF Base
<1>7. Held /\ command'[c] = j
  BY <1>5, <1>6 DEF Takes, Held, Same, r
<1>8. /\ Others(d) /\ daemon'[d].at = "spawned" /\ daemon'[d].file = daemon[d].file
      /\ daemon'[d].handlers = daemon[d].handlers
  <2> DEFINE s == daemon[d]
             k == [s EXCEPT !.at = "spawned"]
  <2>1. s \in DaemonState
    BY DEF Base, Types
  <2>2. daemon' = [daemon EXCEPT ![d] = k]
    BY <1>1 DEF Goto, Becomes
  <2> HIDE DEF s
  <2>3. k \in DaemonState /\ k.at = "spawned" /\ k.file = s.file /\ k.handlers = s.handlers
    BY <2>1 DEF DaemonState
  <2> HIDE DEF k
  <2> QED
    BY <2>2, <2>3, Becoming DEF Base, s
<1>9. \A e \in Daemons : Past(e) /\ ~Owns(e) /\ daemon[e].at # "opened"
  BY <1>2, PastIdle DEF Base, Starts, Awaiting, Unnamed, r
<1>10. \A e \in Daemons : e # d => daemon'[e] = daemon[e]
  BY <1>8 DEF Others
<1>11. Files'
  <2>1. Owners'
    BY <1>8, <1>9, <1>10 DEF Owners, Owner, Owns, Unnamed
  <2>2. \A i \in Daemons : lock[i] # d
    BY <1>1, <1>9 DEF Base, Locks
  <2>3. Locks'
    BY <1>2, <1>7, <1>8, <1>10, <2>2 DEF Base, Locks, Owns, Held, files
  <2>4. ASSUME NEW e \in Daemons PROVE Inode(e)'
    <3>1. Inode(e) /\ Inode(d) /\ path' = path
      BY <1>2 DEF Base, Inodes, files
    <3>2. daemon[e].file # d
      BY <1>1, <3>1, NamesAssumption DEF Inode
    <3>3. daemon[e].file # None => daemon[e].file \in Daemons
      BY Stages DEF Base
    <3>4. CASE e = d
      BY <1>1, <1>8, <3>1, <3>4 DEF Inode
    <3>5. CASE e # d
      <4>1. daemon'[e] = daemon[e]
        BY <1>10, <3>5
      <4>2. daemon[e].file # None =>
              daemon[e].file \in Daemons /\ daemon'[daemon[e].file] = daemon[daemon[e].file]
        BY <1>10, <3>2, <3>3
      <4> QED
        BY <3>1, <4>1, <4>2 DEF Inode
    <3> QED
      BY <3>4, <3>5
  <2> QED
    BY <2>1, <2>3, <2>4 DEF Files, Inodes
<1>12. \A e \in Daemons : Starting(e)'
  <2>1. ASSUME NEW e \in Daemons PROVE Starting(e)'
    <3>1. Starting(e) /\ ~Unnamed(e)
      BY <1>9, PastIdle DEF Base, Starts
    <3>2. CASE e = d
      <4>1. (\A f \in Daemons \ {d} : Past(f)') /\ \A b \in Commands : b = c
        BY <1>9, <1>10 DEF Past, Singly
      <4> QED
        BY <1>1, <1>5, <1>7, <1>8, <3>1, <3>2, <4>1 DEF Starting, Fresh
    <3>3. CASE e # d
      BY <1>10, <3>1, <3>3 DEF Starting, Unnamed, Fresh
    <3> QED
      BY <3>2, <3>3
  <2> QED
    BY <2>1
<1>13. Awaiting(c)'
  BY <1>5, <1>7, <1>8, <1>9, <1>10 DEF Awaiting, Past
<1>14. Reading(c)'
  BY <1>5, <1>7 DEF Reading
<1>15. Commanding'
  BY <1>12, <1>13, <1>14, Placing DEF Base
<1>16. Truthful(c)
  BY <1>5, <1>7 DEF Truthful, r
<1> QED
  BY <1>1, <1>6, <1>11, <1>15, <1>16 DEF Kept, Takes

(* A process that a command signals dies of it or has handlers.             *)
LEMMA Terminated ==
  ASSUME Base, NEW d \in Daemons, Terminate(d)
  PROVE  /\ Dies(d) \/ (UNCHANGED files /\ daemon' = daemon) \/ Inner(d)
         /\ \A e \in Daemons \ {d} : daemon'[e] = daemon[e]
         /\ ~Unnamed(d)' /\ (Fresh(d)' => daemon'[d] = daemon[d])
<1>1. CASE Alive(d) /\ ~daemon[d].handlers
  <2>1. Dies(d)
    BY <1>1, Deaths DEF Terminate, Base
  <2> QED
    BY <2>1 DEF Dies, Others, Unnamed, Fresh
<1>2. ~daemon[d].handlers \/ ~Fresh(d)
  BY DEF Base, Starts, Starting
<1>3. CASE Alive(d) /\ daemon[d].handlers
  <2> DEFINE r == daemon[d]
             j == [r EXCEPT !.told = TRUE]
  <2>1. r \in DaemonState
    BY DEF Base, Types
  <2>2. Becomes(d, j) /\ UNCHANGED files
    BY <1>3 DEF Terminate, Becomes
  <2> HIDE DEF r
  <2>3. j \in DaemonState /\ j.at = r.at /\ j.file = r.file /\ j.handlers = r.handlers
    BY <2>1 DEF DaemonState
  <2> HIDE DEF j
  <2>4. Fits(d, j)
    BY <2>3 DEF Fits, r
  <2>5. Inner(d)
    BY <2>2, <2>4, Fitting DEF Base
  <2>6. Others(d) /\ daemon'[d] = j
    BY <2>2, <2>3, Becoming DEF Becomes, Base
  <2> QED
    BY <1>2, <1>3, <2>3, <2>5, <2>6 DEF Others, Unnamed, Fresh, r
<1>4. CASE ~Alive(d)
  BY <1>4 DEF Terminate, Alive, Unnamed
<1> QED
  BY <1>1, <1>3, <1>4

LEMMA TerminatedFiles ==
  ASSUME Base, NEW d \in Daemons, Terminate(d), Held
  PROVE  Files'
<1>1. Dies(d) \/ (UNCHANGED files /\ daemon' = daemon) \/ Inner(d)
  BY Terminated
<1> QED
  BY <1>1, DeathFiles, InnerFiles, Still DEF Base, Files

LEMMA ReadyDeadlineKeeps ==
  ASSUME Singly, Base, NEW c \in Commands, ReadyDeadline(c)
  PROVE  Kept(c) /\ command[c].child \in Daemons
<1>1. PICK d \in Daemons : /\ d = command[c].child /\ Terminate(d) /\ Reply(c, "failed", None)
                          /\ command[c].at = "ready"
  BY DEF ReadyDeadline, At, Base, Starts, Awaiting
<1>2. \A e \in Daemons \ {d} : Past(e)
  BY <1>1 DEF Base, Starts, Awaiting
<1>3. /\ command' \in [Commands -> CommandState] /\ Held
      /\ command'[c].at = "replied" /\ command'[c].reply = "failed"
  BY <1>1, Replying DEF Base
<1>4. Files'
  BY <1>1, <1>2, <1>3, TerminatedFiles
<1>5. /\ \A e \in Daemons \ {d} : daemon'[e] = daemon[e]
      /\ ~Unnamed(d)' /\ (Fresh(d)' => daemon'[d] = daemon[d])
  BY <1>1, <1>2, Terminated
<1>6. \A e \in Daemons : ~Unnamed(e)' /\ (Fresh(e)' => daemon'[e] = daemon[e])
  BY <1>2, <1>5 DEF Past, Unnamed
<1>7. Reading(c)'
  BY <1>3 DEF Reading
<1>8. Commanding'
  BY <1>3, <1>6, <1>7, Placed
<1> QED
  BY <1>1, <1>3, <1>4, <1>8 DEF Kept, Truthful

LEMMA SendTermKeeps ==
  ASSUME Singly, Base, NEW c \in Commands, SendTerm(c)
  PROVE  Kept(c) /\ command[c].pid \in Daemons
<1>1. PICK d \in Daemons : /\ d = command[c].pid /\ Terminate(d) /\ Continue(c, "await")
                          /\ command[c].at = "terminate"
  BY DEF SendTerm, At, Base, Readings, Reading
<1>2. \A e \in Daemons : ~Unnamed(e)
  BY <1>1, NoneYoung DEF Base
<1>3. /\ command' \in [Commands -> CommandState] /\ Held
      /\ command'[c].at = "await" /\ command'[c].reply = command[c].reply
  BY <1>1, Continues DEF Base
<1>4. Files'
  BY <1>1, <1>2, <1>3, TerminatedFiles
<1>5. /\ \A e \in Daemons \ {d} : daemon'[e] = daemon[e]
      /\ ~Unnamed(d)' /\ (Fresh(d)' => daemon'[d] = daemon[d])
  BY <1>1, <1>2, Terminated
<1>6. \A e \in Daemons : ~Unnamed(e)' /\ (Fresh(e)' => daemon'[e] = daemon[e])
  BY <1>2, <1>5 DEF Unnamed
<1>7. Reading(c)'
  BY <1>3 DEF Reading
<1>8. Commanding'
  BY <1>3, <1>6, <1>7, Placed
<1> QED
  BY <1>1, <1>3, <1>4, <1>8 DEF Kept, Truthful

(* What a command does keeps the files and what it knows of them.           *)
LEMMA CommandBase ==
  ASSUME Singly, Base, Planes, NEW c \in Commands,
         Command(c) \/ Invoke(c) \/ Return(c) \/ Kill(c), ~raced'
  PROVE  Kept(c)
BY InvokeKeeps, ReturnKeeps, KillKeeps, ReadKeeps, RemovalKeeps, AwaitReadyKeeps, UnlockDeadlineKeeps,
   ProbeKeeps, AwaitUnlockKeeps, CloseFileKeeps, SpawnKeeps, ReadyDeadlineKeeps, SendTermKeeps
   DEF Command

--------------------------------------------------------------------------------
(* The planes                                                               *)

(* It is enough what a step says of the daemon whose state it changes, and  *)
(* that no other loses its socket while it serves.                          *)
LEMMA PlanesOf ==
  ASSUME Planes, Sockets, NEW d \in Daemons,
         \A e \in Daemons \ {d} : daemon'[e] = daemon[e] /\ (port' = e => port = e),
         port' = d => daemon'[d].at \in {"up", "draining"} /\ daemon'[d].proxy = "bound",
         Fresh(d)' => daemon'[d].admin = "none",
         daemon'[d].admin = "bound" /\ daemon'[d].at = "up" => socket' = d,
         UNCHANGED socket \/ \A e \in Daemons \ {d} : daemon[e].at # "up"
  PROVE  Planes' /\ Sockets'
<1>1. Planes'
  BY DEF Planes, Fresh, Unnamed
<1>2. Sockets'
  BY DEF Sockets
<1> QED
  BY <1>1, <1>2

LEMMA PlanesStay ==
  ASSUME Base, Planes, Sockets, NEW d \in Daemons, Others(d), UNCHANGED <<port, socket>>,
         daemon'[d].proxy = daemon[d].proxy, daemon'[d].admin = daemon[d].admin,
         \/ daemon'[d].at = daemon[d].at
         \/ Fresh(d)
         \/ daemon[d].at = "up" /\ daemon'[d].at = "draining"
         \/ daemon[d].at = "draining" /\ daemon[d].proxy = "closed" /\ daemon'[d].at = "served"
         \/ daemon[d].at = "served" /\ daemon'[d].at = "unlinked"
  PROVE  Planes' /\ Sockets'
<1>1. /\ port = d => daemon[d].at \in {"up", "draining"} /\ daemon[d].proxy = "bound"
      /\ Fresh(d) => daemon[d].admin = "none"
      /\ daemon[d].admin = "bound" /\ daemon[d].at = "up" => socket = d
  BY DEF Planes, Sockets
<1>2. port' = d => daemon'[d].at \in {"up", "draining"} /\ daemon'[d].proxy = "bound"
  BY <1>1 DEF Fresh, Unnamed
<1>3. Fresh(d)' => daemon'[d].admin = "none"
  BY <1>1 DEF Fresh, Unnamed
<1>4. daemon'[d].admin = "bound" /\ daemon'[d].at = "up" => socket' = d
  BY <1>1
<1>5. \A e \in Daemons \ {d} : daemon'[e] = daemon[e] /\ (port' = e => port = e)
  BY DEF Others
<1> QED
  BY <1>2, <1>3, <1>4, <1>5, PlanesOf

(* What the planes and the files are made of, after a step of a daemon.     *)
Shown == Planes' /\ Sockets' /\ (command' \in [Commands -> CommandState] => Types')

LEMMA DieShows ==
  ASSUME Base, Planes, Sockets, NEW d \in Daemons, Die(d)
  PROVE  Shown
<1> DEFINE j == [Unborn EXCEPT !.at = "dead"]
<1>1. Dies(d) /\ port' # d /\ (port' = port \/ port' = None) /\ UNCHANGED socket
  BY Deaths DEF Base
<1>2. j \in DaemonState /\ j.at = "dead" /\ j.admin = "none"
  BY DEF Unborn, DaemonState
<1>3. daemon' = [daemon EXCEPT ![d] = j]
  BY DEF Die, Becomes
<1> HIDE DEF j
<1>4. Others(d) /\ daemon'[d] = j
  BY <1>2, <1>3, Becoming DEF Base
<1>5. \A e \in Daemons \ {d} : daemon'[e] = daemon[e] /\ (port' = e => port = e)
  BY <1>1, <1>4, NamesAssumption DEF Others
<1>6. Planes' /\ Sockets'
  BY <1>1, <1>2, <1>4, <1>5, PlanesOf DEF Fresh, Unnamed
<1>7. lock' \in [Daemons -> Daemons \cup Commands \cup {None}] /\ UNCHANGED <<path, content>>
  BY <1>1 DEF Dies, Base, Types
<1> QED
  BY <1>1, <1>4, <1>6, <1>7 DEF Shown, Types, Others, Base

LEMMA GotoFields ==
  ASSUME Types, NEW d \in Daemons, NEW at \in {"spawned", "locked", "truncated", "building", "up",
                                               "draining", "served", "unlinked"}, Goto(d, at)
  PROVE  /\ Others(d) /\ daemon'[d].at = at
         /\ daemon'[d].proxy = daemon[d].proxy /\ daemon'[d].admin = daemon[d].admin
<1> DEFINE r == daemon[d]
           j == [r EXCEPT !.at = at]
<1>1. r \in DaemonState
  BY DEF Types
<1>2. daemon' = [daemon EXCEPT ![d] = j]
  BY DEF Goto, Becomes
<1> HIDE DEF r
<1>3. j \in DaemonState /\ j.at = at /\ j.proxy = r.proxy /\ j.admin = r.admin
  BY <1>1 DEF DaemonState
<1> HIDE DEF j
<1> QED
  BY <1>2, <1>3, Becoming DEF r

LEMMA GotoShows ==
  ASSUME Base, Planes, Sockets, NEW d \in Daemons,
         \/ Acquire(d) \/ Truncate(d) \/ WriteMetadata(d) \/ Build(d) \/ ReceiveSignal(d)
         \/ Join(d) \/ RemovePidFile(d)
  PROVE  Shown
<1>1. CASE Acquire(d)
  <2>1. CASE Die(d)
    BY <2>1, DieShows
  <2>2. CASE ~Die(d)
    <3> DEFINE inode == daemon[d].file
    <3>1. /\ daemon[d].at = "opened" /\ Goto(d, "locked")
          /\ lock' = [lock EXCEPT ![inode] = d] /\ UNCHANGED <<path, content, port, socket>>
      BY <1>1, <2>2 DEF Acquire
    <3>2. /\ Others(d) /\ daemon'[d].proxy = daemon[d].proxy
          /\ daemon'[d].admin = daemon[d].admin
      BY <3>1, GotoFields DEF Base
    <3>3. Fresh(d)
      BY <3>1 DEF Fresh, Unnamed
    <3> HIDE DEF inode
    <3>4. lock' \in [Daemons -> Daemons \cup Commands \cup {None}]
      BY <3>1 DEF Base, Types
    <3>5. Planes' /\ Sockets'
      BY <3>1, <3>2, <3>3, PlanesStay
    <3> QED
      BY <3>1, <3>2, <3>4, <3>5 DEF Shown, Types, Base, Others
  <2> QED
    BY <2>1, <2>2
<1>2. CASE Truncate(d) \/ WriteMetadata(d)
  <2>1. PICK at \in {"truncated", "building"}, text \in {Empty, d} :
          /\ daemon[d].at \in {"locked", "truncated"} /\ Goto(d, at)
          /\ UNCHANGED <<path, lock, port, socket>>
          /\ content' = [content EXCEPT ![daemon[d].file] = text]
    BY <1>2 DEF Truncate, WriteMetadata
  <2>2. Others(d) /\ daemon'[d].proxy = daemon[d].proxy /\ daemon'[d].admin = daemon[d].admin
    BY <2>1, GotoFields DEF Base
  <2>3. Fresh(d)
    BY <2>1 DEF Fresh, Unnamed
  <2>4. content' \in [Daemons -> Daemons \cup {Empty}]
    BY <2>1 DEF Base, Types
  <2>5. Planes' /\ Sockets'
    BY <2>1, <2>2, <2>3, PlanesStay
  <2> QED
    BY <2>1, <2>2, <2>4, <2>5 DEF Shown, Types, Base, Others
<1>3. CASE Build(d) \/ ReceiveSignal(d) \/ Join(d)
  <2>1. PICK at \in {"up", "served", "draining"} :
          /\ Goto(d, at)
          /\ \/ daemon[d].at = "building"
             \/ daemon[d].at = "up" /\ at = "draining"
             \/ daemon[d].at = "draining" /\ daemon[d].proxy = "closed" /\ at = "served"
    <3>1. CASE Build(d)
      BY <3>1 DEF Build
    <3>2. CASE ReceiveSignal(d)
      BY <3>2 DEF ReceiveSignal
    <3>3. CASE Join(d)
      BY <3>3 DEF Join
    <3> QED
      BY <1>3, <3>1, <3>2, <3>3
  <2>2. UNCHANGED <<files, port, socket>>
    BY <1>3 DEF Build, ReceiveSignal, Join
  <2>3. /\ Others(d) /\ daemon'[d].at = at
        /\ daemon'[d].proxy = daemon[d].proxy /\ daemon'[d].admin = daemon[d].admin
    BY <2>1, GotoFields DEF Base
  <2>4. Planes' /\ Sockets'
    BY <2>1, <2>2, <2>3, PlanesStay DEF Fresh
  <2> QED
    BY <2>2, <2>3, <2>4 DEF Shown, Types, Base, Others, files
<1>4. CASE RemovePidFile(d)
  <2>1. /\ daemon[d].at = "served" /\ Goto(d, "unlinked") /\ path' = None
        /\ UNCHANGED <<content, lock, port, socket>>
    BY <1>4 DEF RemovePidFile
  <2>2. /\ Others(d) /\ daemon'[d].at = "unlinked"
        /\ daemon'[d].proxy = daemon[d].proxy /\ daemon'[d].admin = daemon[d].admin
    BY <2>1, GotoFields DEF Base
  <2>3. Planes' /\ Sockets'
    BY <2>1, <2>2, PlanesStay
  <2> QED
    BY <2>1, <2>2, <2>3 DEF Shown, Types, Base, Others
<1> QED
  BY <1>1, <1>2, <1>3, <1>4

(* While a daemon is up, or drains, no other serves.                        *)
LEMMA UpAlone ==
  ASSUME Base, NEW d \in Daemons, Up(d)
  PROVE  Owns(d) /\ \A e \in Daemons \ {d} : daemon[e].at # "up"
<1>1. Owns(d)
  BY DEF Up, Owns
<1>2. ASSUME NEW e \in Daemons, daemon[e].at = "up" PROVE e = d
  BY <1>1, <1>2, OneOwner DEF Base, Owns
<1> QED
  BY <1>1, <1>2

(* A step of a plane leaves everything else as it is.                       *)
LEMMA PlaneTypes ==
  ASSUME Base, NEW d \in Daemons, Others(d), UNCHANGED files,
         port' \in {port, None, d}, socket' \in {socket, None, d}, Planes', Sockets'
  PROVE  Shown
BY DEF Base, Types, Others, files, Shown

LEMMA PlaneShows ==
  ASSUME Base, Planes, Sockets, NEW d \in Daemons,
         BindProxy(d) \/ UnlinkSocket(d) \/ BindAdmin(d) \/ CloseProxy(d) \/ CloseAdmin(d)
  PROVE  Shown
<1> DEFINE r == daemon[d]
<1>1. r \in DaemonState /\ r.at \in {"up", "draining"} /\ Up(d) /\ UNCHANGED files
  BY DEF Base, Types, BindProxy, UnlinkSocket, BindAdmin, CloseProxy, CloseAdmin, Up
<1>2. /\ \A e \in Daemons \ {d} : daemon[e].at # "up"
      /\ r.admin = "bound" /\ r.at = "up" => socket = d
      /\ port = d => r.proxy = "bound"
  BY <1>1, UpAlone DEF Sockets, Planes
<1>3. d # None
  BY NamesAssumption
<1> HIDE DEF r
<1>4. ASSUME NEW j \in DaemonState, j.at \in {"up", "draining"},
             port' = d => j.proxy = "bound",
             j.admin = "bound" /\ j.at = "up" => socket' = d,
             Becomes(d, j), port' \in {port, None, d}, socket' \in {socket, None, d}
      PROVE  Shown
  <2>1. Others(d) /\ daemon'[d] = j
    BY <1>4, Becoming DEF Becomes, Base
  <2>2. \A e \in Daemons \ {d} : daemon'[e] = daemon[e] /\ (port' = e => port = e)
    BY <1>4, <2>1, NamesAssumption DEF Others
  <2>3. Planes' /\ Sockets'
    BY <1>2, <1>4, <2>1, <2>2, PlanesOf DEF Fresh, Unnamed
  <2> QED
    BY <1>1, <1>4, <2>1, <2>3, PlaneTypes
<1>5. CASE BindProxy(d)
  <2>1. CASE port = None
    <3> DEFINE j == [r EXCEPT !.proxy = "bound"]
    <3>1. Becomes(d, j) /\ port' = d /\ UNCHANGED socket
      BY <1>5, <2>1 DEF BindProxy, r
    <3>2. j \in DaemonState /\ j.at = r.at /\ j.proxy = "bound" /\ j.admin = r.admin
      BY <1>1 DEF DaemonState
    <3> HIDE DEF j
    <3> QED
      BY <1>1, <1>2, <1>4, <3>1, <3>2
  <2>2. CASE port # None
    <3> DEFINE j == [r EXCEPT !.proxy = "closed", !.at = "draining"]
    <3>1. Becomes(d, j) /\ UNCHANGED <<port, socket>> /\ r.proxy = "none"
      BY <1>5, <2>2 DEF BindProxy, r
    <3>2. j \in DaemonState /\ j.at = "draining"
      BY <1>1 DEF DaemonState
    <3> HIDE DEF j
    <3> QED
      BY <1>1, <1>2, <1>4, <3>1, <3>2
  <2> QED
    BY <2>1, <2>2
<1>6. CASE UnlinkSocket(d)
  <2> DEFINE j == [r EXCEPT !.admin = "unlinked"]
  <2>1. Becomes(d, j) /\ UNCHANGED port /\ socket' = None
    BY <1>6 DEF UnlinkSocket, r
  <2>2. j \in DaemonState /\ j.at = r.at /\ j.proxy = r.proxy /\ j.admin = "unlinked"
    BY <1>1 DEF DaemonState
  <2> HIDE DEF j
  <2> QED
    BY <1>1, <1>2, <1>4, <2>1, <2>2
<1>7. CASE BindAdmin(d)
  <2>1. CASE socket = None
    <3> DEFINE j == [r EXCEPT !.admin = "bound"]
    <3>1. Becomes(d, j) /\ socket' = d /\ UNCHANGED port
      BY <1>7, <2>1 DEF BindAdmin, r
    <3>2. j \in DaemonState /\ j.at = r.at /\ j.proxy = r.proxy
      BY <1>1 DEF DaemonState
    <3> HIDE DEF j
    <3> QED
      BY <1>1, <1>2, <1>4, <3>1, <3>2
  <2>2. CASE socket # None
    <3> DEFINE j == [r EXCEPT !.admin = "closed", !.at = "draining"]
    <3>1. Becomes(d, j) /\ UNCHANGED <<port, socket>>
      BY <1>7, <2>2 DEF BindAdmin, r
    <3>2. j \in DaemonState /\ j.at = "draining" /\ j.proxy = r.proxy
      BY <1>1 DEF DaemonState
    <3> HIDE DEF j
    <3> QED
      BY <1>1, <1>2, <1>4, <3>1, <3>2
  <2> QED
    BY <2>1, <2>2
<1>8. CASE CloseProxy(d)
  <2> DEFINE j == [r EXCEPT !.proxy = "closed"]
  <2>1. Becomes(d, j) /\ port' = None /\ UNCHANGED socket
    BY <1>8 DEF CloseProxy, r
  <2>2. j \in DaemonState /\ j.at = r.at /\ j.admin = r.admin
    BY <1>1 DEF DaemonState
  <2> HIDE DEF j
  <2> QED
    BY <1>1, <1>2, <1>3, <1>4, <2>1, <2>2
<1>9. CASE CloseAdmin(d)
  <2> DEFINE j == [r EXCEPT !.admin = "closed"]
  <2>1. Becomes(d, j) /\ socket' = None /\ UNCHANGED port
    BY <1>9 DEF CloseAdmin, r
  <2>2. j \in DaemonState /\ j.at = r.at /\ j.proxy = r.proxy /\ j.admin = "closed"
    BY <1>1 DEF DaemonState
  <2> HIDE DEF j
  <2> QED
    BY <1>1, <1>2, <1>4, <2>1, <2>2
<1> QED
  BY <1>5, <1>6, <1>7, <1>8, <1>9

(* A step that leaves the daemon where it is.                               *)
LEMMA StayShows ==
  ASSUME Base, Planes, Sockets, NEW d \in Daemons, NEW j \in DaemonState, Becomes(d, j),
         UNCHANGED <<files, port, socket>>, j.at = daemon[d].at,
         j.proxy = daemon[d].proxy, j.admin = daemon[d].admin
  PROVE  Shown
<1>1. Others(d) /\ daemon'[d] = j
  BY Becoming DEF Becomes, Base
<1>2. Planes' /\ Sockets'
  BY <1>1, PlanesStay
<1> QED
  BY <1>1, <1>2, PlaneTypes

LEMMA RestShows ==
  ASSUME Base, Planes, Sockets, NEW d \in Daemons,
         OpenPidFile(d) \/ InstallHandlers(d) \/ Attach(d) \/ Detach(d)
  PROVE  Shown
<1> DEFINE r == daemon[d]
<1>1. r \in DaemonState
  BY DEF Base, Types
<1>2. CASE OpenPidFile(d)
  <2> DEFINE inode == IF path = None THEN d ELSE path
             j == [r EXCEPT !.at = "opened", !.file = inode]
  <2>1. inode \in Daemons /\ path' = inode /\ UNCHANGED <<content, lock, port, socket>>
        /\ daemon[d].at = "spawned" /\ Becomes(d, j)
    BY <1>2 DEF OpenPidFile, Base, Types
  <2> HIDE DEF r, inode
  <2>2. j \in DaemonState /\ j.proxy = r.proxy /\ j.admin = r.admin
    BY <1>1, <2>1 DEF DaemonState
  <2> HIDE DEF j
  <2>3. Others(d) /\ daemon'[d] = j
    BY <2>1, <2>2, Becoming DEF Becomes, Base
  <2>4. Planes' /\ Sockets'
    BY <2>1, <2>2, <2>3, PlanesStay DEF Fresh, Unnamed, r
  <2> QED
    BY <2>1, <2>3, <2>4 DEF Shown, Types, Base, Others
<1>3. CASE InstallHandlers(d)
  <2> DEFINE j == [r EXCEPT !.handlers = TRUE]
  <2>1. Becomes(d, j) /\ UNCHANGED <<files, port, socket>>
    BY <1>3 DEF InstallHandlers
  <2> HIDE DEF r
  <2>2. j \in DaemonState /\ j.at = r.at /\ j.proxy = r.proxy /\ j.admin = r.admin
    BY <1>1 DEF DaemonState
  <2> HIDE DEF j
  <2> QED
    BY <2>1, <2>2, StayShows DEF r
<1>4. ASSUME NEW b \in BOOLEAN, Becomes(d, [r EXCEPT !.clients = b]),
             UNCHANGED <<files, port, socket>>
      PROVE  Shown
  <2> DEFINE j == [r EXCEPT !.clients = b]
  <2> HIDE DEF r
  <2>1. j \in DaemonState /\ j.at = r.at /\ j.proxy = r.proxy /\ j.admin = r.admin
    BY <1>1 DEF DaemonState
  <2>2. Becomes(d, j)
    BY <1>4
  <2> HIDE DEF j
  <2> QED
    BY <1>4, <2>1, <2>2, StayShows DEF r
<1>5. CASE Attach(d) \/ Detach(d)
  BY <1>4, <1>5 DEF Attach, Detach
<1> QED
  BY <1>2, <1>3, <1>5

LEMMA DaemonShows ==
  ASSUME Base, Planes, Sockets, NEW d \in Daemons,
         Daemon(d) \/ Attach(d) \/ Detach(d) \/ Crash(d)
  PROVE  Shown /\ UNCHANGED command
<1>1. Shown
  BY DieShows, GotoShows, PlaneShows, RestShows DEF Daemon, Exit, Crash
<1>2. UNCHANGED command
  BY DEF Daemon, OpenPidFile, Acquire, Truncate, WriteMetadata, Build, BindProxy, UnlinkSocket, BindAdmin,
         InstallHandlers, Attach, Detach, ReceiveSignal, CloseProxy, CloseAdmin, Join,
         RemovePidFile, Exit, Crash
<1> QED
  BY <1>1, <1>2

(* A command touches the planes only by what it starts or ends.             *)
LEMMA CalmShows ==
  ASSUME Base, Planes, Sockets, UNCHANGED <<content, port, socket, daemon>>,
         path' \in {path, None}, lock' \in [Daemons -> Daemons \cup Commands \cup {None}]
  PROVE  Shown
<1>1. Planes' /\ Sockets'
  BY DEF Planes, Sockets, Fresh, Unnamed
<1> QED
  BY <1>1 DEF Shown, Base, Types

LEMMA ProbedTypes ==
  ASSUME Base, NEW c \in Commands, NEW next, Probed(c, next)
  PROVE  lock' \in [Daemons -> Daemons \cup Commands \cup {None}]
<1>1. UNCHANGED lock \/ lock' = [lock EXCEPT ![path] = c]
  BY DEF Probed
<1> QED
  BY <1>1 DEF Base, Types

LEMMA TerminateShows ==
  ASSUME Base, Planes, Sockets, NEW d \in Daemons, Terminate(d)
  PROVE  Shown
<1>1. CASE Alive(d) /\ ~daemon[d].handlers
  BY <1>1, DieShows DEF Terminate
<1>2. CASE Alive(d) /\ daemon[d].handlers
  <2> DEFINE r == daemon[d]
             j == [r EXCEPT !.told = TRUE]
  <2>1. r \in DaemonState
    BY DEF Base, Types
  <2>2. Becomes(d, j) /\ UNCHANGED <<files, port, socket>>
    BY <1>2 DEF Terminate, Becomes
  <2> HIDE DEF r
  <2>3. j \in DaemonState /\ j.at = r.at /\ j.proxy = r.proxy /\ j.admin = r.admin
    BY <2>1 DEF DaemonState
  <2> HIDE DEF j
  <2> QED
    BY <2>2, <2>3, StayShows DEF r
<1>3. CASE ~Alive(d)
  <2>1. UNCHANGED <<files, port, socket, daemon>>
    BY <1>3 DEF Terminate
  <2> QED
    BY <2>1, CalmShows DEF files, Base, Types
<1> QED
  BY <1>1, <1>2, <1>3

LEMMA CommandShows ==
  ASSUME Singly, Base, Planes, Sockets, NEW c \in Commands,
         Command(c) \/ Invoke(c) \/ Return(c) \/ Kill(c)
  PROVE  Shown
<1>1. lock \in [Daemons -> Daemons \cup Commands \cup {None}]
  BY DEF Base, Types
<1>2. CASE ReadMetadata(c) \/ AwaitReady(c) \/ UnlockDeadline(c) \/ Invoke(c) \/ Return(c)
  BY <1>1, <1>2, CalmShows DEF ReadMetadata, AwaitReady, UnlockDeadline, Invoke, Return, files
<1>3. CASE Discard(c) \/ RemoveStale(c)
  BY <1>1, <1>3, CalmShows DEF Discard, RemoveStale
<1>4. CASE Probe(c)
  <2>1. lock' \in [Daemons -> Daemons \cup Commands \cup {None}]
    BY <1>4, ProbedTypes DEF Probe
  <2> QED
    BY <1>4, <2>1, CalmShows DEF Probe
<1>5. CASE AwaitUnlock(c)
  <2>1. lock' \in [Daemons -> Daemons \cup Commands \cup {None}]
    BY <1>5, ProbedTypes DEF AwaitUnlock
  <2> QED
    BY <1>5, <2>1, CalmShows DEF AwaitUnlock
<1>6. CASE CloseFile(c)
  <2>1. lock' \in [Daemons -> Daemons \cup Commands \cup {None}]
    BY <1>1, <1>6 DEF CloseFile
  <2> QED
    BY <1>6, <2>1, CalmShows DEF CloseFile
<1>7. CASE Spawn(c)
  <2>1. PICK d \in Daemons : daemon[d].at = "unborn" /\ Goto(d, "spawned")
    BY <1>7 DEF Spawn
  <2>2. UNCHANGED <<files, port, socket>>
    BY <1>7 DEF Spawn
  <2>3. /\ Others(d) /\ daemon'[d].proxy = daemon[d].proxy
        /\ daemon'[d].admin = daemon[d].admin
    BY <2>1, GotoFields DEF Base
  <2>4. Planes' /\ Sockets'
    BY <2>1, <2>2, <2>3, PlanesStay DEF Fresh
  <2> QED
    BY <2>2, <2>3, <2>4, PlaneTypes
<1>8. CASE ReadyDeadline(c)
  BY <1>8, ReadyDeadlineKeeps, TerminateShows DEF ReadyDeadline
<1>9. CASE SendTerm(c)
  BY <1>9, SendTermKeeps, TerminateShows DEF SendTerm
<1>10. CASE Kill(c)
  BY <1>10, KillKeeps, CalmShows DEF Kill
<1> QED
  BY <1>2, <1>3, <1>4, <1>5, <1>6, <1>7, <1>8, <1>9, <1>10 DEF Command

--------------------------------------------------------------------------------
(* The invariant                                                            *)

LEMMA InitIInv == Init => IInv
<1> SUFFICES ASSUME Init PROVE IInv
  OBVIOUS
<1>1. /\ Unborn \in DaemonState /\ Unborn.at = "unborn" /\ Unborn.file = None
      /\ Unborn.admin = "none" /\ ~Unborn.handlers
      /\ Idle \in CommandState /\ Idle.at = "idle" /\ Idle.child = None /\ Idle.held = None
  BY DEF Unborn, Idle, DaemonState, CommandState
<1>2. /\ \A d \in Daemons : daemon[d] = Unborn /\ lock[d] = None /\ d # None
      /\ \A c \in Commands : command[c] = Idle /\ c # None
  BY NamesAssumption DEF Init
<1>3. Types
  BY <1>1 DEF Init, Types
<1>4. Owners
  BY <1>1, <1>2 DEF Owners, Owner, Owns, Unnamed
<1>5. Locks
  BY <1>1, <1>2 DEF Locks
<1>6. Inodes
  BY <1>1, <1>2, NamesAssumption DEF Init, Inodes, Inode
<1>7. Starts
  BY <1>1, <1>2 DEF Starts, Starting, Awaiting, Unnamed, Fresh
<1>8. Readings
  BY <1>1, <1>2 DEF Readings, Reading
<1>9. Planes /\ Sockets
  BY <1>1, <1>2, NamesAssumption DEF Init, Planes, Sockets
<1> QED
  BY <1>3, <1>4, <1>5, <1>6, <1>7, <1>8, <1>9 DEF IInv, Known, Base

(* What is so stays so: a command that was started too early is noted.      *)
LEMMA Noted ==
  ASSUME Next, raced
  PROVE  raced'
BY DEF Next, Daemon, OpenPidFile, Acquire, Truncate, WriteMetadata, Build, BindProxy, UnlinkSocket,
       BindAdmin, InstallHandlers, Attach, Detach, ReceiveSignal, CloseProxy, CloseAdmin, Join,
       RemovePidFile, Exit, Crash, Command, ReadMetadata, Discard, Probe, CloseFile, RemoveStale,
       Spawn, AwaitReady, ReadyDeadline, SendTerm, AwaitUnlock, UnlockDeadline, Invoke, Return, Kill

(* A step of one of the processes keeps what is known, and the replies it   *)
(* gives are right.                                                         *)
LEMMA StepKnown ==
  ASSUME Singly, Known, Next, ~raced'
  PROVE  Known' /\ \A c \in Commands : Truthful(c)
<1>1. Base /\ Planes /\ Sockets
  BY DEF Known
<1>2. CASE \E d \in Daemons : Daemon(d) \/ Attach(d) \/ Detach(d) \/ Crash(d)
  <2>1. PICK d \in Daemons : Daemon(d) \/ Attach(d) \/ Detach(d) \/ Crash(d)
    BY <1>2
  <2>2. Files' /\ Commanding'
    BY <1>1, <2>1, DaemonBase
  <2>3. Shown /\ UNCHANGED command
    BY <1>1, <2>1, DaemonShows
  <2>4. command' \in [Commands -> CommandState]
    BY <1>1, <2>3 DEF Base, Types
  <2>5. Known'
    BY <2>2, <2>3, <2>4 DEF Known, Base, Files, Commanding, Shown
  <2>6. \A c \in Commands : Truthful(c)
    BY <2>3 DEF Truthful
  <2> QED
    BY <2>5, <2>6
<1>3. CASE \E c \in Commands : Command(c) \/ Invoke(c) \/ Return(c) \/ Kill(c)
  <2>1. PICK c \in Commands : Command(c) \/ Invoke(c) \/ Return(c) \/ Kill(c)
    BY <1>3
  <2>2. Kept(c) /\ Shown
    BY <1>1, <2>1, CommandBase, CommandShows
  <2>3. Known'
    BY <2>2 DEF Known, Base, Files, Commanding, Shown, Kept
  <2>4. \A e \in Commands : e = c
    BY DEF Singly
  <2> QED
    BY <2>2, <2>3, <2>4 DEF Kept
<1> QED
  BY <1>2, <1>3 DEF Next

LEMMA StutterKnown ==
  ASSUME Known, UNCHANGED vars
  PROVE  Known' /\ \A c \in Commands : Truthful(c)
<1>1. UNCHANGED <<path, content, lock, port, socket, daemon, command>>
  BY DEF vars
<1>2. Types' /\ Owners' /\ Locks' /\ Inodes'
  BY <1>1 DEF Known, Base, Types, Owners, Owner, Owns, Unnamed, Locks, Inodes, Inode
<1>3. Starts' /\ Readings'
  BY <1>1 DEF Known, Base, Starts, Starting, Unnamed, Fresh, Awaiting, Past, Readings, Reading
<1>4. Planes' /\ Sockets'
  BY <1>1 DEF Known, Planes, Sockets, Fresh, Unnamed
<1>5. \A c \in Commands : Truthful(c)
  BY <1>1 DEF Truthful
<1> QED
  BY <1>2, <1>3, <1>4, <1>5 DEF Known, Base

LEMMA NextIInv ==
  ASSUME Singly, IInv, [Next]_vars
  PROVE  IInv' /\ (~raced => raced' \/ \A c \in Commands : Truthful(c))
<1>1. CASE UNCHANGED vars
  <2>1. raced' = raced
    BY <1>1 DEF vars
  <2> QED
    BY <1>1, <2>1, StutterKnown DEF IInv
<1>2. CASE Next
  <2>1. raced => raced'
    BY <1>2, Noted
  <2>2. ASSUME ~raced' PROVE Known' /\ \A c \in Commands : Truthful(c)
    BY <1>2, <2>1, <2>2, StepKnown DEF IInv
  <2> QED
    BY <2>1, <2>2 DEF IInv
<1> QED
  BY <1>1, <1>2

(* The step that notes it is the start of a command, which gives no reply.  *)
LEMMA EarlyTruth ==
  ASSUME Types, Next, ~raced, raced'
  PROVE  \A c \in Commands : Truthful(c)
<1>1. PICK c \in Commands : Invoke(c)
  BY DEF Next, Daemon, OpenPidFile, Acquire, Truncate, WriteMetadata, Build, BindProxy,
         UnlinkSocket, BindAdmin, InstallHandlers, Attach, Detach, ReceiveSignal, CloseProxy,
         CloseAdmin, Join, RemovePidFile, Exit, Crash, Command, ReadMetadata, Discard, Probe,
         CloseFile, RemoveStale, Spawn, AwaitReady, ReadyDeadline, SendTerm, AwaitUnlock,
         UnlockDeadline, Return, Kill
<1>2. PICK is : command' = [command EXCEPT ![c].is = is, ![c].at = "read"]
  BY <1>1 DEF Invoke
<1>3. ASSUME NEW e \in Commands PROVE command'[e].reply = command[e].reply
  <2> DEFINE r == command[c]
             j == [r EXCEPT !.is = is, !.at = "read"]
  <2>1. command' = [command EXCEPT ![c] = j] /\ r \in CommandState /\ c \in DOMAIN command
    BY <1>2 DEF Types
  <2> HIDE DEF r
  <2>2. j.reply = r.reply
    BY <2>1 DEF CommandState
  <2> HIDE DEF j
  <2> QED
    BY <2>1, <2>2 DEF r, Types
<1> QED
  BY <1>3 DEF Truthful

LEMMA RunningOnce == IInv => OneDaemon
BY OneOwner DEF IInv, Known, Base, OneDaemon, Running, Owns

(* One command at a time, and any number of daemons: what the files, the    *)
(* locks and the commands know of each other holds from the start on.       *)
THEOREM FilesAgree == Singly => (Spec => []IInv)
<1> SUFFICES ASSUME Singly PROVE Spec => []IInv
  OBVIOUS
<1>1. IInv /\ [Next]_vars => IInv'
  BY NextIInv
<1> QED
  BY <1>1, InitIInv, PTL DEF Spec

(* run_serve_daemon_child under the lock of the pid file: while one command *)
(* runs at a time, never do two daemons run that were not told to end.      *)
THEOREM OneDaemonRuns == Singly => (Spec => []OneDaemon)
<1> SUFFICES ASSUME Singly PROVE Spec => []OneDaemon
  OBVIOUS
<1> QED
  BY FilesAgree, RunningOnce, PTL

(* bind_unix_listener and the removal at the end of the admin plane: the    *)
(* socket of a daemon that serves is at the path.                           *)
THEOREM AdminStays == Singly => (Spec => []AdminReachable)
<1> SUFFICES ASSUME Singly PROVE Spec => []AdminReachable
  OBVIOUS
<1>1. IInv => AdminReachable
  BY DEF IInv, Known, Sockets, AdminReachable
<1> QED
  BY FilesAgree, <1>1, PTL

(* What --status, --stop and serve --daemon print of the daemon is right.   *)
THEOREM RepliesAreTrue == Singly => (Spec => RepliesTrue)
<1> SUFFICES ASSUME Singly PROVE Spec => RepliesTrue
  OBVIOUS
<1>1. IInv /\ [Next]_vars =>
        [\A c \in Commands :
           ~raced /\ command[c].reply = "none" =>
             /\ command'[c].reply = "stopped" => \A d \in Daemons : ~Running(d)
             /\ command'[c].reply \in {"already", "running"} => Alive(command'[c].pid)
             /\ command'[c].reply = "started" => command'[c].pid = command'[c].child]_vars
  <2> SUFFICES ASSUME IInv, [Next]_vars, ~raced
               PROVE  \A c \in Commands : Truthful(c)
    BY DEF Truthful
  <2> QED
    BY NextIInv, EarlyTruth DEF vars, IInv, Known, Base
<1> QED
  BY FilesAgree, <1>1, PTL DEF RepliesTrue, Spec

================================================================================
