---------------------------- MODULE DaemonControl ----------------------------
(***************************************************************************)
(* src/src/main.rs: the commands daemon, stop and status, the pid file     *)
(* they share with the worker process, and the life of that worker as far  *)
(* as the file and a SIGTERM are concerned.                                *)
(*                                                                         *)
(* Every step is one call into the operating system, for the commands and  *)
(* the workers are processes of their own.  fs::write is two of them: it   *)
(* truncates the file when it opens it, and writes to whatever it has      *)
(* opened, be that file removed in the meantime.  Pids are written with    *)
(* the same number of digits.                                              *)
(***************************************************************************)
EXTENDS FiniteSets, Naturals

CONSTANTS
  Client,  \* terminals, each of which runs one command at a time
  Pid,     \* process ids
  NoPid,   \* no process id
  NoFile,  \* there is no pid file
  Empty    \* the pid file is there, with nothing in it

ASSUME PidAssumption == {NoPid, NoFile, Empty} \intersect Pid = {} /\ NoFile # Empty
ASSUME ClientAssumption == Client \intersect Pid = {}

VARIABLES
  pid_file,  \* NoFile, Empty or a pid
  writers,   \* who has the present file open and has still to write to it
  proc,      \* what each pid stands for
  told,      \* workers whose event loop has seen SIGTERM
  op,        \* the latest command of each client
  pc,        \* where that command is
  pid,       \* the pid it has read, or that of the child it has spawned
  answer,    \* what it has told its user
  unrecorded \* history: a command has gone before the pid file named its worker

fileVars == <<pid_file, writers>>
procVars == <<proc, told>>
commandVars == <<op, pc, pid, answer>>
vars == <<fileVars, procVars, commandVars, unrecorded>>

Commands == {"daemon", "stop", "status"}

(* A worker has been spawned, has opened the pid file, has written it, has *)
(* installed its signal handler, or has removed the file again.            *)
Worker == {"spawned", "guarding", "starting", "serving", "leaving"}

Init ==
  /\ pid_file = NoFile
  /\ writers = {}
  /\ proc = [p \in Pid |-> "free"]
  /\ told = {}
  /\ op = [c \in Client |-> "status"]
  /\ pc = [c \in Client |-> "idle"]
  /\ pid = [c \in Client |-> NoPid]
  /\ answer = [c \in Client |-> "none"]
  /\ unrecorded = FALSE

-----------------------------------------------------------------------------
(* The pid file.                                                           *)

Truncate(who) ==
  /\ pid_file' = Empty
  /\ writers' = writers \union {who}

Write(who, p) ==
  /\ pid_file' = IF who \in writers THEN p ELSE pid_file
  /\ writers' = writers \ {who}

Remove ==
  /\ pid_file' = NoFile
  /\ writers' = {}

(* is_daemon_worker_cmdline cannot tell how far a worker has come, nor     *)
(* whether it is the worker of another directory.                          *)
DaemonProcessMatches(p) == proc[p] \in Worker \union {"namesake"}

-----------------------------------------------------------------------------
(* The commands.                                                           *)

Goto(c, next) == pc' = [pc EXCEPT ![c] = next]

Say(c, what) ==
  /\ answer' = [answer EXCEPT ![c] = what]
  /\ Goto(c, "idle")

Call(c, command) ==
  /\ pc[c] = "idle"
  /\ op' = [op EXCEPT ![c] = command]
  /\ pid' = [pid EXCEPT ![c] = NoPid]
  /\ answer' = [answer EXCEPT ![c] = "none"]
  /\ Goto(c, "exists")
  /\ UNCHANGED <<fileVars, procVars, unrecorded>>

(* read_pid asks whether there is a file ... *)
Exists(c) ==
  /\ pc[c] = "exists"
  /\ IF pid_file # NoFile THEN Goto(c, "read") /\ UNCHANGED answer
     ELSE IF op[c] = "daemon" THEN Goto(c, "load") /\ UNCHANGED answer
     ELSE Say(c, "not_running")
  /\ UNCHANGED <<fileVars, procVars, op, pid, unrecorded>>

(* ... and then reads it: a file that is gone or empty is an error. *)
Read(c) ==
  /\ pc[c] = "read"
  /\ IF pid_file \in Pid
     THEN pid' = [pid EXCEPT ![c] = pid_file] /\ Goto(c, "match") /\ UNCHANGED answer
     ELSE Say(c, "error") /\ UNCHANGED pid
  /\ UNCHANGED <<fileVars, procVars, op, unrecorded>>

(* Mutant of Match: "daemon" takes every pid file for a stale one. *)
Match_DaemonOverwrites(c) ==
  /\ pc[c] = "match"
  /\ IF op[c] # "daemon" /\ DaemonProcessMatches(pid[c])
     THEN IF op[c] = "stop" THEN Goto(c, "kill") /\ UNCHANGED answer ELSE Say(c, "running")
     ELSE IF op[c] = "status" THEN Say(c, "stale") ELSE Goto(c, "remove") /\ UNCHANGED answer
  /\ UNCHANGED <<fileVars, procVars, op, pid, unrecorded>>

(* daemon_process_matches, and what each command makes of it. *)
Match(c) ==
  /\ pc[c] = "match"
  /\ IF DaemonProcessMatches(pid[c])
     THEN IF op[c] = "stop" THEN Goto(c, "kill") /\ UNCHANGED answer ELSE Say(c, "running")
     ELSE IF op[c] = "status" THEN Say(c, "stale") ELSE Goto(c, "remove") /\ UNCHANGED answer
  /\ UNCHANGED <<fileVars, procVars, op, pid, unrecorded>>

(* The process disappears between the look at /proc and the read below it. *)
MatchFails(c) ==
  /\ pc[c] = "match"
  /\ proc[pid[c]] = "free"
  /\ Say(c, "error")
  /\ UNCHANGED <<fileVars, procVars, op, pid, unrecorded>>

(* Whatever file is there by now is removed. *)
RemoveStale(c) ==
  /\ pc[c] = "remove"
  /\ Remove
  /\ IF op[c] = "daemon" THEN Goto(c, "load") /\ UNCHANGED answer ELSE Say(c, "stale")
  /\ UNCHANGED <<procVars, op, pid, unrecorded>>

(* The configuration is loaded, the log opened, and the worker spawned;    *)
(* spawn returns when the worker has been executed.                        *)
Spawn(c, p) ==
  /\ pc[c] = "load"
  /\ proc[p] = "free"
  /\ proc' = [proc EXCEPT ![p] = "spawned"]
  /\ pid' = [pid EXCEPT ![c] = p]
  /\ Goto(c, "open")
  /\ UNCHANGED <<fileVars, told, op, answer, unrecorded>>

SpawnFails(c) ==
  /\ pc[c] = "load"
  /\ Say(c, "error")
  /\ UNCHANGED <<fileVars, procVars, op, pid, unrecorded>>

(* Mutant of OpenFile: the text stays in a buffer that is never flushed. *)
OpenFile_Unflushed(c) ==
  /\ pc[c] = "open"
  /\ Truncate(c)
  /\ Say(c, "started")
  /\ UNCHANGED <<procVars, op, pid, unrecorded>>

OpenFile(c) ==
  /\ pc[c] = "open"
  /\ Truncate(c)
  /\ Goto(c, "write")
  /\ UNCHANGED <<procVars, op, pid, answer, unrecorded>>

WriteFile(c) ==
  /\ pc[c] = "write"
  /\ Write(c, pid[c])
  /\ Say(c, "started")
  /\ UNCHANGED <<procVars, op, pid, unrecorded>>

(* The command goes; if it had spawned a worker, that is left to itself.   *)
LeaveWorker(c) ==
  /\ writers' = writers \ {c}
  /\ unrecorded' = (unrecorded \/ (pc[c] \in {"open", "write"} /\ pid_file # pid[c]))
  /\ UNCHANGED <<pid_file, procVars, op, pid>>

(* The file cannot be opened or written: the error is returned. *)
FileFails(c) ==
  /\ pc[c] \in {"open", "write"}
  /\ LeaveWorker(c)
  /\ Say(c, "error")

(* The command is killed, or the terminal it was given at is closed. *)
Interrupted(c) ==
  /\ pc[c] # "idle"
  /\ LeaveWorker(c)
  /\ Goto(c, "idle")
  /\ UNCHANGED answer

(* SIGTERM: a worker without its handler is gone at once; one that waits   *)
(* will leave its loop, and one that does not wait just now may lose it.   *)
Signal(p) ==
  \/ /\ proc[p] \in {"spawned", "guarding", "starting", "leaving"}
     /\ proc' = [proc EXCEPT ![p] = "free"]
     /\ writers' = writers \ {p}
     /\ told' = told \ {p}
  \/ /\ proc[p] \in {"serving", "leaving"}
     /\ told' \in {told, told \union {p}}
     /\ UNCHANGED <<proc, writers>>

(* Mutant of Kill: stop removes the pid file itself. *)
Kill_RemovesFile(c) ==
  /\ pc[c] = "kill"
  /\ IF proc[pid[c]] \in Worker THEN Signal(pid[c]) ELSE UNCHANGED <<procVars, writers>>
  /\ Say(c, IF proc[pid[c]] = "free" THEN "error" ELSE "signalled")
  /\ pid_file' = NoFile
  /\ UNCHANGED <<op, pid, unrecorded>>

(* By now the pid may be free, or that of a stranger. *)
Kill(c) ==
  /\ pc[c] = "kill"
  /\ IF proc[pid[c]] \in Worker THEN Signal(pid[c]) ELSE UNCHANGED <<procVars, writers>>
  /\ Say(c, IF proc[pid[c]] = "free" THEN "error" ELSE "signalled")
  /\ UNCHANGED <<pid_file, op, pid, unrecorded>>

-----------------------------------------------------------------------------
(* The worker: PidFileGuard around run_config_watcher.                     *)

Step(p, from, to) ==
  /\ proc[p] = from
  /\ proc' = [proc EXCEPT ![p] = to]
  /\ UNCHANGED <<commandVars, unrecorded>>

GuardOpens(p) ==
  /\ Step(p, "spawned", "guarding")
  /\ Truncate(p)
  /\ UNCHANGED told

(* Mutant of GuardWrites: the guard's file is left to the parent. *)
GuardWrites_Nothing(p) ==
  /\ Step(p, "guarding", "starting")
  /\ writers' = writers \ {p}
  /\ UNCHANGED <<pid_file, told>>

GuardWrites(p) ==
  /\ Step(p, "guarding", "starting")
  /\ Write(p, p)
  /\ UNCHANGED told

Serves(p) ==
  /\ Step(p, "starting", "serving")
  /\ UNCHANGED <<fileVars, told>>

(* The watcher has returned and its managers are gone; the guard is        *)
(* dropped.                                                                *)
GuardDrops(p) ==
  /\ p \in told
  /\ Step(p, "serving", "leaving")
  /\ Remove
  /\ UNCHANGED told

(* The watcher could not install its handler. *)
ServeFails(p) ==
  /\ Step(p, "starting", "leaving")
  /\ Remove
  /\ UNCHANGED told

Exits(p) ==
  /\ Step(p, "leaving", "free")
  /\ told' = told \ {p}
  /\ UNCHANGED fileVars

(* SIGKILL, an abort, or the error of a guard that cannot write its file. *)
Crashes(p) ==
  /\ proc[p] \in Worker
  /\ Step(p, proc[p], "free")
  /\ told' = told \ {p}
  /\ writers' = writers \ {p}
  /\ UNCHANGED pid_file

(* Other programs use the pids that are free, the workers of other         *)
(* directories among them.                                                 *)
Others == {"stranger", "namesake"}

StrangerStarts(p) ==
  /\ \E other \in Others : Step(p, "free", other)
  /\ UNCHANGED <<fileVars, told>>

StrangerExits(p) ==
  /\ \E other \in Others : Step(p, other, "free")
  /\ UNCHANGED <<fileVars, told>>

Next ==
  \/ \E c \in Client :
       \/ \E command \in Commands : Call(c, command)
       \/ \E p \in Pid : Spawn(c, p)
       \/ Exists(c) \/ Read(c) \/ Match(c) \/ MatchFails(c) \/ RemoveStale(c)
       \/ SpawnFails(c) \/ OpenFile(c) \/ WriteFile(c) \/ FileFails(c) \/ Kill(c)
       \/ Interrupted(c)
  \/ \E p \in Pid :
       \/ GuardOpens(p) \/ GuardWrites(p) \/ Serves(p) \/ GuardDrops(p)
       \/ ServeFails(p) \/ Exits(p) \/ Crashes(p)
       \/ StrangerStarts(p) \/ StrangerExits(p)

DaemonSpec == Init /\ [][Next]_vars

-----------------------------------------------------------------------------
Workers == {p \in Pid : proc[p] \in Worker \ {"leaving"}}

(* The pid file, the processes and the commands are well formed; only      *)
(* those who are about to write hold the file open.                        *)
DaemonTypeOK ==
  /\ pid_file \in Pid \union {NoFile, Empty}
  /\ writers \subseteq {c \in Client : pc[c] = "write"} \union {p \in Pid : proc[p] = "guarding"}
  /\ proc \in [Pid -> Worker \union Others \union {"free"}]
  /\ told \subseteq {p \in Pid : proc[p] \in {"serving", "leaving"}}
  /\ op \in [Client -> Commands]
  /\ pc \in [Client -> {"idle", "exists", "read", "match", "remove", "load", "open", "write", "kill"}]
  /\ pid \in [Client -> Pid \union {NoPid}]
  /\ \A c \in Client : pc[c] \in {"match", "open", "write", "kill"} => pid[c] # NoPid
  /\ answer \in [Client -> {"none", "error", "not_running", "running", "stale", "started", "signalled"}]
  /\ unrecorded \in BOOLEAN

(* One command at a time: there is never a second worker, whatever pid     *)
(* files are left over from workers that were killed, whatever other       *)
(* process has their pid now, and however far a first worker has come;     *)
(* unless a command was cut short before the file named its worker.        *)
OneDaemon == ~unrecorded => Cardinality(Workers) <= 1

(* A worker that serves can be stopped: the pid file names it, but for the *)
(* moments in which somebody is rewriting the file.                        *)
Reachable ==
  \A p \in Pid :
    proc[p] = "serving" /\ ~unrecorded => pid_file = p \/ (pid_file = Empty /\ writers # {})

(* How the pid file and the only terminal keep track of a worker: a        *)
(* command is started on, or by, the one worker there is, and the file     *)
(* names it or is about to.                                                *)
Tracked ==
  \A p \in Workers, c \in Client :
    /\ \A q \in Workers : q = p
    /\ pc[c] \notin {"load", "remove"}
    /\ pc[c] \in {"match", "kill", "open", "write"} => pid[c] = p
    /\ proc[p] = "guarding" => p \in writers
    /\ pc[c] = "open" /\ proc[p] \in {"starting", "serving"} => pid_file = p
    /\ pc[c] = "write" => c \in writers /\ pid_file \in {p, Empty}
    /\ pc[c] \notin {"open", "write"} => pid_file = p \/ (pid_file = Empty /\ p \in writers)

(* The inductive invariant, for a single terminal. *)
DaemonInv == DaemonTypeOK /\ (~unrecorded => Tracked)

(* A command that tells its user that no daemon is running is right, while *)
(* workers start, stop and are killed around it.                           *)
ToldTheTruth ==
  \A c \in Client :
    answer'[c] # answer[c] /\ answer'[c] \in {"not_running", "stale"} /\ ~unrecorded => Workers = {}

NotRunningIsTrue == [][ToldTheTruth]_vars

(* Nobody is left at work who could still write the pid file: neither a    *)
(* worker nor, as far as c can see, another command.                       *)
Alone(c) == Workers = {} /\ \A d \in Client \ {c} : pc[d] = "idle"

(* README.md: "./vorto status   Show background process status" and        *)
(* "./vorto daemon   Run in the background": a command that finds a pid    *)
(* file, once whoever wrote it is gone, can read it, and goes on to remove *)
(* it if it is stale; it does not end with "Invalid PID file contents".    *)
FileIsReadable ==
  \A c \in Client : pc[c] = "read" /\ Alone(c) /\ ~unrecorded => pid_file # Empty
=============================================================================
