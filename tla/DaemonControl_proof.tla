------------------------- MODULE DaemonControl_proof -------------------------
(***************************************************************************)
(* One worker and a pid file that leads to it, for any number of process   *)
(* ids, as long as commands are given at one terminal.                     *)
(***************************************************************************)
EXTENDS DaemonControl, FiniteSetTheorems, TLAPS

(* A step of a command leaves everything well formed ... *)
LEMMA CommandTypes ==
  ASSUME DaemonTypeOK, NEW c \in Client,
         \/ \E command \in Commands : Call(c, command)
         \/ \E p \in Pid : Spawn(c, p)
         \/ Exists(c) \/ Read(c) \/ Match(c) \/ MatchFails(c) \/ RemoveStale(c)
         \/ SpawnFails(c) \/ OpenFile(c) \/ WriteFile(c) \/ FileFails(c) \/ Kill(c)
         \/ Interrupted(c)
  PROVE  DaemonTypeOK'
<1> USE PidAssumption, ClientAssumption DEF DaemonTypeOK, Goto, Say, fileVars, procVars
<1>1. CASE \E command \in Commands : Call(c, command)
  BY <1>1 DEF Call
<1>2. CASE \E p \in Pid : Spawn(c, p)
  BY <1>2 DEF Spawn, Worker, Others
<1>3. CASE Exists(c)
  BY <1>3 DEF Exists
<1>4. CASE Read(c)
  BY <1>4 DEF Read
<1>5. CASE Match(c)
  BY <1>5 DEF Match
<1>6. CASE MatchFails(c)
  BY <1>6 DEF MatchFails
<1>7. CASE RemoveStale(c)
  BY <1>7 DEF RemoveStale, Remove
<1>8. CASE SpawnFails(c)
  BY <1>8 DEF SpawnFails
<1>9. CASE OpenFile(c)
  BY <1>9 DEF OpenFile, Truncate
<1>10. CASE WriteFile(c)
  BY <1>10 DEF WriteFile, Write
<1>11. CASE FileFails(c)
  BY <1>11 DEF FileFails, LeaveWorker
<1>12. CASE Kill(c)
  <2>1. pid[c] \in Pid
    BY <1>12 DEF Kill
  <2> QED
    BY <1>12, <2>1 DEF Kill, Signal, Worker, Others
<1>13. CASE Interrupted(c)
  BY <1>13 DEF Interrupted, LeaveWorker
<1> QED
  BY <1>1, <1>2, <1>3, <1>4, <1>5, <1>6, <1>7, <1>8, <1>9, <1>10, <1>11, <1>12, <1>13

(* ... and so does one of another process. *)
LEMMA ProcessTypes ==
  ASSUME DaemonTypeOK, NEW p \in Pid,
         \/ GuardOpens(p) \/ GuardWrites(p) \/ Serves(p) \/ GuardDrops(p)
         \/ ServeFails(p) \/ Exits(p) \/ Crashes(p)
         \/ StrangerStarts(p) \/ StrangerExits(p)
  PROVE  DaemonTypeOK'
<1> USE PidAssumption, ClientAssumption DEF DaemonTypeOK, Step, fileVars, commandVars, Worker, Others
<1>1. CASE GuardOpens(p)
  BY <1>1 DEF GuardOpens, Truncate
<1>2. CASE GuardWrites(p)
  BY <1>2 DEF GuardWrites, Write
<1>3. CASE Serves(p)
  BY <1>3 DEF Serves
<1>4. CASE GuardDrops(p)
  BY <1>4 DEF GuardDrops, Remove
<1>5. CASE ServeFails(p)
  BY <1>5 DEF ServeFails, Remove
<1>6. CASE Exits(p)
  BY <1>6 DEF Exits
<1>7. CASE Crashes(p)
  BY <1>7 DEF Crashes
<1>8. CASE StrangerStarts(p) \/ StrangerExits(p)
  BY <1>8 DEF StrangerStarts, StrangerExits, Others
<1> QED
  BY <1>1, <1>2, <1>3, <1>4, <1>5, <1>6, <1>7, <1>8

-----------------------------------------------------------------------------
(* With one terminal the pid file keeps track of the worker.               *)

(* A step of the only terminal. *)
LEMMA CommandTracks ==
  ASSUME DaemonTypeOK, Tracked, NEW c, Client = {c}, ~unrecorded',
         \/ \E command \in Commands : Call(c, command)
         \/ \E p \in Pid : Spawn(c, p)
         \/ Exists(c) \/ Read(c) \/ Match(c) \/ MatchFails(c) \/ RemoveStale(c)
         \/ SpawnFails(c) \/ OpenFile(c) \/ WriteFile(c) \/ FileFails(c) \/ Kill(c)
         \/ Interrupted(c)
  PROVE  Tracked'
<1> USE PidAssumption, ClientAssumption DEF DaemonTypeOK, Tracked, Workers, Worker, Goto, Say, fileVars, procVars
<1>1. CASE \E command \in Commands : Call(c, command)
  BY <1>1 DEF Call
<1>2. CASE \E p \in Pid : Spawn(c, p)
  BY <1>2 DEF Spawn
<1>3. CASE Exists(c)
  BY <1>3 DEF Exists
<1>4. CASE Read(c)
  BY <1>4 DEF Read
<1>5. CASE Match(c)
  BY <1>5 DEF Match, DaemonProcessMatches
<1>6. CASE MatchFails(c)
  BY <1>6 DEF MatchFails
<1>7. CASE RemoveStale(c)
  BY <1>7 DEF RemoveStale, Remove
<1>8. CASE SpawnFails(c)
  BY <1>8 DEF SpawnFails
<1>9. CASE OpenFile(c)
  BY <1>9 DEF OpenFile, Truncate
<1>10. CASE WriteFile(c)
  BY <1>10 DEF WriteFile, Write
<1>11. CASE FileFails(c)
  BY <1>11 DEF FileFails, LeaveWorker
<1>12. CASE Kill(c)
  <2>1. pid[c] \in Pid
    BY <1>12 DEF Kill
  <2> QED
    BY <1>12, <2>1 DEF Kill, Signal
<1>13. CASE Interrupted(c)
  <2>1. pc[c] # "idle" /\ pc' = [pc EXCEPT ![c] = "idle"]
    BY <1>13 DEF Interrupted
  <2>2. UNCHANGED <<pid_file, proc>> /\ writers' = writers \ {c} /\ Workers' = Workers
    BY <1>13 DEF Interrupted, LeaveWorker
  <2>3. pc[c] \in {"open", "write"} => pid_file = pid[c]
    BY <1>13 DEF Interrupted, LeaveWorker
  <2>4. ASSUME NEW p \in Workers PROVE p \notin Client /\ (pid_file = p \/ (pid_file = Empty /\ p \in writers))
    BY <2>1, <2>3, <2>4
  <2> QED
    BY <2>1, <2>2, <2>4
<1> QED
  BY <1>1, <1>2, <1>3, <1>4, <1>5, <1>6, <1>7, <1>8, <1>9, <1>10, <1>11, <1>12, <1>13

(* A step of another process. *)
LEMMA ProcessTracks ==
  ASSUME DaemonTypeOK, Tracked, NEW c, Client = {c}, NEW p \in Pid,
         \/ GuardOpens(p) \/ GuardWrites(p) \/ Serves(p) \/ GuardDrops(p)
         \/ ServeFails(p) \/ Exits(p) \/ Crashes(p)
         \/ StrangerStarts(p) \/ StrangerExits(p)
  PROVE  Tracked'
<1> USE PidAssumption, ClientAssumption
    DEF DaemonTypeOK, Tracked, Workers, Worker, Step, fileVars, commandVars
<1>1. CASE GuardOpens(p)
  BY <1>1 DEF GuardOpens, Truncate
<1>2. CASE GuardWrites(p)
  BY <1>2 DEF GuardWrites, Write
<1>3. CASE Serves(p)
  BY <1>3 DEF Serves
<1>4. CASE GuardDrops(p)
  BY <1>4 DEF GuardDrops, Remove
<1>5. CASE ServeFails(p)
  BY <1>5 DEF ServeFails, Remove
<1>6. CASE Exits(p)
  BY <1>6 DEF Exits
<1>7. CASE Crashes(p)
  BY <1>7 DEF Crashes
<1>8. CASE StrangerStarts(p) \/ StrangerExits(p)
  BY <1>8 DEF StrangerStarts, StrangerExits, Others
<1> QED
  BY <1>1, <1>2, <1>3, <1>4, <1>5, <1>6, <1>7, <1>8

(* The inductive invariant. *)
THEOREM DaemonInvariance ==
  ASSUME NEW CONSTANT c, Client = {c}
  PROVE  DaemonSpec => []DaemonInv
<1>1. Init => DaemonInv
  <2> SUFFICES ASSUME Init PROVE DaemonInv
    OBVIOUS
  <2>1. DaemonTypeOK
    BY DEF Init, DaemonTypeOK, Commands, Others
  <2>2. Workers = {}
    BY DEF Init, Workers, Worker
  <2> QED
    BY <2>1, <2>2 DEF DaemonInv, Tracked
<1>2. DaemonInv /\ [Next]_vars => DaemonInv'
  <2> SUFFICES ASSUME DaemonInv, [Next]_vars PROVE DaemonInv'
    OBVIOUS
  <2>1. unrecorded => unrecorded'
    BY DEF DaemonInv, Next, Call, Spawn, Exists, Read, Match, MatchFails, RemoveStale, SpawnFails, OpenFile,
       WriteFile, FileFails, Interrupted, LeaveWorker, Kill, GuardOpens, GuardWrites, Serves, GuardDrops, ServeFails, Exits, Crashes,
       StrangerStarts, StrangerExits, Step, vars
  <2>2. CASE UNCHANGED vars
    BY <2>2 DEF DaemonInv, DaemonTypeOK, Tracked, Workers, vars, fileVars, procVars, commandVars
  <2>3. CASE Next
    <3>1. DaemonTypeOK'
      BY <2>3, CommandTypes, ProcessTypes DEF DaemonInv, Next
    <3>2. ~unrecorded' => Tracked'
      BY <2>1, <2>3, CommandTracks, ProcessTracks DEF DaemonInv, Next
    <3> QED
      BY <3>1, <3>2 DEF DaemonInv
  <2> QED
    BY <2>2, <2>3
<1> QED
  BY <1>1, <1>2, PTL DEF DaemonSpec

(* There is never a second worker. *)
THEOREM NoSecondWorker ==
  ASSUME NEW CONSTANT c, Client = {c}
  PROVE  DaemonSpec => []OneDaemon
<1>1. DaemonInv => OneDaemon
  <2> SUFFICES ASSUME DaemonInv, ~unrecorded PROVE Cardinality(Workers) <= 1
    BY DEF OneDaemon
  <2>1. CASE Workers = {}
    BY <2>1, FS_EmptySet
  <2>2. CASE Workers # {}
    <3>1. PICK p \in Workers : TRUE
      BY <2>2
    <3>2. Workers = {p}
      BY <3>1 DEF DaemonInv, Tracked
    <3> QED
      BY <3>2, FS_Singleton
  <2> QED
    BY <2>1, <2>2
<1> QED
  BY <1>1, DaemonInvariance, PTL

(* And the one there is can be told to stop. *)
THEOREM AlwaysReachable ==
  ASSUME NEW CONSTANT c, Client = {c}
  PROVE  DaemonSpec => []Reachable
<1>1. DaemonInv => Reachable
  BY DEF DaemonInv, DaemonTypeOK, Tracked, Workers, Worker, Reachable
<1> QED
  BY <1>1, DaemonInvariance, PTL

(* No command denies a worker that is there. *)
THEOREM TellsTheTruth ==
  ASSUME NEW CONSTANT c, Client = {c}
  PROVE  DaemonSpec => NotRunningIsTrue
<1>1. DaemonInv /\ [Next]_vars => [ToldTheTruth]_vars
  <2> SUFFICES ASSUME DaemonInv, Next, ~unrecorded, answer'[c] # answer[c],
                      answer'[c] \in {"not_running", "stale"}
               PROVE  Workers = {}
    BY DEF ToldTheTruth
  <2> USE DEF DaemonInv, DaemonTypeOK, Tracked, Workers, Worker, Say
  <2>1. CASE Exists(c)
    BY <2>1, PidAssumption DEF Exists
  <2>2. CASE Match(c)
    BY <2>2 DEF Match, DaemonProcessMatches
  <2>3. CASE RemoveStale(c)
    BY <2>3 DEF RemoveStale
  <2>4. ASSUME \/ \E command \in Commands : Call(c, command)
               \/ \E p \in Pid : Spawn(c, p)
               \/ Read(c) \/ MatchFails(c) \/ SpawnFails(c) \/ OpenFile(c) \/ WriteFile(c) \/ FileFails(c)
               \/ Kill(c) \/ Interrupted(c)
        PROVE  FALSE
    BY <2>4 DEF Call, Spawn, Read, MatchFails, SpawnFails, OpenFile, WriteFile, FileFails, Kill, Interrupted
  <2>5. ASSUME NEW p \in Pid,
               \/ GuardOpens(p) \/ GuardWrites(p) \/ Serves(p) \/ GuardDrops(p)
               \/ ServeFails(p) \/ Exits(p) \/ Crashes(p)
               \/ StrangerStarts(p) \/ StrangerExits(p)
        PROVE  FALSE
    BY <2>5 DEF GuardOpens, GuardWrites, Serves, GuardDrops, ServeFails, Exits, Crashes, StrangerStarts,
       StrangerExits, Step, commandVars
  <2> QED
    BY <2>1, <2>2, <2>3, <2>4, <2>5 DEF Next
<1> QED
  BY <1>1, DaemonInvariance, PTL DEF DaemonSpec, NotRunningIsTrue
=============================================================================
