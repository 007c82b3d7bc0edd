---------------------------- MODULE NodeManager ----------------------------
(***************************************************************************)
(* EZ_App/node_manager.py: starting, stopping and querying the daemons of  *)
(* one data directory through pid files and state files, and the daemons   *)
(* as far as the manager sees them: the run_daemon loops of their scripts. *)
(* Managers are the long-lived service and short-lived CLI processes; they *)
(* act one at a time here.  Daemons write and die at any moment.           *)
(***************************************************************************)
EXTENDS Naturals, Sequences

CONSTANTS
    None,
    MaxPids         \* bound on the processes ever started

V2Modes == {"v2-localnet", "v2-tcp-consensus", "v2-account"}
Managers == {"service", "cli"}

VARIABLES
    procs,          \* the processes started, by pid: mode, parent and state
    v2pid, v2state, \* v2_localnet.pid and v2_localnet_state.json
    pidFile,        \* node.pid
    external,       \* external_node_state.json exists
    waiting,        \* the manager that waits for its daemon to come up, or None
    reply           \* what the last call returned

vars == <<procs, v2pid, v2state, pidFile, external, waiting, reply>>
files == <<v2pid, v2state, pidFile, external>>

Pids == DOMAIN procs
Alive(p) == procs[p].st \in {"starting", "up"}

Init ==
    /\ procs = <<>>
    /\ v2pid = None /\ v2state = None /\ pidFile = None /\ external = FALSE
    /\ waiting = None /\ reply = [status |-> "none", mode |-> None]

Answer(status, mode) == reply' = [status |-> status, mode |-> mode]

\* _is_running: the parent's waitpid finds a dead child, but os.kill(pid, 0) of
\* another manager succeeds on a zombie.
IsRunning(m, p) ==
    p # None /\ (Alive(p) \/ (procs[p].st = "zombie" /\ procs[p].parent # m))

\* A dead child that m asked about is reaped.
Reaped(m, p) ==
    IF p # None /\ procs[p].st = "zombie" /\ procs[p].parent = m
    THEN [procs EXCEPT ![p].st = "gone"] ELSE procs

Spawn(m, mode, ps) ==
    /\ Len(ps) < MaxPids
    /\ procs' = Append(ps, [mode |-> mode, parent |-> m, st |-> "starting"])

\* The mode that the state file names.
StateMode(default) == IF v2state = None THEN default ELSE v2state.mode

\* start, external mode: only the state file is written.
StartExternal(m) ==
    /\ waiting = None
    /\ external' = TRUE
    /\ Answer("started_external", "official-testnet")
    /\ UNCHANGED <<procs, v2pid, v2state, pidFile, waiting>>

\* Mutant: start looks only at daemons of its own mode.
StartOwnMode(m, mode) ==
    /\ waiting = None
    /\ IF IsRunning(m, v2pid) /\ StateMode(mode) = mode
       THEN /\ Answer("already_running", IF mode = "v2-localnet" THEN mode ELSE StateMode(mode))
            /\ UNCHANGED <<procs, v2pid, v2state, waiting>>
       ELSE /\ Spawn(m, mode, Reaped(m, v2pid))
            /\ v2pid' = Len(procs) + 1
            /\ v2state' = None
            /\ waiting' = m
            /\ UNCHANGED reply
    /\ UNCHANGED <<pidFile, external>>

\* start, the three V2 modes, which share one pid file: a daemon that runs is
\* left alone, and the files of one that does not are removed.
StartV2(m, mode) ==
    /\ waiting = None
    /\ IF IsRunning(m, v2pid)
       THEN /\ Answer("already_running", IF mode = "v2-localnet" THEN mode ELSE StateMode(mode))
            /\ UNCHANGED <<procs, v2pid, v2state, waiting>>
       ELSE /\ Spawn(m, mode, Reaped(m, v2pid))
            /\ v2pid' = Len(procs) + 1
            /\ v2state' = None
            /\ waiting' = m
            /\ UNCHANGED reply
    /\ UNCHANGED <<pidFile, external>>

\* A v2-account daemon needs the endpoint of a consensus host.
RefuseAccount(m) ==
    /\ waiting = None /\ ~IsRunning(m, v2pid)
    /\ procs' = Reaped(m, v2pid)
    /\ Answer("v2_account_requires_consensus_endpoint", "v2-account")
    /\ UNCHANGED <<files, waiting>>

\* The loop of start: the daemon wrote its state, or five seconds passed.  A
\* CLI then ends, and init reaps its child.
Started(m) ==
    /\ waiting = m
    /\ v2state # None \/ Alive(v2pid)
    /\ waiting' = None
    /\ procs' = IF m = "service" THEN procs
                ELSE [procs EXCEPT ![v2pid].st = IF @ = "zombie" THEN "gone" ELSE @]
    /\ Answer("started", procs[v2pid].mode)
    /\ UNCHANGED files

\* The loop of start: the daemon ended before it wrote its state.
FailedToStart(m) ==
    /\ waiting = m
    /\ v2state = None /\ ~Alive(v2pid)
    /\ waiting' = None
    /\ procs' = Reaped(m, v2pid)
    /\ v2pid' = None /\ v2state' = None
    /\ Answer("failed_to_start", procs[v2pid].mode)
    /\ UNCHANGED <<pidFile, external>>

\* start, local mode.
StartLocal(m) ==
    /\ waiting = None
    /\ IF IsRunning(m, pidFile)
       THEN Answer("already_running", "local") /\ UNCHANGED <<procs, pidFile>>
       ELSE /\ Spawn(m, "local", Reaped(m, pidFile))
            /\ pidFile' = Len(procs) + 1
            /\ Answer("started", "local")
    /\ UNCHANGED <<v2pid, v2state, external, waiting>>

\* _stop_pid: a tracked child is terminated and waited for; another process
\* gets SIGTERM and, two seconds later, SIGKILL.  It is dead in the end, a
\* zombie if its parent is another manager that still runs.
Killed(m, p) ==
    [procs EXCEPT ![p].st = IF @ = "gone" \/ procs[p].parent = m THEN "gone"
                            ELSE IF procs[p].parent = "service" THEN "zombie" ELSE "gone"]

\* stop: the V2 daemon first, then an external network, then the local one.
StopV2(m) ==
    /\ waiting = None /\ v2pid # None
    /\ procs' = Killed(m, v2pid)
    /\ v2pid' = None /\ v2state' = None
    /\ Answer("stopped", StateMode("v2-localnet"))
    /\ UNCHANGED <<pidFile, external, waiting>>

StopExternal(m) ==
    /\ waiting = None /\ v2pid = None /\ external
    /\ external' = FALSE
    /\ Answer("stopped", "official-testnet")
    /\ UNCHANGED <<procs, v2pid, v2state, pidFile, waiting>>

StopLocal(m) ==
    /\ waiting = None /\ v2pid = None /\ ~external
    /\ IF IsRunning(m, pidFile)
       THEN procs' = Killed(m, pidFile) /\ Answer("stopped", "local")
       ELSE procs' = Reaped(m, pidFile) /\ Answer("not_running", None)
    /\ pidFile' = None
    /\ UNCHANGED <<v2pid, v2state, external, waiting>>

\* status: the files of a V2 daemon that is gone are removed.
StatusV2(m) ==
    /\ waiting = None /\ v2pid # None
    /\ procs' = Reaped(m, v2pid)
    /\ IF IsRunning(m, v2pid)
       THEN /\ Answer("running", StateMode("v2-localnet"))
            /\ UNCHANGED <<v2pid, v2state>>
       ELSE /\ Answer("stopped", StateMode("v2-localnet"))
            /\ v2pid' = None /\ v2state' = None
    /\ UNCHANGED <<pidFile, external, waiting>>

StatusOther(m) ==
    /\ waiting = None /\ v2pid = None
    /\ IF external
       THEN Answer("running", "official-testnet") /\ UNCHANGED procs
       ELSE /\ procs' = Reaped(m, pidFile)
            /\ Answer(IF IsRunning(m, pidFile) THEN "running" ELSE "stopped", "local")
    /\ UNCHANGED <<files, waiting>>

\* account_status, asked of the status that was just returned.
AccountStatus ==
    /\ waiting = None /\ reply.status \in {"running", "stopped"}
    /\ ~(reply.status = "running" /\ reply.mode = "v2-account")
    /\ Answer(IF reply.status = "stopped" THEN "not_running" ELSE "unavailable", "v2-account")
    /\ UNCHANGED <<procs, files, waiting>>

\* run_daemon of a V2 mode writes its state at every beat of its loop.
Beat(p) ==
    /\ procs[p].mode \in V2Modes /\ Alive(p)
    /\ procs' = [procs EXCEPT ![p].st = "up"]
    /\ v2state' = [pid |-> p, mode |-> procs[p].mode]
    /\ UNCHANGED <<v2pid, pidFile, external, waiting, reply>>

\* A process ends by itself and waits for its parent, if that still runs.
Die(p) ==
    /\ Alive(p)
    /\ procs' = [procs EXCEPT ![p].st =
                    IF procs[p].parent = "service" \/ (waiting = "cli" /\ v2pid = p)
                    THEN "zombie" ELSE "gone"]
    /\ UNCHANGED <<files, waiting, reply>>

\* The service restarts: its dead children are reaped, the live ones orphaned.
NewService ==
    /\ waiting = None
    /\ procs' = [p \in Pids |->
                    [procs[p] EXCEPT !.parent = "cli",
                                     !.st = IF @ = "zombie" THEN "gone" ELSE @]]
    /\ UNCHANGED <<files, waiting, reply>>

Next ==
    \/ \E m \in Managers :
          \/ StartExternal(m) \/ \E mode \in V2Modes : StartV2(m, mode)
          \/ RefuseAccount(m) \/ Started(m) \/ FailedToStart(m) \/ StartLocal(m)
          \/ StopV2(m) \/ StopExternal(m) \/ StopLocal(m)
          \/ StatusV2(m) \/ StatusOther(m)
    \/ AccountStatus \/ NewService
    \/ \E p \in Pids : Beat(p) \/ Die(p)

Spec == Init /\ [][Next]_vars

-----------------------------------------------------------------------------
\* Every daemon that runs can be found and stopped: its pid is in the file of
\* its kind, so no two V2 daemons ever share the directory's databases, and the
\* state file describes the daemon of the pid file.
DaemonsAreKnown ==
    /\ \A p \in Pids : Alive(p) =>
          IF procs[p].mode = "local" THEN pidFile = p ELSE v2pid = p
    /\ v2state # None => v2pid = v2state.pid
=============================================================================
