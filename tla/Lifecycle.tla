------------------------------- MODULE Lifecycle -------------------------------
(***************************************************************************)
(* Managers from main() to their end (main.c): the lock file that is to    *)
(* keep them single, start-up, the main loop with its stop_all, signals,   *)
(* exit handlers and the clean-up both of them run, terminate().           *)
(*                                                                         *)
(* The lock file, the port file and the device (the buffer and the kernel  *)
(* modules) are shared by all managers of the machine.  A signal handler   *)
(* runs in whichever thread the signal hits and interrupts what that       *)
(* thread is doing, mutexes held included; the other threads go on.  The   *)
(* libc locks (malloc, stdio) a handler may meet are left out.             *)
(***************************************************************************)
EXTENDS Integers, FiniteSets

CONSTANTS
  Managers,  \* manager processes, each started at most once
  Hosted,    \* the managers that get a host, and with it sessions
  Signals,   \* signals with terminate as their handler: SIGTERM, SIGINT
  None

ASSUME HostedAssumption == Hosted \subseteq Managers

ASSUME NoneAssumption ==
  None \notin Managers \cup {"stop_all", "terminate", "exit", "main", "sampling",
                             "replay", "other"}

VARIABLES
  pc,        \* where main() is
  fd,        \* lockfd: the lock file opened, named by the manager that made it
  locked,    \* flock held
  mutex,     \* stop_all_mutex: None, "stop_all" or "terminate"
  quit,      \* the main loop is over, stop_all is called by main()
  running,   \* prof_session.running_status
  sampling,  \* the sampling thread: "none", "free", "held" (has ts_mutex)
  replay,    \* the replay thread: "none", "play", or "stuck": it waits for
             \* replay_thread_mutex and stop_replay, with that mutex, for it
  script,    \* start.sh, a child process, is at work
  term,      \* how far terminate() is
  ctx,       \* what runs it: "exit", or the thread whose handler it is: "main",
             \* "sampling", "replay", "other" (a receiving one, the transfer)
  ignored,   \* the signals set to SIG_IGN
  lockfile,  \* None or the manager that created it
  portfile,  \* the port file is there
  device,    \* None or the manager that initialised it last
  raced,     \* history: a manager passed through a gap of the lock
  cut        \* history: a manager ended without its clean-up, or cleaned up
             \* while its start.sh was at work

threads == <<sampling, replay>>
mvars == <<fd, locked, mutex, quit, running, threads, script, term, ctx, ignored>>
gvars == <<lockfile, portfile, device>>
vars == <<pc, mvars, gvars, raced, cut>>

Init ==
  /\ pc = [m \in Managers |-> "new"]
  /\ fd = [m \in Managers |-> None] /\ locked = [m \in Managers |-> FALSE]
  /\ mutex = [m \in Managers |-> None] /\ quit = [m \in Managers |-> FALSE]
  /\ running = [m \in Managers |-> FALSE]
  /\ sampling = [m \in Managers |-> "none"]
  /\ replay = [m \in Managers |-> "none"]
  /\ script = [m \in Managers |-> FALSE]
  /\ term = [m \in Managers |-> "none"] /\ ctx = [m \in Managers |-> None]
  /\ ignored = [m \in Managers |-> {}]
  /\ lockfile = None /\ portfile = FALSE /\ device = None
  /\ raced = FALSE /\ cut = FALSE

Alive(m) == pc[m] \notin {"new", "gone"}

\* Signal handlers and exit handler are installed.
Handled(m) == pc[m] \in {"port", "init", "script", "loop", "busy", "reap", "lock",
                         "stop", "exit"}

\* ensure_singleton succeeded.
Up(m) == Handled(m) \/ pc[m] \in {"log", "abort"}

\* A thread executes its own code: no terminate() runs in it.
Free(m, c) == ~(term[m] # "none" /\ ctx[m] = c)

At(m, p) == pc[m] = p /\ Free(m, "main") /\ Free(m, "exit")

Go(m, p) == pc' = [pc EXCEPT ![m] = p]

-----------------------------------------------------------------------------
\* ensure_singleton and its failure: main returns before any exit handler.

RefusedCleaning(m) ==  \* mutant: the exit handler is installed first
  /\ Go(m, "gone")
  /\ lockfile' = None /\ portfile' = FALSE /\ device' = None

Refused(m) == Go(m, "gone") /\ UNCHANGED gvars

\* access(lockfile, F_OK)
Access(m) ==
  /\ pc[m] = "new"
  /\ IF lockfile # None THEN Refused(m) ELSE Go(m, "open") /\ UNCHANGED gvars
  /\ UNCHANGED <<mvars, raced, cut>>

(***************************************************************************)
(* open without O_EXCL.  The gaps: the file was not there at access() and  *)
(* is now; or an old manager has removed it and is still at its clean-up.  *)
(***************************************************************************)
Open(m) ==
  /\ pc[m] = "open"
  /\ \/ /\ Go(m, "flock")
        /\ lockfile' = (IF lockfile = None THEN m ELSE lockfile)
        /\ fd' = [fd EXCEPT ![m] = lockfile']
        /\ raced' = (raced \/ lockfile # None
                          \/ \E k \in Managers : term[k] = "rest")
        /\ UNCHANGED <<portfile, device>>
     \/ Refused(m) /\ UNCHANGED <<fd, raced>>
  /\ UNCHANGED <<locked, mutex, quit, running, threads, script, term, ctx, ignored,
                 cut>>

\* flock(LOCK_EX | LOCK_NB)
Flock(m) ==
  /\ pc[m] = "flock" /\ Go(m, "close")
  /\ locked' = [locked EXCEPT ![m] =
                  ~\E k \in Managers \ {m} : locked[k] /\ fd[k] = fd[m]]
  /\ UNCHANGED <<fd, mutex, quit, running, threads, script, term, ctx, ignored,
                 gvars, raced, cut>>

\* close releases the lock.
Close(m) ==
  /\ pc[m] = "close"
  /\ IF locked[m] THEN Go(m, "log") /\ UNCHANGED gvars ELSE Refused(m)
  /\ locked' = [locked EXCEPT ![m] = FALSE]
  /\ fd' = [fd EXCEPT ![m] = None]
  /\ UNCHANGED <<mutex, quit, running, threads, script, term, ctx, ignored, raced,
                 cut>>

-----------------------------------------------------------------------------
\* main() up to the main loop.

LogFailsSilently(m) == Go(m, "gone")  \* mutant: exit without terminate0

\* initialize_log fails: terminate0, then exit.
LogFails(m) == Go(m, "abort")

\* initialize_log, atexit, setup_signals and daemon().
StartUp(m) ==
  /\ pc[m] = "log"
  /\ Go(m, "port") \/ LogFails(m)
  /\ UNCHANGED <<mvars, gvars, raced, cut>>

\* fopen(PORTFILE, "w")
OpenPortfile(m) ==
  /\ At(m, "port")
  /\ \/ Go(m, "init") /\ portfile' = TRUE
     \/ Go(m, "exit") /\ UNCHANGED portfile
  /\ UNCHANGED <<mvars, lockfile, device, raced, cut>>

\* init_buf, first: system("./start.sh").
insert_buf_modules(m) ==
  /\ At(m, "init") /\ Go(m, "script")
  /\ script' = [script EXCEPT ![m] = TRUE]
  /\ UNCHANGED <<fd, locked, mutex, quit, running, threads, term, ctx, ignored,
                 gvars, raced, cut>>

(***************************************************************************)
(* start.sh is a process of its own: it ends whatever became of its        *)
(* manager.  It loads the modules unless they are there; when it fails it  *)
(* may have loaded some, and main() gives up.                              *)
(***************************************************************************)
ScriptEnds(m) ==
  /\ script[m] /\ script' = [script EXCEPT ![m] = FALSE]
  /\ LET loaded == IF device = None THEN m ELSE device
     IN  \/ device' = loaded /\ UNCHANGED pc
         \/ /\ device' \in {device, loaded}
            /\ Go(m, IF pc[m] = "script" THEN "exit" ELSE pc[m])
  /\ UNCHANGED <<fd, locked, mutex, quit, running, threads, term, ctx, ignored,
                 lockfile, portfile, raced, cut>>

(***************************************************************************)
(* The rest of initializeManager, once system() has returned: the buffer   *)
(* is initialised; sockets, system information and the port may fail       *)
(* after it.                                                               *)
(***************************************************************************)
initializeManager(m) ==
  /\ At(m, "script") /\ ~script[m]
  /\ \/ Go(m, "loop") /\ device' = m
     \/ Go(m, "exit") /\ device' \in {device, m}
  /\ UNCHANGED <<mvars, lockfile, portfile, raced, cut>>

-----------------------------------------------------------------------------
\* The main loop, as far as the end of the process depends on it.

unlink_portfile_and_lock(m) ==  \* mutant: _unlink_files in its place
  portfile' = FALSE /\ lockfile' = None

\* The host's control connection is accepted.
unlink_portfile(m) == portfile' = FALSE /\ UNCHANGED lockfile

HostConnects(m) ==
  /\ m \in Hosted /\ At(m, "loop") /\ unlink_portfile(m)
  /\ UNCHANGED <<pc, mvars, device, raced, cut>>

\* START, with its sampling thread.
Start(m) ==
  /\ m \in Hosted /\ At(m, "loop") /\ ~running[m]
  /\ running' = [running EXCEPT ![m] = TRUE]
  /\ sampling' = [sampling EXCEPT ![m] = "free"]
  /\ UNCHANGED <<pc, fd, locked, mutex, quit, replay, script, term, ctx, ignored,
                 gvars, raced, cut>>

\* A handler of the loop holds ts_mutex for a while (target_malloc, target_free);
\* outside a session nobody else takes it.
Busy(m) ==
  /\ running[m] /\ At(m, "loop") /\ sampling[m] # "held" /\ term[m] # "join"
  /\ Go(m, "busy")
  /\ UNCHANGED <<mvars, gvars, raced, cut>>

(***************************************************************************)
(* Or another mutex stop_all_no_lock takes: that of a target's thread,     *)
(* which it joins (EVENT_STOP), or replay_thread_mutex, in start_replay    *)
(* (EVENT_PID, running or not).                                            *)
(***************************************************************************)
Reap(m) ==
  /\ m \in Hosted /\ At(m, "loop") /\ Go(m, "reap")
  /\ UNCHANGED <<mvars, gvars, raced, cut>>

Unlock(m) ==
  /\ At(m, "busy") \/ At(m, "reap")
  /\ Go(m, "loop")
  /\ \/ UNCHANGED replay
     \/ /\ pc[m] = "reap" /\ replay[m] = "none"
        /\ replay' = [replay EXCEPT ![m] = "play"]
  /\ UNCHANGED <<fd, locked, mutex, quit, running, sampling, script, term, ctx,
                 ignored, gvars, raced, cut>>

\* target_get_total_alloc of the sampling thread, from lock to unlock.
SamplingLocks(m) ==
  /\ sampling[m] = "free" /\ Free(m, "sampling")
  /\ pc[m] # "busy" /\ term[m] # "join"
  /\ sampling' = [sampling EXCEPT ![m] = "held"]
  /\ UNCHANGED <<pc, fd, locked, mutex, quit, running, replay, script, term, ctx,
                 ignored, gvars, raced, cut>>

SamplingUnlocks(m) ==
  /\ sampling[m] = "held" /\ Free(m, "sampling")
  /\ sampling' = [sampling EXCEPT ![m] = "free"]
  /\ UNCHANGED <<pc, fd, locked, mutex, quit, running, replay, script, term, ctx,
                 ignored, gvars, raced, cut>>

\* The replay is over: exit_replay_thread.
ReplayEnds(m) ==
  /\ replay[m] = "play" /\ Free(m, "replay")
  /\ replay' = [replay EXCEPT ![m] = "none"]
  /\ UNCHANGED <<pc, fd, locked, mutex, quit, running, sampling, script, term, ctx,
                 ignored, gvars, raced, cut>>

\* stop_all: for a STOP, or by main() after the loop is left.
CallStopAll(m) ==
  /\ At(m, "loop") /\ Go(m, "lock")
  /\ \/ m \in Hosted /\ UNCHANGED quit
     \/ quit' = [quit EXCEPT ![m] = TRUE]
  /\ UNCHANGED <<fd, locked, mutex, running, threads, script, term, ctx, ignored,
                 gvars, raced, cut>>

LockStopAll(m) ==
  /\ At(m, "lock") /\ mutex[m] = None
  /\ Go(m, "stop") /\ mutex' = [mutex EXCEPT ![m] = "stop_all"]
  /\ UNCHANGED <<fd, locked, quit, running, threads, script, term, ctx, ignored,
                 gvars, raced, cut>>

(***************************************************************************)
(* stop_all_no_lock with the mutexes it needs at hand: terminate_all,      *)
(* stop_profiling, stop_replay, which cancels and joins; the device may    *)
(* refuse the NMSG_STOP, and the session runs on without its threads.      *)
(* Receiving, sampling and transfer threads end when they are told to.     *)
(***************************************************************************)
stop_all_no_lock(m) ==
  \/ ~running[m] /\ UNCHANGED <<running, threads>>
  \/ /\ running[m] /\ replay[m] # "stuck"
     /\ running' \in {running, [running EXCEPT ![m] = FALSE]}
     /\ sampling' = [sampling EXCEPT ![m] = "none"]
     /\ replay' = [replay EXCEPT ![m] = "none"]

\* The same, but the replay thread is past its last cancellation point and
\* stop_replay has the mutex before it.
StopReplayHangs(m) ==
  /\ running[m] /\ replay[m] = "play"
  /\ replay' = [replay EXCEPT ![m] = "stuck"]
  /\ UNCHANGED <<pc, fd, locked, mutex, quit, running, sampling, script, term, ctx,
                 ignored, gvars, raced, cut>>

StopAllKeepsLock(m) ==  \* mutant: a return before the unlock
  /\ At(m, "stop") /\ sampling[m] # "held" /\ stop_all_no_lock(m)
  /\ Go(m, IF quit[m] THEN "exit" ELSE "loop")
  /\ mutex' \in {mutex, [mutex EXCEPT ![m] = None]}
  /\ UNCHANGED <<fd, locked, quit, script, term, ctx, ignored, gvars, raced, cut>>

\* stop_all_no_lock and the unlock; main() goes on to finalizeManager and exit.
StopAll(m) ==
  /\ At(m, "stop") /\ sampling[m] # "held" /\ stop_all_no_lock(m)
  /\ Go(m, IF quit[m] THEN "exit" ELSE "loop")
  /\ mutex' = [mutex EXCEPT ![m] = None]
  /\ UNCHANGED <<fd, locked, quit, script, term, ctx, ignored, gvars, raced, cut>>

StopAllHangs(m) == At(m, "stop") /\ StopReplayHangs(m)

\* get_ack_msg_id: exit(EXIT_FAILURE).
UnknownMessage(m) ==
  /\ m \in Hosted /\ At(m, "loop") /\ Go(m, "exit")
  /\ UNCHANGED <<mvars, gvars, raced, cut>>

-----------------------------------------------------------------------------
\* terminate(), from exit or from a signal handler.

Enter(m, c) ==
  /\ mutex[m] = None
  /\ mutex' = [mutex EXCEPT ![m] = "terminate"]
  /\ term' = [term EXCEPT ![m] = "stop"] /\ ctx' = [ctx EXCEPT ![m] = c]

\* What a process leaves of its own when it is gone.
Gone(m) ==
  /\ Go(m, "gone")
  /\ fd' = [fd EXCEPT ![m] = None] /\ locked' = [locked EXCEPT ![m] = FALSE]
  /\ mutex' = [mutex EXCEPT ![m] = None] /\ quit' = [quit EXCEPT ![m] = FALSE]
  /\ running' = [running EXCEPT ![m] = FALSE]
  /\ sampling' = [sampling EXCEPT ![m] = "none"]
  /\ replay' = [replay EXCEPT ![m] = "none"] /\ UNCHANGED script
  /\ term' = [term EXCEPT ![m] = "none"] /\ ctx' = [ctx EXCEPT ![m] = None]
  /\ ignored' = [ignored EXCEPT ![m] = {}]

\* At exit: "Stop in progress" ends the process under the other's feet.
Exit(m) ==
  /\ At(m, "exit") \/ At(m, "abort")
  /\ \/ /\ Enter(m, "exit")
        /\ UNCHANGED <<pc, fd, locked, quit, running, threads, script, ignored, cut>>
     \/ mutex[m] # None /\ Gone(m) /\ cut' = TRUE
  /\ UNCHANGED <<gvars, raced>>

(***************************************************************************)
(* The threads that can take a signal.  Targets connect, and a transfer    *)
(* may be left over, outside a session as well.                            *)
(***************************************************************************)
Threads(m) ==
  {"main"}
    \cup (IF pc[m] \in {"loop", "busy", "reap", "lock", "stop"} \/ quit[m] \/ running[m]
            THEN {"other"} ELSE {})
    \cup (IF sampling[m] # "none" THEN {"sampling"} ELSE {})
    \cup (IF replay[m] = "play" THEN {"replay"} ELSE {})

\* During a stop_all, or another terminate, the signal is ignored for good.
Signal(m, sig) ==
  /\ Handled(m) /\ sig \notin ignored[m]
  /\ \/ /\ \E c \in Threads(m) : Enter(m, c)
        /\ UNCHANGED ignored
     \/ /\ mutex[m] # None
        /\ ignored' = [ignored EXCEPT ![m] = @ \cup {sig}]
        /\ UNCHANGED <<mutex, term, ctx>>
  /\ UNCHANGED <<pc, fd, locked, quit, running, threads, script, gvars, raced, cut>>

(***************************************************************************)
(* stop_all_no_lock, in a session: terminate_all takes ts_mutex.  It waits *)
(* for main or the sampling thread to leave it; a handler that interrupted *)
(* them there waits for itself.                                            *)
(***************************************************************************)
TermLocks(m) ==
  /\ term[m] = "stop" /\ running[m]
  /\ pc[m] # "busy" /\ sampling[m] # "held"
  /\ term' = [term EXCEPT ![m] = "join"]
  /\ UNCHANGED <<pc, fd, locked, mutex, quit, running, threads, script, ctx,
                 ignored, gvars, raced, cut>>

(***************************************************************************)
(* The joins.  A target's thread mutex and replay_thread_mutex may be held *)
(* by main.  A thread that joins itself gets EDEADLK and goes on, but the  *)
(* replay thread has cancelled itself before: it ends inside its handler.  *)
(***************************************************************************)
TermStops(m) ==
  /\ \/ term[m] = "stop" /\ ~running[m]
     \/ term[m] = "join" /\ pc[m] # "reap" /\ ctx[m] # "replay"
  /\ stop_all_no_lock(m)
  /\ term' = [term EXCEPT ![m] = "unlink"]
  /\ UNCHANGED <<pc, fd, locked, mutex, quit, script, ctx, ignored, gvars, raced,
                 cut>>

TermHangs(m) ==
  /\ term[m] = "join" /\ pc[m] # "reap" /\ ctx[m] # "replay"
  /\ StopReplayHangs(m)

\* _unlink_files, whoever created them.
TermUnlinks(m) ==
  /\ term[m] = "unlink" /\ term' = [term EXCEPT ![m] = "rest"]
  /\ lockfile' = None /\ portfile' = FALSE
  /\ UNCHANGED <<pc, fd, locked, mutex, quit, running, threads, script, ctx,
                 ignored, device, raced, cut>>


\* _close_server_socket, exit_buf, remove_buf_modules; then the exit goes on,
\* or the raised signal's default action ends the process.
TermRest(m) ==
  /\ term[m] = "rest"
  /\ Gone(m) /\ device' = None
  /\ cut' = (cut \/ script[m])
  /\ UNCHANGED <<lockfile, portfile, raced>>

\* SIGKILL at any time; SIGTERM or SIGINT before setup_signals.
Killed(m) ==
  /\ Alive(m) /\ Gone(m) /\ cut' = TRUE
  /\ UNCHANGED <<gvars, raced>>

-----------------------------------------------------------------------------
Main(m) ==
  \/ Access(m) \/ Open(m) \/ Flock(m) \/ Close(m)
  \/ StartUp(m) \/ OpenPortfile(m) \/ insert_buf_modules(m) \/ initializeManager(m)
  \/ HostConnects(m) \/ Start(m) \/ Busy(m) \/ Reap(m) \/ Unlock(m)
  \/ CallStopAll(m) \/ LockStopAll(m) \/ StopAll(m) \/ StopAllHangs(m)
  \/ UnknownMessage(m) \/ Exit(m)

Others(m) ==
  \/ ScriptEnds(m) \/ SamplingLocks(m) \/ SamplingUnlocks(m) \/ ReplayEnds(m)

Terminate(m) ==
  TermLocks(m) \/ TermStops(m) \/ TermHangs(m) \/ TermUnlinks(m) \/ TermRest(m)

Next ==
  \E m \in Managers :
    \/ Main(m) \/ Others(m) \/ Terminate(m)
    \/ \E sig \in Signals : Signal(m, sig)
    \/ Killed(m)

Spec == Init /\ [][Next]_vars

(***************************************************************************)
(* Threads are scheduled.  Main and the sampling thread leave their        *)
(* mutexes (main joins a receiving thread, which ends unless the handler   *)
(* runs in it), and a thread that waits for a mutex which is free again    *)
(* and again gets it in the end.                                           *)
(***************************************************************************)
FairSpec ==
  /\ Spec
  /\ \A m \in Hosted :
       /\ SF_vars(Terminate(m))
       /\ WF_vars(Unlock(m) /\ (pc[m] = "busy" \/ Free(m, "other")))
       /\ WF_vars(SamplingUnlocks(m))

-----------------------------------------------------------------------------
MainPCs == {"new", "open", "flock", "close", "log", "port", "init", "script",
            "loop", "busy", "reap", "lock", "stop", "exit", "abort", "gone"}

Contexts == {"exit", "main", "sampling", "replay", "other"}

\* Types, and who holds stop_all_mutex.
TypeOK ==
  /\ pc \in [Managers -> MainPCs]
  /\ fd \in [Managers -> Managers \cup {None}]
  /\ locked \in [Managers -> BOOLEAN] /\ quit \in [Managers -> BOOLEAN]
  /\ running \in [Managers -> BOOLEAN]
  /\ ignored \in [Managers -> SUBSET Signals]
  /\ sampling \in [Managers -> {"none", "free", "held"}]
  /\ replay \in [Managers -> {"none", "play", "stuck"}]
  /\ script \in [Managers -> BOOLEAN]
  /\ term \in [Managers -> {"none", "stop", "join", "unlink", "rest"}]
  /\ ctx \in [Managers -> Contexts \cup {None}]
  /\ mutex \in [Managers -> {None, "stop_all", "terminate"}]
  /\ {lockfile, device} \subseteq Managers \cup {None}
  /\ portfile \in BOOLEAN /\ raced \in BOOLEAN /\ cut \in BOOLEAN
  /\ \A m \in Managers :
       /\ mutex[m] = "stop_all" <=> pc[m] = "stop"
       /\ mutex[m] = "terminate" <=> term[m] # "none"
       /\ term[m] # "none" => Handled(m) \/ pc[m] = "abort"

(***************************************************************************)
(* Apart from two gaps - the file appears between access() and open(), or  *)
(* is made while an old manager is still at its clean-up - two managers    *)
(* are never up together, over any sequence of starts, refusals, exits and *)
(* signals (main.c 243-263).                                               *)
(***************************************************************************)
SingleUnlessRaced ==
  ~raced => \A m, k \in Managers : Up(m) /\ Up(k) => m = k

(***************************************************************************)
(* A manager in its main loop still has the buffer and the modules it      *)
(* loaded: no other manager's clean-up, and no start.sh of a manager that  *)
(* is gone, took them away, unless one of the two gaps was met (main.c     *)
(* 350-375).                                                               *)
(***************************************************************************)
DeviceIntact ==
  ~raced => \A m \in Managers :
              pc[m] \in {"loop", "busy", "reap", "lock", "stop"} => device = m

(***************************************************************************)
(* When no manager is left, neither lock file nor port file nor modules    *)
(* are, unless one was killed, ended while a signal handler cleaned up, or *)
(* cleaned up before its start.sh had ended: the next manager can start    *)
(* (main.c 345-383, 396-455, buffer.c 104).                                *)
(***************************************************************************)
NothingLeft ==
  ~cut /\ (\A m \in Managers : ~Alive(m))
    => lockfile = None /\ portfile = FALSE /\ device = None

(***************************************************************************)
(* A terminate() that can wait for ever: in main or the sampling thread    *)
(* for a mutex they hold; in the replay thread, which cancels itself; in a *)
(* receiving thread that main is joining, for that thread's mutex; for a   *)
(* replay thread that waits for stop_replay.                               *)
(***************************************************************************)
Stuck(m) ==
  /\ term[m] \in {"stop", "join"} /\ running[m]
  /\ \/ ctx[m] = "main" /\ pc[m] \in {"busy", "reap"}
     \/ ctx[m] = "sampling" /\ sampling[m] = "held"
     \/ ctx[m] = "replay"
     \/ ctx[m] = "other" /\ pc[m] = "reap"
     \/ replay[m] = "stuck"


=============================================================================
