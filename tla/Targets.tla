------------------------------- MODULE Targets -------------------------------
(***************************************************************************)
(* The target connections of swap_manager: the array of target slots       *)
(* (target.c), one receiving thread per connected target (threads.c,       *)
(* thread.c), the eventfd through which that thread reports to the main    *)
(* loop, and the main-loop handlers that connect, start, reap and          *)
(* terminate targets (daemon.c).                                           *)
(*                                                                         *)
(* Processes: the main loop (single threaded; it blocks while it joins a   *)
(* receiving thread), and one receiving thread per slot.  The application  *)
(* at the other end of the socket is the environment of RecvEnd, RecvPid   *)
(* and RecvOther.  Messages that change nothing kept here (probe data,     *)
(* MSG_ALLOC, MSG_MSG/ERROR/WARNING, MSG_IMAGE) are stuttering steps.      *)
(* The profiling session is kept to what the handlers read or write of it; *)
(* the launch counter that a connection decrements belongs to Session.     *)
(***************************************************************************)
EXTENDS Integers, FiniteSets

CONSTANTS
  MAX_TARGET_COUNT, \* number of slots of target_array
  Apps,             \* applications a START message may name
  UNKNOWN_PID,      \* pid of a target whose MSG_PID has not arrived
  Parents,          \* parent pids a target may report
  DaemonPid,        \* the manager's own pid
  LpadPids,         \* parents whose command line is the launchpad's
  TargetMsgs,       \* messages applications send: "end", "pid", "other"
  Faults            \* calls that may fail, see below

(***************************************************************************)
(* "accept", "eventfd", "handler", "pthread": the calls of                 *)
(* targetServerHandler; "ioctl": the device refuses NMSG_STOP; "parse",    *)
(* "prepare", "exec": a START that fails while it is parsed, before and    *)
(* after running_status is set.                                            *)
(***************************************************************************)
ConnectFaults == {"accept", "eventfd", "handler"}
FaultNames == ConnectFaults \cup {"pthread", "ioctl", "parse", "prepare", "exec"}

ASSUME SlotAssumption == MAX_TARGET_COUNT \in Nat \ {0}
\* No MSG_PID says -1, which the sscanf of threads.c 128 would accept.
ASSUME PidAssumption == UNKNOWN_PID \notin Apps \cup Parents
ASSUME ParentAssumption == DaemonPid \in Parents /\ LpadPids \subseteq Parents
ASSUME FaultAssumption == Faults \subseteq FaultNames
ASSUME MsgAssumption == TargetMsgs \subseteq {"end", "pid", "other"}

Slots == 0 .. MAX_TARGET_COUNT - 1

EVENT_STOP == 1
EVENT_PID == 2
EVENT_ERROR == 4

\* eventfd(EFD_CLOEXEC, EFD_NONBLOCK) passes the flag as the initial value.
EFD_INITVAL == 524288

VARIABLES
  target_use,   \* slot allocated
  run_flag,     \* receiving thread started and not yet joined
  recv,         \* state of the receiving thread
  pass,         \* the thread's local "initial log seen" flag
  event_fd,     \* eventfd counter, -1 when closed
  handler,      \* main loop watches event_fd
  pid, ppid, app_type, initial_log,
  stop_sent,    \* MSG_STOP was sent to the application
  target_cnt,
  lpad_pid,     \* static cache of get_lpad_pid
  maps,         \* lib_maps_message has been generated
  running,      \* prof_session.running_status
  apps,         \* app_inst_list, as the set of its applications
  replay,       \* a replay thread is registered
  main,         \* what the main thread is doing
  cur,          \* slot it is joining
  after         \* what follows target_wait_all

slotVars == <<target_use, run_flag, recv, pass, event_fd, handler, pid, ppid,
              app_type, initial_log, stop_sent>>
sessionVars == <<maps, running, apps, replay>>
mainVars == <<main, cur, after>>
vars == <<slotVars, target_cnt, lpad_pid, sessionVars, mainVars>>

Init ==
  /\ target_use = [s \in Slots |-> 0]
  /\ run_flag = [s \in Slots |-> 0]
  /\ recv = [s \in Slots |-> "none"]
  /\ pass = [s \in Slots |-> 0]
  /\ event_fd = [s \in Slots |-> -1]
  /\ handler = [s \in Slots |-> 0]
  /\ pid = [s \in Slots |-> UNKNOWN_PID]
  /\ ppid = [s \in Slots |-> UNKNOWN_PID]
  /\ app_type = [s \in Slots |-> "unknown"]
  /\ initial_log = [s \in Slots |-> 0]
  /\ stop_sent = [s \in Slots |-> 0]
  /\ target_cnt = 0
  /\ lpad_pid = UNKNOWN_PID
  /\ maps = 0 /\ running = 0 /\ apps = {} /\ replay = 0
  /\ main = "loop" /\ cur = 0 /\ after = "none"

-----------------------------------------------------------------------------
(***************************************************************************)
(* Sending MSG_STOP to every allocated slot and starting the joins.  The   *)
(* slots in use are passed because the reaping handler frees one first.    *)
(***************************************************************************)
terminate_all_silent(use, next) ==  \* mutant: MSG_STOP is not sent
  /\ UNCHANGED stop_sent
  /\ main' = "wait_all" /\ cur' = 0 /\ after' = next

terminate_all(use, next) ==
  /\ stop_sent' = [s \in Slots |-> IF use[s] = 1 THEN 1 ELSE stop_sent[s]]
  /\ main' = "wait_all" /\ cur' = 0 /\ after' = next

\* The slot target_malloc hands out: the first one not in use.
FirstFree(s) == target_use[s] = 0 /\ \A r \in Slots : r < s => target_use[r] = 1

(***************************************************************************)
(* A connection request.  target_start reports a failed pthread_create by  *)
(* a positive errno, which makeRecvThread takes for success: the target is *)
(* then counted and watched although no thread reads its socket.           *)
(***************************************************************************)
TargetConnect(s) ==
  /\ main = "loop" /\ maps = 1
  /\ FirstFree(s)
  /\ target_use' = [target_use EXCEPT ![s] = 1]
  /\ app_type' = [app_type EXCEPT ![s] = "unknown"]
  /\ pid' = [pid EXCEPT ![s] = UNKNOWN_PID]
  /\ initial_log' = [initial_log EXCEPT ![s] = 0]
  /\ event_fd' = [event_fd EXCEPT ![s] = EFD_INITVAL]
  /\ handler' = [handler EXCEPT ![s] = 1]
  /\ pass' = [pass EXCEPT ![s] = 0]
  /\ stop_sent' = [stop_sent EXCEPT ![s] = 0]
  /\ \/ /\ recv' = [recv EXCEPT ![s] = "recv"]
        /\ run_flag' = [run_flag EXCEPT ![s] = 1]
     \/ /\ "pthread" \in Faults
        /\ recv' = [recv EXCEPT ![s] = "failed"]
        /\ run_flag' = [run_flag EXCEPT ![s] = 0]
  /\ target_cnt' = target_cnt + 1
  /\ UNCHANGED <<ppid, lpad_pid, sessionVars, mainVars>>

ConnectFailedLeaky(s, f) ==  \* mutant: no target_dtor
  /\ target_use' = [target_use EXCEPT ![s] = 1]
  /\ IF target_cnt = 0
       THEN terminate_all(target_use', "none")
       ELSE UNCHANGED <<stop_sent, mainVars>>
  /\ UNCHANGED event_fd

(***************************************************************************)
(* TARGET_CONNECT_FAIL: with no other target the slot is kept (there is no *)
(* target_dtor) and target_connect_cb terminates everything; otherwise the *)
(* slot is given back.                                                     *)
(***************************************************************************)
ConnectFailed(s, f) ==
  \/ /\ target_cnt = 0
     /\ target_use' = [target_use EXCEPT ![s] = 1]
     /\ event_fd' = [event_fd EXCEPT ![s] = IF f = "handler" THEN EFD_INITVAL ELSE -1]
     /\ terminate_all(target_use', "none")
  \/ /\ target_cnt # 0
     /\ UNCHANGED <<target_use, event_fd, stop_sent, mainVars>>

\* accept, eventfd or ecore_main_fd_handler_add fails.
TargetConnectFail(s) ==
  /\ main = "loop"
  /\ FirstFree(s)
  /\ app_type' = [app_type EXCEPT ![s] = "unknown"]
  /\ pid' = [pid EXCEPT ![s] = UNKNOWN_PID]
  /\ run_flag' = [run_flag EXCEPT ![s] = 0]
  /\ initial_log' = [initial_log EXCEPT ![s] = 0]
  /\ \E f \in Faults \cap ConnectFaults :
       /\ f # "accept" => maps = 1
       /\ ConnectFailed(s, f)
  /\ UNCHANGED <<recv, pass, handler, ppid, target_cnt, lpad_pid, sessionVars>>

(***************************************************************************)
(* send_maps_inst_msg_to dereferences lib_maps_message, NULL until the     *)
(* first START, SWAP_INST_ADD or SWAP_INST_REMOVE: the process dies.       *)
(***************************************************************************)
TargetConnectCrash(s) ==
  /\ main = "loop" /\ maps = 0
  /\ FirstFree(s)
  /\ target_use' = [target_use EXCEPT ![s] = 1]
  /\ main' = "crashed"
  /\ UNCHANGED <<run_flag, recv, pass, event_fd, handler, pid, ppid, app_type,
                 initial_log, stop_sent, target_cnt, lpad_pid, sessionVars,
                 cur, after>>

-----------------------------------------------------------------------------
\* write(target->event_fd, &event, sizeof(event)): an eventfd adds.
Post(s, event) == event_fd' = [event_fd EXCEPT ![s] = @ + event]

\* A receiving thread in its loop; it dies with the process.
Receiving(s) == recv[s] = "recv" /\ main # "crashed"

(***************************************************************************)
(* The thread leaves its loop: the peer closed or sent too long a message, *)
(* MSG_TERMINATE arrived, or the first MSG_PID did not parse.  The main    *)
(* loop may read EVENT_STOP before the thread has returned.                *)
(***************************************************************************)
RecvEnd(s) ==
  /\ Receiving(s) /\ "end" \in TargetMsgs
  /\ Post(s, EVENT_STOP)
  /\ recv' = [recv EXCEPT ![s] = "ending"]
  /\ UNCHANGED <<target_use, run_flag, pass, handler, pid, ppid, app_type,
                 initial_log, stop_sent, target_cnt, lpad_pid, sessionVars,
                 mainVars>>

\* The thread function returns.
RecvExit(s) ==
  /\ recv[s] = "ending" /\ main # "crashed"
  /\ recv' = [recv EXCEPT ![s] = "done"]
  /\ UNCHANGED <<target_use, run_flag, pass, event_fd, handler, pid, ppid,
                 app_type, initial_log, stop_sent, target_cnt, lpad_pid,
                 sessionVars, mainVars>>

EveryPid(s) == TRUE  \* mutant: each MSG_PID is reported

FirstPid(s) == pid[s] = UNKNOWN_PID

\* MSG_PID: only the first one is recorded and reported.
RecvPid(s) ==
  /\ Receiving(s) /\ "pid" \in TargetMsgs
  /\ FirstPid(s)
  /\ \E a \in Apps, p \in Parents :
       /\ pid' = [pid EXCEPT ![s] = a]
       /\ ppid' = [ppid EXCEPT ![s] = p]
  /\ Post(s, EVENT_PID)
  /\ UNCHANGED <<target_use, run_flag, recv, pass, handler, app_type,
                 initial_log, stop_sent, target_cnt, lpad_pid, sessionVars,
                 mainVars>>

(***************************************************************************)
(* Any message type without a branch of its own (MSG_LOG, MSG_SAMPLE ...): *)
(* until the first one has passed, the thread waits for initial_log.       *)
(***************************************************************************)
RecvOther(s) ==
  /\ Receiving(s) /\ "other" \in TargetMsgs
  /\ pass[s] = 0
  /\ recv' = [recv EXCEPT ![s] = "spin"]
  /\ UNCHANGED <<target_use, run_flag, pass, event_fd, handler, pid, ppid,
                 app_type, initial_log, stop_sent, target_cnt, lpad_pid,
                 sessionVars, mainVars>>

RecvPass(s) ==
  /\ recv[s] = "spin" /\ main # "crashed"
  /\ initial_log[s] = 1
  /\ recv' = [recv EXCEPT ![s] = "recv"]
  /\ pass' = [pass EXCEPT ![s] = 1]
  /\ UNCHANGED <<target_use, run_flag, event_fd, handler, pid, ppid, app_type,
                 initial_log, stop_sent, target_cnt, lpad_pid, sessionVars,
                 mainVars>>

-----------------------------------------------------------------------------
HasEvent(u, event) == (u \div event) % 2 = 1

\* The main loop calls target_event_cb: event_fd is readable; the read zeroes it.
Readable(s) == main = "loop" /\ handler[s] = 1 /\ event_fd[s] > 0
EventRead(s) == event_fd' = [event_fd EXCEPT ![s] = 0]

StopIgnored(u) == HasEvent(u, EVENT_ERROR)  \* mutant: EVENT_STOP not tested

StopRequested(u) == HasEvent(u, EVENT_STOP) \/ HasEvent(u, EVENT_ERROR)

get_any_pid(p) == IF lpad_pid = UNKNOWN_PID THEN p ELSE lpad_pid  \* mutant: no cmdline test

\* get_lpad_pid keeps the first launchpad parent it meets for ever.
get_lpad_pid(p) ==
  IF lpad_pid = UNKNOWN_PID /\ p \in LpadPids THEN p ELSE lpad_pid

target_set_type(s) ==
  LET p == ppid[s] IN
  /\ lpad_pid' = IF p = DaemonPid THEN lpad_pid ELSE get_lpad_pid(p)
  /\ app_type' = [app_type EXCEPT ![s] = IF p = DaemonPid THEN "common"
                                         ELSE IF p = lpad_pid' THEN "tizen"
                                         ELSE "unknown"]

\* The receiving thread has left its loop.
Ended(s) == recv[s] \in {"ending", "done", "joined"}

(***************************************************************************)
(* is_same_app_process compares /proc/<pid>/cmdline with a listed          *)
(* executable: it cannot match an application that is not listed, and it   *)
(* may miss a listed one that has already ended.                           *)
(***************************************************************************)
MayMatch(s) == pid[s] \in apps
MayMiss(s) == pid[s] \notin apps \/ Ended(s)

(***************************************************************************)
(* EVENT_PID is refused: no listed application, or a replay already runs.  *)
(* target_event_handler returns before it looks at EVENT_STOP.             *)
(***************************************************************************)
PidRefused(s) ==
  /\ Readable(s) /\ HasEvent(event_fd[s], EVENT_PID)
  /\ MayMiss(s) \/ replay = 1
  /\ EventRead(s)
  /\ target_set_type(s)
  /\ UNCHANGED <<target_use, run_flag, recv, pass, handler, pid, ppid,
                 initial_log, stop_sent, target_cnt, sessionVars, mainVars>>

BeginReapWatched(s) ==  \* mutant: no ecore_main_fd_handler_del
  /\ main' = "reap" /\ cur' = s
  /\ UNCHANGED <<handler, after>>

\* target_event_stop_handler up to the join.
BeginReap(s) ==
  /\ handler' = [handler EXCEPT ![s] = 0]
  /\ main' = "reap" /\ cur' = s
  /\ UNCHANGED after

PidAccepted(s) ==
  /\ Readable(s) /\ HasEvent(event_fd[s], EVENT_PID)
  /\ MayMatch(s) /\ replay = 0
  /\ EventRead(s)
  /\ target_set_type(s)
  /\ replay' = 1
  /\ initial_log' = [initial_log EXCEPT ![s] = 1]
  /\ IF StopRequested(event_fd[s])
       THEN BeginReap(s)
       ELSE UNCHANGED <<handler, mainVars>>
  /\ UNCHANGED <<target_use, run_flag, recv, pass, pid, ppid, stop_sent,
                 target_cnt, maps, running, apps>>

\* No EVENT_PID: reap on EVENT_STOP, ignore the initial value.
OtherEvent(s) ==
  /\ Readable(s) /\ ~HasEvent(event_fd[s], EVENT_PID)
  /\ EventRead(s)
  /\ IF StopRequested(event_fd[s])
       THEN BeginReap(s)
       ELSE UNCHANGED <<handler, mainVars>>
  /\ UNCHANGED <<target_use, run_flag, recv, pass, pid, ppid, app_type,
                 initial_log, stop_sent, target_cnt, lpad_pid, sessionVars>>

-----------------------------------------------------------------------------
\* A receiving thread that has not returned (and would survive its slot).
Alive == {"recv", "spin", "ending"}

NoJoin(s) == TRUE  \* mutant: the thread is not waited for

\* thread_wait: pthread_join returns when the thread has returned.
Joinable(s) == run_flag[s] = 1 => recv[s] = "done"

(***************************************************************************)
(* The rest of target_event_stop_handler: join, target_dtor, and stop_all  *)
(* when the last target closed and it was started by the manager or by     *)
(* the launchpad.                                                          *)
(***************************************************************************)
Reap ==
  /\ main = "reap"
  /\ Joinable(cur)
  /\ target_use' = [target_use EXCEPT ![cur] = 0]
  /\ run_flag' = [run_flag EXCEPT ![cur] = 0]
  /\ recv' = [recv EXCEPT ![cur] = IF @ \in Alive THEN @ ELSE "none"]
  /\ event_fd' = [event_fd EXCEPT ![cur] = -1]
  /\ initial_log' = [initial_log EXCEPT ![cur] = 0]
  /\ target_cnt' = target_cnt - 1
  /\ IF target_cnt' = 0 /\ app_type[cur] \in {"common", "tizen"} /\ running = 1
       THEN terminate_all(target_use', "stop_all")
       ELSE /\ main' = "loop"
            /\ UNCHANGED <<stop_sent, cur, after>>
  /\ UNCHANGED <<pass, handler, pid, ppid, app_type, lpad_pid, sessionVars>>

\* One iteration of target_wait_all.
WaitNext ==
  /\ main = "wait_all" /\ cur < MAX_TARGET_COUNT
  /\ target_use[cur] = 1 => Joinable(cur)
  /\ IF target_use[cur] = 1 /\ run_flag[cur] = 1
       THEN /\ run_flag' = [run_flag EXCEPT ![cur] = 0]
            /\ recv' = [recv EXCEPT ![cur] = IF @ \in Alive THEN @ ELSE "joined"]
       ELSE UNCHANGED <<run_flag, recv>>
  /\ cur' = cur + 1
  /\ UNCHANGED <<target_use, pass, event_fd, handler, pid, ppid, app_type,
                 initial_log, stop_sent, target_cnt, lpad_pid, sessionVars,
                 main, after>>

(***************************************************************************)
(* All joined.  Inside stop_all the replay thread is stopped and, unless   *)
(* the device refuses NMSG_STOP, the session is closed.                    *)
(***************************************************************************)
WaitDone ==
  /\ main = "wait_all" /\ cur = MAX_TARGET_COUNT
  /\ main' = "loop" /\ cur' = 0 /\ after' = "none"
  /\ \/ /\ after = "none"
        /\ UNCHANGED <<replay, running, apps>>
     \/ /\ after = "stop_all"
        /\ replay' = 0 /\ running' = 0 /\ apps' = {}
     \/ /\ after = "stop_all" /\ "ioctl" \in Faults
        /\ replay' = 0
        /\ UNCHANGED <<running, apps>>
  /\ UNCHANGED <<slotVars, target_cnt, lpad_pid, maps>>

-----------------------------------------------------------------------------
(***************************************************************************)
(* The session around the targets.  A START appends to the application     *)
(* list, which only a completed stop_all empties; one that fails in        *)
(* start_profiling runs stop_all itself.                                   *)
(***************************************************************************)
HostStart(new) ==
  /\ main = "loop" /\ running = 0
  /\ apps' = apps \cup new
  /\ \/ /\ "parse" \in Faults
        /\ UNCHANGED <<maps, running, stop_sent, mainVars>>
     \/ /\ maps' = 1
        /\ "prepare" \in Faults \/ apps' = {}
        /\ UNCHANGED <<running, stop_sent, mainVars>>
     \/ /\ maps' = 1 /\ running' = 1 /\ apps' # {}
        /\ UNCHANGED <<stop_sent, mainVars>>
     \/ /\ maps' = 1 /\ running' = 1 /\ apps' # {} /\ "exec" \in Faults
        /\ terminate_all(target_use, "stop_all")
  /\ UNCHANGED <<target_use, run_flag, recv, pass, event_fd, handler, pid, ppid,
                 app_type, initial_log, target_cnt, lpad_pid, replay>>

\* NMSG_STOP; without a running session stop_all does nothing.
HostStop ==
  /\ main = "loop" /\ running = 1
  /\ terminate_all(target_use, "stop_all")
  /\ UNCHANGED <<target_use, run_flag, recv, pass, event_fd, handler, pid, ppid,
                 app_type, initial_log, target_cnt, lpad_pid, sessionVars>>

\* NMSG_SWAP_INST_ADD and _REMOVE generate the maps message too.
HostInst ==
  /\ main = "loop" /\ maps = 0
  /\ maps' = 1
  /\ UNCHANGED <<slotVars, target_cnt, lpad_pid, running, apps, replay, mainVars>>

\* The replay thread reaches exit_replay_thread by itself.
ReplayEnds ==
  /\ replay = 1 /\ main # "crashed"
  /\ replay' = 0
  /\ UNCHANGED <<slotVars, target_cnt, lpad_pid, maps, running, apps, mainVars>>

\* A dead process stays dead.
Crashed == main = "crashed" /\ UNCHANGED vars

-----------------------------------------------------------------------------
MainStep == Reap \/ WaitNext \/ WaitDone

SlotStep(s) ==
  \/ TargetConnect(s) \/ TargetConnectFail(s) \/ TargetConnectCrash(s)
  \/ RecvEnd(s) \/ RecvExit(s) \/ RecvPid(s) \/ RecvOther(s) \/ RecvPass(s)
  \/ PidRefused(s) \/ PidAccepted(s) \/ OtherEvent(s)

Next ==
  \/ \E s \in Slots : SlotStep(s)
  \/ MainStep
  \/ \E new \in SUBSET Apps : HostStart(new)
  \/ HostStop \/ HostInst \/ ReplayEnds \/ Crashed

Spec == Init /\ [][Next]_vars

(***************************************************************************)
(* Threads are scheduled; the event loop serves a readable eventfd; an     *)
(* application that was sent MSG_STOP ends or closes its socket.           *)
(***************************************************************************)
EndAfterStop(s) == stop_sent[s] = 1 /\ RecvEnd(s)

Fairness ==
  /\ WF_vars(MainStep)
  /\ \A s \in Slots :
       /\ WF_vars(EndAfterStop(s))
       /\ WF_vars(RecvExit(s) \/ RecvPass(s))
       /\ SF_vars(PidRefused(s) \/ PidAccepted(s) \/ OtherEvent(s))

FairSpec == Spec /\ Fairness

-----------------------------------------------------------------------------
ThreadStates == {"none", "failed", "recv", "spin", "ending", "done",
                 "joined"}

(***************************************************************************)
(* Every variable keeps the values the program gives it.                   *)
(***************************************************************************)
TypeOK ==
  /\ target_use \in [Slots -> 0..1]
  /\ run_flag \in [Slots -> 0..1]
  /\ recv \in [Slots -> ThreadStates]
  /\ pass \in [Slots -> 0..1]
  /\ event_fd \in [Slots -> Int]
  /\ handler \in [Slots -> 0..1]
  /\ pid \in [Slots -> Apps \cup {UNKNOWN_PID}]
  /\ ppid \in [Slots -> Parents \cup {UNKNOWN_PID}]
  /\ app_type \in [Slots -> {"unknown", "common", "tizen"}]
  /\ initial_log \in [Slots -> 0..1]
  /\ stop_sent \in [Slots -> 0..1]
  /\ target_cnt \in Int
  /\ lpad_pid \in LpadPids \cup {UNKNOWN_PID}
  /\ maps \in 0..1 /\ running \in 0..1 /\ replay \in 0..1
  /\ apps \subseteq Apps
  /\ main \in {"loop", "reap", "wait_all", "crashed"}
  /\ cur \in 0 .. MAX_TARGET_COUNT
  /\ after \in {"none", "stop_all"}

(***************************************************************************)
(* The eventfd counter adds what the receiving thread writes, yet the main *)
(* loop reads it as a set of bits (daemon.c target_event_handler).  The    *)
(* sum never aliases another event: two EVENT_PID would read EVENT_ERROR.  *)
(***************************************************************************)
CounterIsEventSet ==
  \A s \in Slots : event_fd[s] \in {-1} \cup 0 .. EVENT_STOP + EVENT_PID
                     \cup EFD_INITVAL .. EFD_INITVAL + EVENT_STOP + EVENT_PID

(***************************************************************************)
(* A slot that target_free gave back has no thread, no handler and no open *)
(* eventfd: nobody still uses the struct target (target_dtor, thread_dtor  *)
(* "hanging thread").                                                      *)
(***************************************************************************)
FreeSlotUnused ==
  \A s \in Slots : target_use[s] = 0 =>
    recv[s] = "none" /\ run_flag[s] = 0 /\ handler[s] = 0 /\ event_fd[s] = -1

\* The targets the event loop watches, and the one being reaped.
Connected == {s \in Slots : handler[s] = 1}
Reaping == IF main = "reap" THEN {cur} ELSE {}

(***************************************************************************)
(* target_cnt, which decides whether the session ends, counts exactly the  *)
(* connected targets through connects, failures, joins and reaps.          *)
(***************************************************************************)
TargetCntExact == target_cnt = Cardinality(Connected \cup Reaping)

\* EVENT_STOP is still to be read by the main loop.
StopPending(s) == event_fd[s] > 0 /\ HasEvent(event_fd[s], EVENT_STOP)

(***************************************************************************)
(* The stop message is lost in one way only: the main loop read it         *)
(* together with an EVENT_PID that it refused.                             *)
(***************************************************************************)
StopLostOnlyWithRefusedPid ==
  \A s \in Connected :
    Ended(s) /\ ~StopPending(s) => pid[s] # UNKNOWN_PID /\ initial_log[s] = 0

(***************************************************************************)
(* When stop_all closes the session no receiving thread of that session is *)
(* left (terminate_all, "wait for all other thread exit").                 *)
(***************************************************************************)
StopLeavesNoReader ==
  [][running = 1 /\ running' = 0 =>
       \A s \in Slots : recv'[s] \in {"none", "failed", "joined"}]_vars

(***************************************************************************)
(* A slot stays allocated without being watched only after a connection    *)
(* that failed while no target was connected (TARGET_CONNECT_FAIL).        *)
(***************************************************************************)
Leaked == {s \in Slots : target_use[s] = 1} \ (Connected \cup Reaping)
LeakOnlyWithoutTargets ==
  [][Leaked' # Leaked => main' = "crashed" \/ (Leaked \subseteq Leaked' /\ target_cnt = 0)]_vars

(***************************************************************************)
(* terminate_all always comes back: the main loop never waits for ever for *)
(* a receiving thread, nor the host for its STOP.                          *)
(***************************************************************************)
StopAllReturns == main = "wait_all" ~> main = "loop"

-----------------------------------------------------------------------------
(***************************************************************************)
(* The inductive invariant behind the safety properties.                   *)
(***************************************************************************)

\* The counter shows the given events, with or without its initial value.
Shows(s, events) == event_fd[s] \in events \/ event_fd[s] - EFD_INITVAL \in events

SlotInv(s) ==
  /\ recv[s] = "none" => event_fd[s] \in {-1, EFD_INITVAL} /\ handler[s] = 0
  /\ recv[s] = "failed" => Shows(s, {0})
  /\ recv[s] \in {"recv", "spin"} => Shows(s, {0, EVENT_PID})
  /\ Ended(s) => event_fd[s] = 0 \/ Shows(s, {EVENT_STOP, EVENT_STOP + EVENT_PID})
  /\ Shows(s, {EVENT_PID, EVENT_STOP + EVENT_PID}) =>
       pid[s] # UNKNOWN_PID /\ initial_log[s] = 0
  /\ initial_log[s] = 1 => pid[s] # UNKNOWN_PID
  /\ run_flag[s] = 1 <=> recv[s] \in {"recv", "spin", "ending", "done"}
  /\ target_use[s] = 0 =>
       recv[s] = "none" /\ handler[s] = 0 /\ event_fd[s] = -1
  /\ handler[s] = 1 /\ Ended(s) /\ event_fd[s] = 0 =>
       pid[s] # UNKNOWN_PID /\ initial_log[s] = 0

MainInv ==
  /\ main = "reap" => cur \in Slots /\ handler[cur] = 0 /\ target_use[cur] = 1
  /\ main = "wait_all" => \A s \in Slots : s < cur => run_flag[s] = 0

(***************************************************************************)
(* For every slot the eventfd counter, the receiving thread, its run_flag, *)
(* the recorded pid and the slot's allocation agree, and the main thread   *)
(* joins and reaps only what is there: what the theorems rest on.          *)
(***************************************************************************)
SlotsConsistent == (\A s \in Slots : SlotInv(s)) /\ MainInv

=============================================================================
