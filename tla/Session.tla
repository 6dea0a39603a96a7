------------------------------- MODULE Session -------------------------------
(***************************************************************************)
(* The profiling session of swap_manager: NMSG_START, NMSG_STOP and        *)
(* NMSG_CONFIG (da_protocol.c), what they start and stop (daemon.c,        *)
(* threads.c, input_events.c, transfer_thread.c) and every way in which    *)
(* they fail half way.                                                     *)
(*                                                                         *)
(* All handlers run in the main loop, one after the other.  A handler is   *)
(* one step here; the threads it joins are the subject of Targets and      *)
(* Replay.  The target side is reduced to the connection that counts down  *)
(* apps_to_run, the EVENT_PID that starts the replay and the last          *)
(* EVENT_STOP, which calls stop_all.                                       *)
(***************************************************************************)
EXTENDS Integers, FiniteSets, Sequences

CONSTANTS
  Apps,          \* applications a START may name
  LaunchedApps,  \* those of type TIZEN or COMMON: killed, executed, counted
  RunningApps,   \* those of type RUNNING: neither killed nor executed
  MaxAppList,    \* bound on the application list
  MaxToRun       \* bound on apps_to_run

ASSUME AppAssumption ==
  LaunchedApps \subseteq Apps /\ RunningApps \subseteq Apps \ LaunchedApps
ASSUME BoundAssumption == MaxAppList \in Nat /\ MaxToRun \in Nat

\* "unset" is the zeroed conf of init_prof_session, which check_conf rejects.
Confs == {"plain", "recording"}

VARIABLES
  running,       \* prof_session.running_status
  device,        \* the kernel side traces: START accepted, STOP not yet
  conf,          \* prof_session.conf
  dev_conf,      \* configuration the device accepted last
  sampling,      \* sampling thread and its interval timer
  input,         \* input_events.c status
  transfer,      \* manager.transfer_thread # -1
  data_socket,   \* host data socket: "none", "open", "closed"
  replay,        \* manager.replay_thread # -1
  app_list,      \* user_space_inst.app_inst_list, most recent first
  apps_to_run,
  launch_timer,  \* app_launch_timerfd armed
  last_start,    \* reply to the last START that was not ALREADY_RUNNING
  conf_ack       \* reply to the last CONFIG

vars == <<running, device, conf, dev_conf, sampling, input, transfer,
          data_socket, replay, app_list, apps_to_run, launch_timer,
          last_start, conf_ack>>

Init ==
  /\ running = 0 /\ device = 0
  /\ conf = "unset" /\ dev_conf = "unset"
  /\ sampling = 0 /\ input = 0 /\ transfer = 0
  /\ data_socket = "none" /\ replay = 0
  /\ app_list = <<>> /\ apps_to_run = 0 /\ launch_timer = 0
  /\ last_start = "none" /\ conf_ack = "none"

-----------------------------------------------------------------------------
\* IS_OPT_SET(FL_RECORDING)
Recording(c) == c = "recording"

StopDeviceEarly(list, trans) ==  \* mutant: running_status_off before the ioctl
  \/ device' = 0 /\ app_list' = <<>> /\ transfer' = 0 /\ running' = 0
  \/ device' = 1 /\ app_list' = list /\ transfer' = trans /\ running' = 0

StopDeviceKeepApps(list, trans) ==  \* mutant: no reset_app_inst
  \/ device' = 0 /\ app_list' = list /\ transfer' = 0 /\ running' = 0
  \/ device' = 1 /\ app_list' = list /\ transfer' = trans /\ running' = 1

(***************************************************************************)
(* The end of stop_all_no_lock.  If the device refuses NMSG_STOP the       *)
(* function returns at once: application list, transfer thread and         *)
(* running_status stay, so that a later STOP tries again.                  *)
(***************************************************************************)
StopDevice(list, trans) ==
  \/ device' = 0 /\ app_list' = <<>> /\ transfer' = 0 /\ running' = 0
  \/ device' = 1 /\ app_list' = list /\ transfer' = trans /\ running' = 1

\* stop_profiling and stop_replay; input events go only if recording is set.
stop_profiling ==
  /\ sampling' = 0 /\ replay' = 0
  /\ input' = IF Recording(conf) THEN 0 ELSE input

-----------------------------------------------------------------------------
\* Bounded sequences of applications, as a START message lists them.
AppSeqs == UNION {[1..n -> Apps] : n \in 0..MaxAppList}

\* parse_app_inst_list: data_list_append puts each application at the head.
Parsed(new) ==
  [i \in 1..Len(new) |-> new[Len(new) + 1 - i]] \o app_list

\* start_transfer: without a data socket it succeeds and starts nothing.
start_transfer == IF data_socket = "open" THEN 1 ELSE transfer

\* How many of the first k applications exec_app counted.
Launched(list, k) == Cardinality({i \in 1..k : list[i] \in LaunchedApps})

\* NMSG_START without a running session, whose list still fits the bounds.
StartRequest(new) ==
  /\ running = 0
  /\ Len(app_list) + Len(new) <= MaxAppList
  /\ UNCHANGED <<conf, dev_conf, data_socket, conf_ack>>

(***************************************************************************)
(* START fails before the device is told: no valid configuration, a parse  *)
(* error after some applications, an empty list or a kill_app failure in   *)
(* prepare_profiling, no transfer thread.  What was done stays done.       *)
(***************************************************************************)
StartFailsEarly(new) ==
  /\ StartRequest(new)
  /\ \/ conf = "unset" /\ UNCHANGED <<app_list, transfer>>
     \/ /\ conf # "unset"
        /\ app_list' = Parsed(new)
        /\ \/ UNCHANGED transfer
           \/ app_list' # <<>> /\ data_socket = "open" /\ transfer' = 0
  /\ last_start' = "err"
  /\ UNCHANGED <<running, device, sampling, input, replay, apps_to_run,
                 launch_timer>>

\* The device refuses NMSG_START: the transfer thread is left running.
StartRefusedByDevice(new) ==
  /\ StartRequest(new) /\ conf # "unset"
  /\ app_list' = Parsed(new) /\ app_list' # <<>>
  /\ transfer' = start_transfer
  /\ last_start' = "err"
  /\ UNCHANGED <<running, device, sampling, input, replay, apps_to_run,
                 launch_timer>>

(***************************************************************************)
(* start_profiling fails after k applications: exec_app of the next one,   *)
(* or the launch timer after all of them.  It undoes sampling and input    *)
(* events, and process_msg_start calls stop_all.                           *)
(***************************************************************************)
StartFailsLate(new, k) ==
  /\ StartRequest(new) /\ conf # "unset"
  /\ LET list == Parsed(new) IN
     /\ list # <<>> /\ k <= Len(list)
     /\ apps_to_run' = apps_to_run + Launched(list, k)
     /\ apps_to_run' <= MaxToRun
     /\ IF k < Len(list)
          THEN /\ list[k + 1] \notin RunningApps
               /\ UNCHANGED launch_timer
          ELSE /\ apps_to_run' > 0
               /\ launch_timer' = 0
     /\ StopDevice(list, start_transfer)
  /\ stop_profiling
  /\ last_start' = "err"

\* A timer that still runs for an earlier START is replaced.
start_app_launch_timer(apps_count) == IF apps_count = 0 THEN launch_timer ELSE 1

StartOk(new) ==
  /\ StartRequest(new) /\ conf # "unset"
  /\ app_list' = Parsed(new) /\ app_list' # <<>>
  /\ transfer' = start_transfer
  /\ device' = 1 /\ running' = 1
  /\ sampling' = 1
  /\ input' = IF Recording(conf) THEN 1 ELSE input
  /\ apps_to_run' = apps_to_run + Launched(app_list', Len(app_list'))
  /\ apps_to_run' <= MaxToRun
  /\ launch_timer' = start_app_launch_timer(apps_to_run')
  /\ last_start' = "ok"
  /\ UNCHANGED replay

(***************************************************************************)
(* NMSG_STOP, the last EVENT_STOP and the end of the main loop: stop_all.  *)
(* The host has its ACK before stop_all begins.                            *)
(***************************************************************************)
stop_all ==
  /\ running = 1
  /\ stop_profiling
  /\ StopDevice(app_list, transfer)
  /\ UNCHANGED <<conf, dev_conf, data_socket, apps_to_run, launch_timer,
                 last_start, conf_ack>>

-----------------------------------------------------------------------------
\* samplingStart after samplingStop: starts only in a running session.
samplingStart == running

InputNeverDeleted(c) ==  \* mutant: to_disable is not handled
  IF Recording(c) /\ ~Recording(conf) THEN 1 ELSE input

\* reconfigure_recording
InputFor(c) ==
  CASE Recording(c) /\ ~Recording(conf) -> 1
    [] Recording(conf) /\ ~Recording(c) -> 0
    [] OTHER -> input

DeviceConfAckFirst(c) ==  \* mutant: ACK sent before the ioctl
  \/ dev_conf' = c /\ conf_ack' = "ok"
  \/ dev_conf' = dev_conf /\ conf_ack' = "ok"

\* The configuration is in force before the device accepts or refuses it.  What
\* the ioctl carries is made from it flag by flag (FL_SYSTEM_ENERGY becomes the
\* device's own), so dev_conf names the configuration it was made from.
DeviceConf(c) ==
  \/ dev_conf' = c /\ conf_ack' = "ok"
  \/ dev_conf' = dev_conf /\ conf_ack' = "err"

\* NMSG_CONFIG that parses: reconfigure, device, reply.
Config(c) ==
  /\ conf' = c
  /\ input' = InputFor(c)
  /\ sampling' = samplingStart
  /\ DeviceConf(c)
  /\ UNCHANGED <<running, device, transfer, data_socket, replay, app_list,
                 apps_to_run, launch_timer, last_start>>

ConfigMalformed ==
  /\ conf_ack' = "err"
  /\ UNCHANGED <<running, device, conf, dev_conf, sampling, input, transfer,
                 data_socket, replay, app_list, apps_to_run, launch_timer,
                 last_start>>

-----------------------------------------------------------------------------
dec_apps_unchecked == apps_to_run - 1  \* mutant: decrements below zero

dec_apps_to_run == IF apps_to_run > 0 THEN apps_to_run - 1 ELSE 0

TimerRunsOn == launch_timer  \* mutant: the timer survives the last connection

\* The launch timer stops with the last application that was to connect.
TimerAfterConnect == IF apps_to_run' = 0 THEN 0 ELSE launch_timer

\* What targetServerHandler does to the session.
TargetConnected ==
  /\ apps_to_run' = dec_apps_to_run
  /\ launch_timer' = TimerAfterConnect
  /\ UNCHANGED <<running, device, conf, dev_conf, sampling, input, transfer,
                 data_socket, replay, app_list, last_start, conf_ack>>

launch_timer_cb ==
  /\ launch_timer = 1 /\ launch_timer' = 0
  /\ UNCHANGED <<running, device, conf, dev_conf, sampling, input, transfer,
                 data_socket, replay, app_list, apps_to_run, last_start, conf_ack>>

\* target_event_pid_handler for a listed application; its thread may end.
ReplayStarts ==
  /\ app_list # <<>> /\ replay = 0 /\ replay' = 1
  /\ UNCHANGED <<running, device, conf, dev_conf, sampling, input, transfer,
                 data_socket, app_list, apps_to_run, launch_timer, last_start,
                 conf_ack>>

ReplayEnds ==
  /\ replay = 1 /\ replay' = 0
  /\ UNCHANGED <<running, device, conf, dev_conf, sampling, input, transfer,
                 data_socket, app_list, apps_to_run, launch_timer, last_start,
                 conf_ack>>

\* hostServerHandler accepts one data socket; host_data_cb closes it for good.
DataSocket ==
  /\ \/ data_socket = "none" /\ data_socket' = "open"
     \/ data_socket = "open" /\ data_socket' = "closed"
  /\ UNCHANGED <<running, device, conf, dev_conf, sampling, input, transfer,
                 replay, app_list, apps_to_run, launch_timer, last_start, conf_ack>>

-----------------------------------------------------------------------------
Start(new) ==
  \/ StartFailsEarly(new) \/ StartRefusedByDevice(new) \/ StartOk(new)
  \/ \E k \in 0..MaxAppList : StartFailsLate(new, k)

Next ==
  \/ \E new \in AppSeqs : Start(new)
  \/ stop_all
  \/ \E c \in Confs : Config(c)
  \/ ConfigMalformed
  \/ TargetConnected \/ launch_timer_cb
  \/ ReplayStarts \/ ReplayEnds \/ DataSocket

Spec == Init /\ [][Next]_vars

-----------------------------------------------------------------------------
(***************************************************************************)
(* Every variable keeps the values the program gives it; in particular     *)
(* apps_to_run never becomes negative (assert in start_app_launch_timer).  *)
(***************************************************************************)
TypeOK ==
  /\ running \in 0..1 /\ device \in 0..1
  /\ conf \in Confs \cup {"unset"} /\ dev_conf \in Confs \cup {"unset"}
  /\ sampling \in 0..1 /\ input \in 0..1 /\ transfer \in 0..1
  /\ data_socket \in {"none", "open", "closed"}
  /\ replay \in 0..1
  /\ app_list \in Seq(Apps)
  /\ apps_to_run \in Nat
  /\ launch_timer \in 0..1
  /\ last_start \in {"none", "ok", "err"} /\ conf_ack \in {"none", "ok", "err"}

(***************************************************************************)
(* The device traces exactly while the manager believes in a session:      *)
(* whatever START or STOP failed half way, a device that still traces can  *)
(* be stopped by the next STOP (stop_all_no_lock tests running_status).    *)
(***************************************************************************)
DeviceFollowsRunning == device = running

(***************************************************************************)
(* No sampling thread without a session: START undoes it when it fails,    *)
(* STOP even when the device refuses, CONFIG does not start it while idle. *)
(***************************************************************************)
SamplingOnlyWhenRunning == sampling = 1 => running = 1

(***************************************************************************)
(* Input devices are watched only while the configuration has              *)
(* FL_RECORDING, the flag stop_profiling tests before it removes the       *)
(* handlers: a CONFIG in between never strands them.                       *)
(***************************************************************************)
InputOnlyWhenConfigured == input = 1 => Recording(conf)

(***************************************************************************)
(* An armed launch timer has an application to wait for, across failed     *)
(* launches, sessions and connections of targets nobody waited for.        *)
(***************************************************************************)
LaunchTimerHasApps == launch_timer = 1 => apps_to_run > 0

(***************************************************************************)
(* When manager and device run different configurations the host was told: *)
(* its last CONFIG was answered with an error.                             *)
(***************************************************************************)
ConfDivergenceReported == conf # dev_conf => conf_ack = "err"

(***************************************************************************)
(* A session that was started and is over has left nothing: no application *)
(* in the list (the next START would launch it again), no transfer thread, *)
(* no replay.                                                              *)
(***************************************************************************)
CleanWhenIdle ==
  running = 0 /\ last_start = "ok" => app_list = <<>> /\ transfer = 0 /\ replay = 0

=============================================================================
