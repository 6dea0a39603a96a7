---------------------------- MODULE SessionProofs ----------------------------
(***************************************************************************)
(* Proofs about Session, for any applications and any bounds.              *)
(***************************************************************************)
EXTENDS Session, FiniteSetTheorems, TLAPS

\* The list that parse_app_inst_list builds is a list of applications.
LEMMA ParsedType ==
  ASSUME app_list \in Seq(Apps), NEW new \in AppSeqs
  PROVE  Parsed(new) \in Seq(Apps)
<1>1. PICK n \in 0..MaxAppList : new \in [1..n -> Apps]
  BY DEF AppSeqs
<1>2. n \in Nat
  BY <1>1, BoundAssumption
<1>3. new \in Seq(Apps) /\ Len(new) = n
  BY <1>1, <1>2
<1>4. [i \in 1..Len(new) |-> new[Len(new) + 1 - i]] \in Seq(Apps)
  BY <1>1, <1>2, <1>3
<1> QED BY <1>4 DEF Parsed

\* exec_app counts a natural number of applications.
LEMMA LaunchedType ==
  ASSUME NEW list, NEW k \in Nat
  PROVE  Launched(list, k) \in Nat
<1>1. IsFiniteSet(1..k)
  BY FS_Interval
<1> QED BY <1>1, FS_Subset, FS_CardinalityType DEF Launched

\* Whatever the device answers, the end of stop_all_no_lock keeps the types.
LEMMA StopDeviceType ==
  ASSUME NEW list \in Seq(Apps), NEW trans \in 0..1, StopDevice(list, trans)
  PROVE  /\ app_list' \in Seq(Apps)
         /\ device' \in 0..1 /\ running' \in 0..1 /\ transfer' \in 0..1
<1>1. device' \in 0..1 /\ running' \in 0..1 /\ transfer' \in 0..1
  BY DEF StopDevice
<1>2. app_list' = <<>> \/ app_list' = list
  BY DEF StopDevice
<1>3. <<>> \in Seq(Apps)
  OBVIOUS
<1>4. app_list' \in Seq(Apps)
  BY <1>2, <1>3
<1> QED BY <1>1, <1>4

(***************************************************************************)
(* Type correctness; apps_to_run never becomes negative.                   *)
(***************************************************************************)
THEOREM TypeCorrect == Spec => []TypeOK
<1> USE BoundAssumption
<1>1. Init => TypeOK
  BY DEF Init, TypeOK
<1>2. ASSUME TypeOK, [Next]_vars PROVE TypeOK'
  <2> USE <1>2 DEF TypeOK, Confs
  <2>1. ASSUME NEW new \in AppSeqs, StartFailsEarly(new) PROVE TypeOK'
    BY <2>1, ParsedType DEF StartFailsEarly, StartRequest
  <2>2. ASSUME NEW new \in AppSeqs, StartRefusedByDevice(new) PROVE TypeOK'
    BY <2>2, ParsedType DEF StartRefusedByDevice, StartRequest, start_transfer
  <2>3. ASSUME NEW new \in AppSeqs, StartOk(new) PROVE TypeOK'
    <3>1. app_list' \in Seq(Apps)
      BY <2>3, ParsedType DEF StartOk
    <3>2. Len(app_list') \in Nat
      BY <3>1
    <3>3. apps_to_run' \in Nat
      BY <2>3, <3>2, LaunchedType DEF StartOk
    <3> QED BY <2>3, <3>1, <3>3
            DEF StartOk, StartRequest, start_transfer, start_app_launch_timer
  <2>4. ASSUME NEW new \in AppSeqs, NEW k \in 0..MaxAppList, StartFailsLate(new, k)
        PROVE  TypeOK'
    <3>1. Parsed(new) \in Seq(Apps)
      BY ParsedType
    <3>2. apps_to_run' \in Nat
      <4>1. Launched(Parsed(new), k) \in Nat
        BY LaunchedType
      <4> QED BY <2>4, <4>1 DEF StartFailsLate
    <3>3. /\ app_list' \in Seq(Apps)
          /\ device' \in 0..1 /\ running' \in 0..1 /\ transfer' \in 0..1
      <4>1. start_transfer \in 0..1
        BY DEF start_transfer
      <4>2. StopDevice(Parsed(new), start_transfer)
        BY <2>4 DEF StartFailsLate
      <4> QED BY <3>1, <4>1, <4>2, StopDeviceType
    <3>4. launch_timer' \in 0..1
      BY <2>4 DEF StartFailsLate
    <3>5. sampling' \in 0..1 /\ replay' \in 0..1 /\ input' \in 0..1 /\ last_start' = "err"
      BY <2>4 DEF StartFailsLate, stop_profiling
    <3>6. UNCHANGED <<conf, dev_conf, data_socket, conf_ack>>
      BY <2>4 DEF StartFailsLate, StartRequest
    <3> QED BY <3>2, <3>3, <3>4, <3>5, <3>6
  <2>5. CASE stop_all
    BY <2>5, StopDeviceType DEF stop_all, stop_profiling
  <2>6. ASSUME NEW c \in Confs, Config(c) PROVE TypeOK'
    BY <2>6 DEF Config, InputFor, samplingStart, DeviceConf
  <2>7. CASE ConfigMalformed
    BY <2>7 DEF ConfigMalformed
  <2>8. CASE TargetConnected
    BY <2>8 DEF TargetConnected, dec_apps_to_run, TimerAfterConnect
  <2>9. CASE launch_timer_cb
    BY <2>9 DEF launch_timer_cb
  <2>10. CASE ReplayStarts \/ ReplayEnds \/ DataSocket
    BY <2>10 DEF ReplayStarts, ReplayEnds, DataSocket
  <2>11. CASE UNCHANGED vars
    BY <2>11 DEF vars
  <2> QED BY <2>1, <2>2, <2>3, <2>4, <2>5, <2>6, <2>7, <2>8, <2>9, <2>10, <2>11
          DEF Next, Start
<1> QED BY <1>1, <1>2, PTL DEF Spec

(***************************************************************************)
(* The device traces exactly while a session runs.                         *)
(***************************************************************************)
THEOREM DeviceFollows == Spec => []DeviceFollowsRunning
<1>1. Init => DeviceFollowsRunning
  BY DEF Init, DeviceFollowsRunning
<1>2. DeviceFollowsRunning /\ [Next]_vars => DeviceFollowsRunning'
  BY DEF DeviceFollowsRunning, Next, vars, Start, StartFailsEarly, StartRefusedByDevice,
         StartOk, StartFailsLate, StopDevice, stop_all, Config, ConfigMalformed,
         TargetConnected, launch_timer_cb, ReplayStarts, ReplayEnds, DataSocket
<1> QED BY <1>1, <1>2, PTL DEF Spec

(***************************************************************************)
(* No sampling without a session.                                          *)
(***************************************************************************)
THEOREM SamplingFollows == Spec => []SamplingOnlyWhenRunning
<1>1. Init => SamplingOnlyWhenRunning
  BY DEF Init, SamplingOnlyWhenRunning
<1>2. SamplingOnlyWhenRunning /\ [Next]_vars => SamplingOnlyWhenRunning'
  BY DEF SamplingOnlyWhenRunning, Next, vars, Start, StartRequest, StartFailsEarly,
         StartRefusedByDevice, StartOk, StartFailsLate, stop_profiling, stop_all, Config,
         samplingStart, ConfigMalformed, TargetConnected, launch_timer_cb, ReplayStarts,
         ReplayEnds, DataSocket
<1> QED BY <1>1, <1>2, PTL DEF Spec

(***************************************************************************)
(* Input devices are watched only under FL_RECORDING, so stop_profiling    *)
(* always finds them.                                                      *)
(***************************************************************************)
THEOREM InputFollows == Spec => []InputOnlyWhenConfigured
<1>1. Init => InputOnlyWhenConfigured
  BY DEF Init, InputOnlyWhenConfigured
<1>2. InputOnlyWhenConfigured /\ [Next]_vars => InputOnlyWhenConfigured'
  BY DEF InputOnlyWhenConfigured, Next, vars, Start, StartRequest, StartFailsEarly,
         StartRefusedByDevice, StartOk, StartFailsLate, stop_profiling, stop_all, Config,
         InputFor, Recording, ConfigMalformed, TargetConnected, launch_timer_cb,
         ReplayStarts, ReplayEnds, DataSocket
<1> QED BY <1>1, <1>2, PTL DEF Spec

(***************************************************************************)
(* A configuration the device did not take was answered with an error.     *)
(***************************************************************************)
THEOREM ConfReported == Spec => []ConfDivergenceReported
<1>1. Init => ConfDivergenceReported
  BY DEF Init, ConfDivergenceReported
<1>2. ConfDivergenceReported /\ [Next]_vars => ConfDivergenceReported'
  BY DEF ConfDivergenceReported, Next, vars, Start, StartRequest, StartFailsEarly,
         StartRefusedByDevice, StartOk, StartFailsLate, stop_all, Config, DeviceConf,
         ConfigMalformed, TargetConnected, launch_timer_cb, ReplayStarts, ReplayEnds,
         DataSocket
<1> QED BY <1>1, <1>2, PTL DEF Spec

(***************************************************************************)
(* The launch timer is armed only while an application is to connect.      *)
(***************************************************************************)
THEOREM TimerHasApps == Spec => []LaunchTimerHasApps
<1>1. Init => LaunchTimerHasApps
  BY DEF Init, LaunchTimerHasApps
<1>2. ASSUME TypeOK, LaunchTimerHasApps, [Next]_vars PROVE LaunchTimerHasApps'
  <2> USE <1>2 DEF LaunchTimerHasApps
  <2>1. ASSUME NEW new \in AppSeqs, NEW k \in 0..MaxAppList, StartFailsLate(new, k)
        PROVE  LaunchTimerHasApps'
    <3>1. Launched(Parsed(new), k) \in Nat /\ apps_to_run \in Nat
      BY LaunchedType, BoundAssumption DEF TypeOK
    <3> QED BY <2>1, <3>1 DEF StartFailsLate
  <2>2. ASSUME NEW new \in AppSeqs, StartOk(new) PROVE LaunchTimerHasApps'
    <3>1. app_list' \in Seq(Apps)
      BY <2>2, ParsedType DEF StartOk, TypeOK
    <3>2. Launched(app_list', Len(app_list')) \in Nat /\ apps_to_run \in Nat
      BY <3>1, LaunchedType DEF TypeOK
    <3> QED BY <2>2, <3>2 DEF StartOk, start_app_launch_timer
  <2>3. CASE TargetConnected
    BY <2>3 DEF TargetConnected, dec_apps_to_run, TimerAfterConnect, TypeOK
  <2> QED BY <2>1, <2>2, <2>3
          DEF Next, vars, Start, StartFailsEarly, StartRefusedByDevice, stop_all, Config,
              ConfigMalformed, launch_timer_cb, ReplayStarts, ReplayEnds, DataSocket
<1> QED BY <1>1, <1>2, TypeCorrect, PTL DEF Spec

(***************************************************************************)
(* A session that was started and is over has left nothing behind.         *)
(***************************************************************************)
THEOREM IdleIsClean == Spec => []CleanWhenIdle
<1>1. Init => CleanWhenIdle
  BY DEF Init, CleanWhenIdle
<1>2. ASSUME CleanWhenIdle, [Next]_vars PROVE CleanWhenIdle'
  BY <1>2
  DEF CleanWhenIdle, Next, vars, Start, StartRequest, StartFailsEarly,
      StartRefusedByDevice, StartOk, StartFailsLate, StopDevice, stop_profiling,
      stop_all, Config, ConfigMalformed, TargetConnected, launch_timer_cb,
      ReplayStarts, ReplayEnds, DataSocket
<1> QED BY <1>1, <1>2, PTL DEF Spec
=============================================================================
