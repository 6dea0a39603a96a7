---------------------------- MODULE TargetsProofs ----------------------------
(***************************************************************************)
(* Proofs about Targets, for any number of slots, applications, parents,   *)
(* and any set of calls that may fail.                                     *)
(***************************************************************************)
EXTENDS Targets, FiniteSetTheorems, TLAPS

\* get_lpad_pid returns a launchpad pid or nothing.
LEMMA LpadType ==
  ASSUME NEW p, lpad_pid \in LpadPids \cup {UNKNOWN_PID}
  PROVE  get_lpad_pid(p) \in LpadPids \cup {UNKNOWN_PID}
  BY DEF get_lpad_pid

\* target_set_type keeps the types of what it writes.
LEMMA SetTypeType ==
  ASSUME TypeOK, NEW s \in Slots, target_set_type(s)
  PROVE  /\ lpad_pid' \in LpadPids \cup {UNKNOWN_PID}
         /\ app_type' \in [Slots -> {"unknown", "common", "tizen"}]
<1>1. get_lpad_pid(ppid[s]) \in LpadPids \cup {UNKNOWN_PID}
  BY LpadType DEF TypeOK
<1>2. lpad_pid' \in LpadPids \cup {UNKNOWN_PID}
  BY <1>1 DEF target_set_type, TypeOK
<1> QED BY <1>2 DEF target_set_type, TypeOK

\* terminate_all keeps the types of what it writes.
LEMMA TerminateType ==
  ASSUME TypeOK, NEW use, NEW next \in {"none", "stop_all"}, terminate_all(use, next)
  PROVE  /\ stop_sent' \in [Slots -> 0..1]
         /\ main' = "wait_all" /\ cur' = 0 /\ after' = next
         /\ cur' \in 0 .. MAX_TARGET_COUNT
<1>1. stop_sent' \in [Slots -> 0..1]
  BY DEF terminate_all, TypeOK
<1> QED BY <1>1, SlotAssumption DEF terminate_all

(***************************************************************************)
(* Type correctness of the target table, its threads and the main loop.    *)
(***************************************************************************)
THEOREM TypeCorrect == Spec => []TypeOK
<1> USE SlotAssumption
<1>1. Init => TypeOK
  BY DEF Init, TypeOK, Slots, ThreadStates
<1>2. TypeOK /\ [Next]_vars => TypeOK'
  <2> SUFFICES ASSUME TypeOK, [Next]_vars PROVE TypeOK'
    OBVIOUS
  <2>1. ASSUME NEW s \in Slots, TargetConnect(s) PROVE TypeOK'
    BY <2>1 DEF TargetConnect, TypeOK, ThreadStates, EFD_INITVAL, sessionVars, mainVars
  <2>2. ASSUME NEW s \in Slots, TargetConnectFail(s) PROVE TypeOK'
    <3>1. PICK f \in ConnectFaults : ConnectFailed(s, f)
      BY <2>2 DEF TargetConnectFail
    <3>2. /\ target_use' \in [Slots -> 0..1]
          /\ event_fd' \in [Slots -> Int]
          /\ stop_sent' \in [Slots -> 0..1]
          /\ main' \in {"loop", "wait_all"}
          /\ cur' \in 0 .. MAX_TARGET_COUNT
          /\ after' \in {"none", "stop_all"}
      <4>1. CASE target_cnt = 0
        <5>1. terminate_all(target_use', "none")
          BY <3>1, <4>1 DEF ConnectFailed
        <5> QED BY <5>1, <3>1, <4>1, TerminateType DEF ConnectFailed, TypeOK, EFD_INITVAL
      <4>2. CASE target_cnt # 0
        BY <3>1, <4>2, <2>2 DEF ConnectFailed, TypeOK, mainVars, TargetConnectFail
      <4> QED BY <4>1, <4>2
    <3> QED BY <3>2, <2>2 DEF TargetConnectFail, TypeOK, sessionVars
  <2>3. ASSUME NEW s \in Slots, TargetConnectCrash(s) PROVE TypeOK'
    BY <2>3 DEF TargetConnectCrash, TypeOK, sessionVars
  <2>4. ASSUME NEW s \in Slots, RecvEnd(s) PROVE TypeOK'
    BY <2>4 DEF RecvEnd, Post, EVENT_STOP, TypeOK, ThreadStates, sessionVars, mainVars
  <2>5. ASSUME NEW s \in Slots, RecvExit(s) PROVE TypeOK'
    BY <2>5 DEF RecvExit, TypeOK, ThreadStates, sessionVars, mainVars
  <2>6. ASSUME NEW s \in Slots, RecvPid(s) PROVE TypeOK'
    BY <2>6 DEF RecvPid, Post, EVENT_PID, TypeOK, sessionVars, mainVars
  <2>7. ASSUME NEW s \in Slots, RecvOther(s) PROVE TypeOK'
    BY <2>7 DEF RecvOther, TypeOK, ThreadStates, sessionVars, mainVars
  <2>8. ASSUME NEW s \in Slots, RecvPass(s) PROVE TypeOK'
    BY <2>8 DEF RecvPass, TypeOK, ThreadStates, sessionVars, mainVars
  <2>9. ASSUME NEW s \in Slots, PidRefused(s) PROVE TypeOK'
    BY <2>9, SetTypeType DEF PidRefused, EventRead, TypeOK, sessionVars, mainVars
  <2>10. ASSUME NEW s \in Slots, PidAccepted(s) PROVE TypeOK'
    <3>1. /\ handler' \in [Slots -> 0..1]
          /\ main' \in {"loop", "reap", "wait_all", "crashed"}
          /\ cur' \in 0 .. MAX_TARGET_COUNT
          /\ after' \in {"none", "stop_all"}
      BY <2>10 DEF PidAccepted, BeginReap, TypeOK, mainVars, Slots
    <3> QED BY <3>1, <2>10, SetTypeType DEF PidAccepted, EventRead, TypeOK
  <2>11. ASSUME NEW s \in Slots, OtherEvent(s) PROVE TypeOK'
    <3>1. /\ handler' \in [Slots -> 0..1]
          /\ main' \in {"loop", "reap", "wait_all", "crashed"}
          /\ cur' \in 0 .. MAX_TARGET_COUNT
          /\ after' \in {"none", "stop_all"}
      BY <2>11 DEF OtherEvent, BeginReap, TypeOK, mainVars, Slots
    <3> QED BY <3>1, <2>11 DEF OtherEvent, EventRead, TypeOK, sessionVars
  <2>12. CASE Reap
    <3>1. /\ stop_sent' \in [Slots -> 0..1]
          /\ main' \in {"loop", "wait_all"}
          /\ cur' \in 0 .. MAX_TARGET_COUNT
          /\ after' \in {"none", "stop_all"}
      <4>1. CASE terminate_all(target_use', "stop_all")
        BY <4>1, TerminateType
      <4>2. CASE main' = "loop" /\ UNCHANGED <<stop_sent, cur, after>>
        BY <4>2 DEF TypeOK
      <4> QED BY <4>1, <4>2, <2>12 DEF Reap
    <3>2. recv' \in [Slots -> ThreadStates]
      BY <2>12 DEF Reap, TypeOK, ThreadStates
    <3> QED BY <3>1, <3>2, <2>12 DEF Reap, TypeOK, sessionVars
  <2>13. CASE WaitNext
    BY <2>13 DEF WaitNext, TypeOK, ThreadStates, sessionVars
  <2>14. CASE WaitDone
    BY <2>14 DEF WaitDone, TypeOK, slotVars
  <2>15. ASSUME NEW new \in SUBSET Apps, HostStart(new) PROVE TypeOK'
    <3>1. /\ stop_sent' \in [Slots -> 0..1]
          /\ main' \in {"loop", "wait_all"}
          /\ cur' \in 0 .. MAX_TARGET_COUNT
          /\ after' \in {"none", "stop_all"}
          /\ maps' \in 0..1 /\ running' \in 0..1
      <4>1. CASE terminate_all(target_use, "stop_all") /\ maps' = 1 /\ running' = 1
        BY <4>1, TerminateType
      <4>2. CASE /\ UNCHANGED <<stop_sent, mainVars>>
                 /\ maps' \in {maps, 1} /\ running' \in {running, 1}
        BY <4>2, <2>15 DEF TypeOK, mainVars, HostStart
      <4> QED BY <4>1, <4>2, <2>15 DEF HostStart
    <3> QED BY <3>1, <2>15 DEF HostStart, TypeOK
  <2>16. CASE HostStop
    BY <2>16, TerminateType DEF HostStop, TypeOK, sessionVars
  <2>17. CASE HostInst
    BY <2>17 DEF HostInst, TypeOK, slotVars, mainVars
  <2>18. CASE ReplayEnds
    BY <2>18 DEF ReplayEnds, TypeOK, slotVars, mainVars
  <2>19. CASE UNCHANGED vars
    BY <2>19 DEF vars, slotVars, sessionVars, mainVars, TypeOK
  <2> QED
    BY <2>1, <2>2, <2>3, <2>4, <2>5, <2>6, <2>7, <2>8, <2>9, <2>10, <2>11,
       <2>12, <2>13, <2>14, <2>15, <2>16, <2>17, <2>18, <2>19
    DEF Next, SlotStep, MainStep, Crashed
<1> QED BY <1>1, <1>2, PTL DEF Spec

-----------------------------------------------------------------------------
\* The initial value of the counter is out of the way of the event bits.
LEMMA InitValue ==
  /\ EFD_INITVAL \in Nat /\ EFD_INITVAL > 7
  /\ \A e \in {0, 1, 2, 3} : \A b \in {1, 2, 4} :
       HasEvent(EFD_INITVAL + e, b) = HasEvent(e, b)
  BY SMT DEF EFD_INITVAL, HasEvent

LEMMA InitRange == EFD_INITVAL \in Nat /\ EFD_INITVAL > 7
  BY InitValue

\* Which events each value of the counter stands for.
LEMMA EventBits ==
  \A u \in {0, EFD_INITVAL} :
    /\ ~HasEvent(u, EVENT_PID) /\ ~StopRequested(u)
    /\ HasEvent(u + 2, EVENT_PID) /\ ~StopRequested(u + 2)
    /\ ~HasEvent(u + 1, EVENT_PID) /\ HasEvent(u + 1, EVENT_STOP) /\ StopRequested(u + 1)
    /\ HasEvent(u + 3, EVENT_PID) /\ HasEvent(u + 3, EVENT_STOP) /\ StopRequested(u + 3)
<1>1. \A e \in {0, 1, 2, 3} :
        /\ HasEvent(e, EVENT_PID) <=> e \in {2, 3}
        /\ HasEvent(e, EVENT_STOP) <=> e \in {1, 3}
        /\ ~HasEvent(e, EVENT_ERROR)
  BY SMT DEF HasEvent, EVENT_PID, EVENT_STOP, EVENT_ERROR
<1>2. \A e \in {0, 1, 2, 3} :
        /\ HasEvent(EFD_INITVAL + e, EVENT_PID) <=> e \in {2, 3}
        /\ HasEvent(EFD_INITVAL + e, EVENT_STOP) <=> e \in {1, 3}
        /\ ~HasEvent(EFD_INITVAL + e, EVENT_ERROR)
  BY <1>1, InitValue, SMT DEF EVENT_PID, EVENT_STOP, EVENT_ERROR
<1>3. EFD_INITVAL + 0 = EFD_INITVAL
  BY InitValue
<1> QED BY <1>1, <1>2, <1>3, SMT DEF StopRequested

\* What a read of the counter tells the main loop about a slot.
LEMMA EventRead_Meaning ==
  ASSUME TypeOK, NEW s \in Slots, SlotInv(s), event_fd[s] > 0
  PROVE  /\ HasEvent(event_fd[s], EVENT_PID) <=>
              Shows(s, {EVENT_PID, EVENT_STOP + EVENT_PID})
         /\ StopRequested(event_fd[s]) <=> Ended(s)
         /\ HasEvent(event_fd[s], EVENT_STOP) <=> Ended(s)
<1>0. recv[s] \in ThreadStates /\ event_fd[s] \in Int
  BY DEF TypeOK
<1>1. \E u \in {0, EFD_INITVAL}, e \in {0, 1, 2, 3} :
        /\ event_fd[s] = u + e
        /\ e \in {1, 3} <=> Ended(s)
  BY <1>0, InitValue, SMT
  DEF SlotInv, Shows, Ended, ThreadStates, EVENT_PID, EVENT_STOP
<1>2. PICK u \in {0, EFD_INITVAL}, e \in {0, 1, 2, 3} :
        /\ event_fd[s] = u + e
        /\ e \in {1, 3} <=> Ended(s)
  BY <1>1
<1>3. Shows(s, {EVENT_PID, EVENT_STOP + EVENT_PID}) <=> e \in {2, 3}
  BY <1>2, InitValue, SMT DEF Shows, EVENT_PID, EVENT_STOP
<1>4. u + 0 = u
  BY InitValue
<1>5. ~HasEvent(u, EVENT_STOP)
  BY EventBits DEF StopRequested
<1>6. ~HasEvent(u + 2, EVENT_STOP)
  BY EventBits DEF StopRequested
<1> QED BY <1>2, <1>3, <1>4, <1>5, <1>6, EventBits

\* A slot none of whose fields changes keeps its invariant.
LEMMA SlotFrame ==
  ASSUME NEW r \in Slots, SlotInv(r),
         event_fd'[r] = event_fd[r], recv'[r] = recv[r], pid'[r] = pid[r],
         initial_log'[r] = initial_log[r], run_flag'[r] = run_flag[r],
         target_use'[r] = target_use[r], handler'[r] = handler[r]
  PROVE  SlotInv(r)'
  BY DEF SlotInv, Shows, Ended

(***************************************************************************)
(* Each step keeps what the slots, their threads and the main loop agree   *)
(* on, whatever fails and however the threads interleave.                  *)
(***************************************************************************)
LEMMA SlotsConsistentStep ==
  TypeOK /\ SlotsConsistent /\ [Next]_vars => SlotsConsistent'
<1> USE SlotAssumption
<1>1. SUFFICES ASSUME TypeOK, SlotsConsistent, [Next]_vars PROVE SlotsConsistent'
  OBVIOUS
<1>2. SlotsConsistent'
  <2>0. TypeOK /\ MainInv /\ \A s \in Slots : SlotInv(s)
    BY <1>1 DEF SlotsConsistent
  <2>1. ASSUME NEW s \in Slots, TargetConnect(s) PROVE SlotsConsistent'
    <3>1. SlotInv(s)'
      BY <2>0, <2>1, InitRange, SMT
      DEF TargetConnect, FirstFree, EVENT_PID, EVENT_STOP, SlotInv, Shows, Ended, TypeOK
    <3>2. ASSUME NEW r \in Slots, r # s PROVE SlotInv(r)'
      BY <2>0, <2>1, <3>2, SlotFrame DEF TargetConnect, FirstFree, TypeOK
    <3>3. MainInv'
      BY <2>0, <2>1 DEF TargetConnect, FirstFree, MainInv, TypeOK, mainVars
    <3> QED BY <3>1, <3>2, <3>3 DEF SlotsConsistent
  <2>2. ASSUME NEW s \in Slots, TargetConnectFail(s) PROVE SlotsConsistent'
    <3>1. PICK f \in ConnectFaults : ConnectFailed(s, f)
      BY <2>2 DEF TargetConnectFail
    <3>2. /\ recv[s] = "none" /\ event_fd[s] = -1 /\ handler[s] = 0
          /\ target_use[s] = 0
      BY <2>0, <2>2 DEF TargetConnectFail, FirstFree, SlotInv
    <3>3. SlotInv(s)'
      BY <2>0, <2>2, <3>1, <3>2, InitRange, SMT
      DEF TargetConnectFail, ConnectFailed, EVENT_PID, EVENT_STOP, SlotInv, Shows,
          Ended, TypeOK
    <3>4. ASSUME NEW r \in Slots, r # s PROVE SlotInv(r)'
      BY <2>0, <2>2, <3>1, <3>4, SlotFrame DEF TargetConnectFail, ConnectFailed, TypeOK
    <3>5. MainInv'
      BY <2>0, <2>2, <3>1 DEF TargetConnectFail, ConnectFailed, terminate_all, MainInv,
                              TypeOK, mainVars, Slots
    <3> QED BY <3>3, <3>4, <3>5 DEF SlotsConsistent
  <2>3. ASSUME NEW s \in Slots, TargetConnectCrash(s) PROVE SlotsConsistent'
    <3>1. SlotInv(s)'
      BY <2>0, <2>3, InitRange, SMT
      DEF TargetConnectCrash, FirstFree, SlotInv, Shows, Ended, TypeOK
    <3>2. ASSUME NEW r \in Slots, r # s PROVE SlotInv(r)'
      BY <2>0, <2>3, <3>2, SlotFrame DEF TargetConnectCrash, FirstFree, TypeOK
    <3>3. MainInv'
      BY <2>0, <2>3 DEF TargetConnectCrash, FirstFree, MainInv, TypeOK, mainVars
    <3> QED BY <3>1, <3>2, <3>3 DEF SlotsConsistent
  <2>4. ASSUME NEW s \in Slots, RecvEnd(s) PROVE SlotsConsistent'
    <3>1. SlotInv(s)'
      BY <2>0, <2>4, InitRange, SMT
      DEF RecvEnd, Receiving, Post, EVENT_STOP, EVENT_PID, SlotInv, Shows, Ended, TypeOK
    <3>2. ASSUME NEW r \in Slots, r # s PROVE SlotInv(r)'
      BY <2>0, <2>4, <3>2, SlotFrame DEF RecvEnd, Receiving, Post, EVENT_STOP, EVENT_PID, TypeOK
    <3>3. MainInv'
      BY <2>0, <2>4 DEF RecvEnd, Receiving, Post, EVENT_STOP, EVENT_PID, MainInv, TypeOK, mainVars
    <3> QED BY <3>1, <3>2, <3>3 DEF SlotsConsistent
  <2>5. ASSUME NEW s \in Slots, RecvExit(s) PROVE SlotsConsistent'
    <3>1. SlotInv(s)'
      BY <2>0, <2>5, InitRange, SMT
      DEF RecvExit, SlotInv, Shows, Ended, TypeOK
    <3>2. ASSUME NEW r \in Slots, r # s PROVE SlotInv(r)'
      BY <2>0, <2>5, <3>2, SlotFrame DEF RecvExit, TypeOK
    <3>3. MainInv'
      BY <2>0, <2>5 DEF RecvExit, MainInv, TypeOK, mainVars
    <3> QED BY <3>1, <3>2, <3>3 DEF SlotsConsistent
  <2>6. ASSUME NEW s \in Slots, RecvPid(s) PROVE SlotsConsistent'
    <3>1. SlotInv(s)'
      BY <2>0, <2>6, InitRange, SMT, PidAssumption
      DEF RecvPid, Receiving, FirstPid, Post, EVENT_STOP, EVENT_PID, SlotInv, Shows, Ended, TypeOK
    <3>2. ASSUME NEW r \in Slots, r # s PROVE SlotInv(r)'
      BY <2>0, <2>6, <3>2, SlotFrame DEF RecvPid, Receiving, FirstPid, Post, EVENT_STOP, EVENT_PID, TypeOK
    <3>3. MainInv'
      BY <2>0, <2>6 DEF RecvPid, Receiving, FirstPid, Post, EVENT_STOP, EVENT_PID, MainInv, TypeOK, mainVars
    <3> QED BY <3>1, <3>2, <3>3 DEF SlotsConsistent
  <2>7. ASSUME NEW s \in Slots, RecvOther(s) PROVE SlotsConsistent'
    <3>1. SlotInv(s)'
      BY <2>0, <2>7, InitRange, SMT
      DEF RecvOther, Receiving, SlotInv, Shows, Ended, TypeOK
    <3>2. ASSUME NEW r \in Slots, r # s PROVE SlotInv(r)'
      BY <2>0, <2>7, <3>2, SlotFrame DEF RecvOther, Receiving, TypeOK
    <3>3. MainInv'
      BY <2>0, <2>7 DEF RecvOther, Receiving, MainInv, TypeOK, mainVars
    <3> QED BY <3>1, <3>2, <3>3 DEF SlotsConsistent
  <2>8. ASSUME NEW s \in Slots, RecvPass(s) PROVE SlotsConsistent'
    <3>1. SlotInv(s)'
      BY <2>0, <2>8, InitRange, SMT
      DEF RecvPass, SlotInv, Shows, Ended, TypeOK
    <3>2. ASSUME NEW r \in Slots, r # s PROVE SlotInv(r)'
      BY <2>0, <2>8, <3>2, SlotFrame DEF RecvPass, TypeOK
    <3>3. MainInv'
      BY <2>0, <2>8 DEF RecvPass, MainInv, TypeOK, mainVars
    <3> QED BY <3>1, <3>2, <3>3 DEF SlotsConsistent
  <2>9. ASSUME NEW s \in Slots, PidRefused(s) PROVE SlotsConsistent'
    <3>1. SlotInv(s)'
      BY <2>0, <2>9, InitRange, SMT, EventRead_Meaning
      DEF PidRefused, Readable, EventRead, EVENT_PID, EVENT_STOP, SlotInv, Shows, Ended, TypeOK
    <3>2. ASSUME NEW r \in Slots, r # s PROVE SlotInv(r)'
      BY <2>0, <2>9, <3>2, SlotFrame DEF PidRefused, Readable, EventRead, EVENT_PID, EVENT_STOP, TypeOK
    <3>3. MainInv'
      BY <2>0, <2>9 DEF PidRefused, Readable, EventRead, EVENT_PID, EVENT_STOP, MainInv, TypeOK, mainVars
    <3> QED BY <3>1, <3>2, <3>3 DEF SlotsConsistent
  <2>10. ASSUME NEW s \in Slots, PidAccepted(s) PROVE SlotsConsistent'
    <3>1. SlotInv(s)'
      BY <2>0, <2>10, InitRange, SMT, EventRead_Meaning
      DEF PidAccepted, Readable, EventRead, BeginReap, EVENT_PID, EVENT_STOP, SlotInv, Shows, Ended, TypeOK
    <3>2. ASSUME NEW r \in Slots, r # s PROVE SlotInv(r)'
      BY <2>0, <2>10, <3>2, SlotFrame DEF PidAccepted, Readable, EventRead, BeginReap, EVENT_PID, EVENT_STOP, TypeOK
    <3>3. MainInv'
      BY <2>0, <2>10
      DEF PidAccepted, Readable, BeginReap, SlotInv, MainInv, TypeOK, mainVars
    <3> QED BY <3>1, <3>2, <3>3 DEF SlotsConsistent
  <2>11. ASSUME NEW s \in Slots, OtherEvent(s) PROVE SlotsConsistent'
    <3>1. SlotInv(s)'
      BY <2>0, <2>11, InitRange, SMT, EventRead_Meaning
      DEF OtherEvent, Readable, EventRead, BeginReap, EVENT_PID, EVENT_STOP, SlotInv, Shows, Ended, TypeOK
    <3>2. ASSUME NEW r \in Slots, r # s PROVE SlotInv(r)'
      BY <2>0, <2>11, <3>2, SlotFrame DEF OtherEvent, Readable, EventRead, BeginReap, EVENT_PID, EVENT_STOP, TypeOK
    <3>3. MainInv'
      BY <2>0, <2>11
      DEF OtherEvent, Readable, BeginReap, SlotInv, MainInv, TypeOK, mainVars
    <3> QED BY <3>1, <3>2, <3>3 DEF SlotsConsistent
  <2>12. CASE Reap
    <3>0. PICK c \in Slots : c = cur
      BY <2>0, <2>12 DEF Reap, MainInv
    <3>1. SlotInv(c) /\ handler[c] = 0
      BY <2>0, <2>12, <3>0 DEF Reap, MainInv
    <3>2. recv[c] \notin Alive
      BY <2>0, <2>12, <3>0, <3>1
      DEF Reap, Joinable, Alive, SlotInv, TypeOK
    <3>3. /\ recv'[c] = "none" /\ event_fd'[c] = -1 /\ initial_log'[c] = 0
          /\ run_flag'[c] = 0 /\ target_use'[c] = 0 /\ handler'[c] = 0
      BY <2>0, <2>12, <3>0, <3>1, <3>2 DEF Reap, TypeOK
    <3>4. SlotInv(c)'
      BY <3>3, InitRange, SMT DEF SlotInv, Shows, Ended, EVENT_PID, EVENT_STOP
    <3>5. ASSUME NEW r \in Slots, r # c PROVE SlotInv(r)'
      BY <2>0, <2>12, <3>0, <3>5, SlotFrame DEF Reap, TypeOK
    <3>6. MainInv'
      BY <2>0, <2>12 DEF Reap, terminate_all, MainInv, TypeOK, Slots
    <3> QED BY <3>4, <3>5, <3>6 DEF SlotsConsistent
  <2>13. CASE WaitNext
    <3>0. PICK c \in Slots : c = cur
      BY <2>0, <2>13 DEF WaitNext, Slots, TypeOK
    <3>1. SlotInv(c)
      BY <2>0
    <3>2. run_flag'[c] = 0
      BY <2>0, <2>13, <3>0, <3>1 DEF WaitNext, SlotInv, TypeOK
    <3>3. SlotInv(c)'
      <4>1. CASE target_use[c] = 1 /\ run_flag[c] = 1
        <5>1. recv[c] = "done" /\ recv'[c] = "joined"
          BY <2>0, <2>13, <3>0, <4>1 DEF WaitNext, Joinable, Alive, TypeOK
        <5> QED BY <2>13, <3>1, <3>2, <4>1, <5>1 DEF WaitNext, SlotInv, Shows, Ended
      <4>2. CASE ~(target_use[c] = 1 /\ run_flag[c] = 1)
        BY <2>13, <3>0, <3>1, <4>2, SlotFrame DEF WaitNext
      <4> QED BY <4>1, <4>2
    <3>4. ASSUME NEW r \in Slots, r # c PROVE SlotInv(r)'
      BY <2>0, <2>13, <3>0, <3>4, SlotFrame DEF WaitNext, TypeOK
    <3>5. MainInv'
      BY <2>0, <2>13, <3>0, <3>2 DEF WaitNext, MainInv, TypeOK, Slots
    <3> QED BY <3>3, <3>4, <3>5 DEF SlotsConsistent
  <2>14. ASSUME UNCHANGED <<target_use, run_flag, recv, event_fd, handler, pid, initial_log>>
         PROVE  \A s \in Slots : SlotInv(s)'
    BY <2>0, <2>14, SlotFrame
  <2>15. CASE WaitDone
    BY <2>0, <2>14, <2>15 DEF WaitDone, slotVars, MainInv, SlotsConsistent
  <2>16. ASSUME NEW new \in SUBSET Apps, HostStart(new) PROVE SlotsConsistent'
    <3>1. MainInv'
      BY <2>0, <2>16 DEF HostStart, terminate_all, MainInv, mainVars, TypeOK, Slots
    <3> QED BY <2>14, <2>16, <3>1 DEF HostStart, SlotsConsistent
  <2>17. CASE HostStop
    <3>1. MainInv'
      BY <2>0, <2>17 DEF HostStop, terminate_all, MainInv, TypeOK, Slots
    <3> QED BY <2>14, <2>17, <3>1 DEF HostStop, SlotsConsistent
  <2>18. CASE HostInst
    BY <2>0, <2>14, <2>18 DEF HostInst, slotVars, mainVars, MainInv, SlotsConsistent
  <2>19. CASE ReplayEnds
    BY <2>0, <2>14, <2>19 DEF ReplayEnds, slotVars, mainVars, MainInv, SlotsConsistent
  <2>20. CASE UNCHANGED vars
    BY <2>0, <2>14, <2>20 DEF vars, slotVars, mainVars, MainInv, SlotsConsistent
  <2> QED
    BY <1>1, <2>1, <2>2, <2>3, <2>4, <2>5, <2>6, <2>7, <2>8, <2>9, <2>10, <2>11,
       <2>12, <2>13, <2>15, <2>16, <2>17, <2>18, <2>19, <2>20
    DEF Next, SlotStep, MainStep, Crashed
<1> QED BY <1>2

(***************************************************************************)
(* In every reachable state the slots, their threads and the main loop     *)
(* agree.                                                                  *)
(***************************************************************************)
THEOREM SlotsAgree == Spec => []SlotsConsistent
<1>1. Init => SlotsConsistent
  <2>1. Init => \A s \in Slots : SlotInv(s)
    BY InitRange, SMT DEF Init, SlotInv, Shows, Ended, EVENT_PID, EVENT_STOP
  <2> QED BY <2>1 DEF Init, SlotsConsistent, MainInv
<1> QED BY <1>1, SlotsConsistentStep, TypeCorrect, PTL DEF Spec

-----------------------------------------------------------------------------
\* The counter values that a consistent slot can show.
LEMMA SlotCounter ==
  ASSUME TypeOK, NEW s \in Slots, SlotInv(s)
  PROVE  event_fd[s] \in {-1} \cup 0 .. 3 \cup EFD_INITVAL .. EFD_INITVAL + 3
<1>1. recv[s] \in ThreadStates /\ event_fd[s] \in Int
  BY DEF TypeOK
<1> QED BY <1>1, InitRange, SMT DEF SlotInv, Shows, Ended, ThreadStates, EVENT_PID, EVENT_STOP

(***************************************************************************)
(* The additive eventfd counter always reads as the set of events that     *)
(* the receiving thread posted.                                            *)
(***************************************************************************)
THEOREM CounterReadsAsEvents == Spec => []CounterIsEventSet
<1>1. EVENT_STOP + EVENT_PID = 3 /\ EFD_INITVAL + EVENT_STOP + EVENT_PID = EFD_INITVAL + 3
  BY InitRange, SMT DEF EVENT_STOP, EVENT_PID
<1>2. TypeOK /\ SlotsConsistent => CounterIsEventSet
  BY <1>1, SlotCounter DEF SlotsConsistent, CounterIsEventSet
<1> QED BY <1>2, TypeCorrect, SlotsAgree, PTL

(***************************************************************************)
(* No thread, handler or open eventfd outlives its slot.                   *)
(***************************************************************************)
THEOREM FreeSlotIsUnused == Spec => []FreeSlotUnused
<1>1. TypeOK /\ SlotsConsistent => FreeSlotUnused
  BY DEF TypeOK, SlotsConsistent, SlotInv, FreeSlotUnused
<1> QED BY <1>1, TypeCorrect, SlotsAgree, PTL

(***************************************************************************)
(* A stop message is lost only together with a refused EVENT_PID.          *)
(***************************************************************************)
THEOREM StopLoss == Spec => []StopLostOnlyWithRefusedPid
<1>1. ASSUME TypeOK, SlotsConsistent PROVE StopLostOnlyWithRefusedPid
  <2> SUFFICES ASSUME NEW s \in Connected, Ended(s), ~StopPending(s)
               PROVE  pid[s] # UNKNOWN_PID /\ initial_log[s] = 0
    BY DEF StopLostOnlyWithRefusedPid
  <2>1. s \in Slots /\ SlotInv(s) /\ handler[s] = 1
    BY <1>1 DEF Connected, SlotsConsistent
  <2>2. ~(event_fd[s] > 0)
    BY <1>1, <2>1, EventRead_Meaning DEF StopPending
  <2>3. event_fd[s] = 0
    BY <1>1, <2>1, <2>2, InitRange, SMT
    DEF SlotInv, Shows, TypeOK, EVENT_PID, EVENT_STOP
  <2> QED BY <2>1, <2>3 DEF SlotInv
<1> QED BY <1>1, TypeCorrect, SlotsAgree, PTL

(***************************************************************************)
(* When stop_all closes the session, every receiving thread was joined.    *)
(***************************************************************************)
THEOREM StopJoinsReaders == Spec => StopLeavesNoReader
<1>1. ASSUME TypeOK, SlotsConsistent, [Next]_vars, running = 1, running' = 0
      PROVE  \A s \in Slots : recv'[s] \in {"none", "failed", "joined"}
  <2>1. WaitDone
    BY <1>1
    DEF Next, SlotStep, MainStep, TargetConnect, TargetConnectFail, TargetConnectCrash,
        RecvEnd, RecvExit, RecvPid, RecvOther, RecvPass, PidRefused, PidAccepted,
        OtherEvent, Reap, WaitNext, HostStart, HostStop, HostInst, ReplayEnds, Crashed,
        sessionVars, vars
  <2>2. \A s \in Slots : run_flag[s] = 0
    BY <1>1, <2>1, SlotAssumption DEF WaitDone, SlotsConsistent, MainInv, Slots
  <2> QED BY <1>1, <2>1, <2>2
          DEF WaitDone, slotVars, SlotsConsistent, SlotInv, TypeOK, ThreadStates
<1> QED BY <1>1, TypeCorrect, SlotsAgree, PTL DEF Spec, StopLeavesNoReader

-----------------------------------------------------------------------------
\* The targets that target_cnt counts.
Counted == Connected \cup Reaping

\* They are finitely many.
LEMMA CountedFinite == TypeOK /\ MainInv => Counted \subseteq Slots /\ IsFiniteSet(Counted)
<1>1. IsFiniteSet(Slots)
  BY FS_Interval, SlotAssumption DEF Slots
<1>2. TypeOK /\ MainInv => Counted \subseteq Slots
  BY DEF Counted, Connected, Reaping, MainInv
<1> QED BY <1>1, <1>2, FS_Subset

\* A step that neither adds nor removes a counted target keeps the count.
LEMMA CountFrame ==
  ASSUME TargetCntExact, UNCHANGED target_cnt, Counted' = Counted
  PROVE  TargetCntExact'
  BY DEF TargetCntExact, Counted

\* Moving a watched slot to the reaping one keeps the counted targets.
LEMMA ReapCounts ==
  ASSUME TypeOK, NEW s \in Slots, Readable(s),
         BeginReap(s) \/ UNCHANGED <<handler, mainVars>>
  PROVE  Counted' = Counted
<1>1. main = "loop" /\ handler[s] = 1
  BY DEF Readable
<1>2. CASE BeginReap(s)
  <2>1. Reaping' = {s} /\ Reaping = {}
    BY <1>1, <1>2 DEF BeginReap, Reaping
  <2>2. Connected' = Connected \ {s} /\ s \in Connected
    BY <1>1, <1>2 DEF BeginReap, Connected, TypeOK
  <2> QED BY <2>1, <2>2 DEF Counted
<1>3. CASE UNCHANGED <<handler, mainVars>>
  BY <1>3 DEF Counted, Connected, Reaping, mainVars
<1> QED BY <1>2, <1>3

(***************************************************************************)
(* Each step counts the targets it connects and reaps, and no other.       *)
(***************************************************************************)
LEMMA TargetCntStep ==
  ASSUME TypeOK, SlotsConsistent, TargetCntExact, [Next]_vars
  PROVE  TargetCntExact'
<1> USE DEF mainVars
<1>0. /\ \A s \in Slots : SlotInv(s)
      /\ MainInv /\ Counted \subseteq Slots /\ IsFiniteSet(Counted)
  BY CountedFinite DEF SlotsConsistent
<1>1. ASSUME NEW s \in Slots, TargetConnect(s) PROVE TargetCntExact'
  <2>1. s \notin Counted
    BY <1>0, <1>1 DEF TargetConnect, FirstFree, SlotInv, Counted, Connected, Reaping
  <2>2. Counted' = Counted \cup {s}
    BY <1>1 DEF TargetConnect, Counted, Connected, Reaping, TypeOK
  <2> QED BY <1>0, <1>1, <2>1, <2>2, FS_AddElement DEF TargetConnect, TargetCntExact, Counted
<1>2. ASSUME NEW s \in Slots, TargetConnectFail(s) PROVE TargetCntExact'
  <2>1. main = "loop" /\ main' \in {"loop", "wait_all"} /\ UNCHANGED <<handler, target_cnt>>
    BY <1>2 DEF TargetConnectFail, ConnectFailed, terminate_all
  <2> QED BY <2>1, CountFrame DEF Counted, Connected, Reaping
<1>3. ASSUME NEW s \in Slots, TargetConnectCrash(s) PROVE TargetCntExact'
  BY <1>3, CountFrame DEF TargetConnectCrash, Counted, Connected, Reaping
<1>4. ASSUME UNCHANGED <<handler, target_cnt, mainVars>> PROVE TargetCntExact'
  BY <1>4, CountFrame DEF Counted, Connected, Reaping
<1>5. ASSUME NEW s \in Slots,
             RecvEnd(s) \/ RecvExit(s) \/ RecvPid(s) \/ RecvOther(s) \/ RecvPass(s)
      PROVE  TargetCntExact'
  BY <1>4, <1>5 DEF RecvEnd, RecvExit, RecvPid, RecvOther, RecvPass
<1>6. ASSUME NEW s \in Slots, PidRefused(s) PROVE TargetCntExact'
  BY <1>4, <1>6 DEF PidRefused
<1>7. ASSUME NEW s \in Slots, PidAccepted(s) PROVE TargetCntExact'
  BY <1>7, ReapCounts, CountFrame DEF PidAccepted
<1>8. ASSUME NEW s \in Slots, OtherEvent(s) PROVE TargetCntExact'
  BY <1>8, ReapCounts, CountFrame DEF OtherEvent
<1>9. CASE Reap
  <2>1. Reaping = {cur} /\ Reaping' = {} /\ cur \in Slots /\ handler[cur] = 0
    BY <1>0, <1>9 DEF Reap, Reaping, MainInv, terminate_all
  <2>2. Connected' = Connected /\ cur \notin Connected
    BY <1>9, <2>1 DEF Reap, Connected
  <2>3. Counted' = Counted \ {cur} /\ cur \in Counted
    BY <2>1, <2>2 DEF Counted
  <2> QED BY <1>0, <1>9, <2>3, FS_RemoveElement DEF Reap, TargetCntExact, Counted
<1>10. CASE WaitNext \/ WaitDone
  <2>1. main = "wait_all" /\ main' \in {"loop", "wait_all"} /\ UNCHANGED <<handler, target_cnt>>
    BY <1>10 DEF WaitNext, WaitDone, slotVars
  <2> QED BY <2>1, CountFrame DEF Counted, Connected, Reaping
<1>11. CASE HostStop \/ \E new \in SUBSET Apps : HostStart(new)
  <2>1. main = "loop" /\ main' \in {"loop", "wait_all"} /\ UNCHANGED <<handler, target_cnt>>
    BY <1>11 DEF HostStart, HostStop, terminate_all
  <2> QED BY <2>1, CountFrame DEF Counted, Connected, Reaping
<1>12. CASE HostInst \/ ReplayEnds \/ UNCHANGED vars
  BY <1>4, <1>12 DEF HostInst, ReplayEnds, vars, slotVars
<1> QED BY <1>1, <1>2, <1>3, <1>5, <1>6, <1>7, <1>8, <1>9, <1>10, <1>11, <1>12
        DEF Next, SlotStep, MainStep, Crashed

(***************************************************************************)
(* target_cnt is exactly the number of connected targets, so the session   *)
(* is ended by its last target and by no other.                            *)
(***************************************************************************)
THEOREM TargetCount == Spec => []TargetCntExact
<1>1. Init => TargetCntExact
  <2>1. Init => Connected \cup Reaping = {}
    BY DEF Init, Connected, Reaping
  <2> QED BY <2>1, FS_EmptySet DEF Init, TargetCntExact
<1> QED BY <1>1, TargetCntStep, TypeCorrect, SlotsAgree, PTL DEF Spec

(***************************************************************************)
(* Only a connection that fails while no target is connected leaks a slot, *)
(* and a leaked slot is never given back.                                  *)
(***************************************************************************)
THEOREM LeakCause == Spec => LeakOnlyWithoutTargets
<1>1. ASSUME TypeOK, SlotsConsistent, [Next]_vars, Leaked' # Leaked, main' # "crashed"
      PROVE  Leaked \subseteq Leaked' /\ target_cnt = 0
  <2> USE DEF mainVars
  <2>0. (\A s \in Slots : SlotInv(s)) /\ MainInv
    BY <1>1 DEF SlotsConsistent
  <2>1. ~(UNCHANGED target_use /\ Counted' = Counted)
    BY <1>1 DEF Leaked, Counted
  <2>2. ASSUME NEW s \in Slots, TargetConnect(s) PROVE FALSE
    <3>1. Counted' = Counted \cup {s}
      BY <1>1, <2>2 DEF TargetConnect, Counted, Connected, Reaping, TypeOK
    <3>2. \A r \in Slots : target_use'[r] = 1 <=> target_use[r] = 1 \/ r = s
      BY <1>1, <2>2 DEF TargetConnect, TypeOK
    <3>3. target_use[s] # 1
      BY <2>2 DEF TargetConnect, FirstFree
    <3> QED BY <1>1, <3>1, <3>2, <3>3 DEF Leaked, Counted
  <2>3. ASSUME NEW s \in Slots, TargetConnectFail(s)
        PROVE  Leaked \subseteq Leaked' /\ target_cnt = 0
    <3>1. PICK f \in ConnectFaults : ConnectFailed(s, f)
      BY <2>3 DEF TargetConnectFail
    <3>2. Counted' = Counted
      BY <2>3, <3>1
      DEF TargetConnectFail, ConnectFailed, terminate_all, Counted, Connected, Reaping
    <3>3. target_cnt = 0
      BY <2>1, <3>1, <3>2 DEF ConnectFailed
    <3>4. \A r \in Slots : target_use[r] = 1 => target_use'[r] = 1
      BY <1>1, <3>1, <3>3 DEF ConnectFailed, TypeOK
    <3> QED BY <3>2, <3>3, <3>4 DEF Leaked, Counted
  <2>4. ASSUME NEW s \in Slots, PidAccepted(s) \/ OtherEvent(s) PROVE FALSE
    BY <1>1, <2>1, <2>4, ReapCounts DEF PidAccepted, OtherEvent
  <2>5. CASE Reap
    <3>1. Reaping = {cur} /\ Reaping' = {} /\ cur \in Slots
      BY <2>0, <2>5 DEF Reap, Reaping, MainInv, terminate_all
    <3>2. Connected' = Connected
      BY <2>5 DEF Reap, Connected
    <3>3. \A r \in Slots : target_use'[r] = 1 <=> target_use[r] = 1 /\ r # cur
      BY <1>1, <2>5 DEF Reap, TypeOK
    <3> QED BY <1>1, <3>1, <3>2, <3>3 DEF Leaked
  <2>6. ASSUME UNCHANGED <<handler, target_use>>, main # "reap", main' # "reap" PROVE FALSE
    BY <2>1, <2>6 DEF Counted, Connected, Reaping
  <2>7. ASSUME UNCHANGED <<handler, target_use, mainVars>> PROVE FALSE
    BY <2>1, <2>7 DEF Counted, Connected, Reaping
  <2>8. ASSUME NEW s \in Slots,
               \/ RecvEnd(s) \/ RecvExit(s) \/ RecvPid(s) \/ RecvOther(s)
               \/ RecvPass(s) \/ PidRefused(s)
        PROVE  FALSE
    BY <2>7, <2>8 DEF RecvEnd, RecvExit, RecvPid, RecvOther, RecvPass, PidRefused
  <2>9. CASE WaitNext \/ WaitDone \/ HostStop \/ \E new \in SUBSET Apps : HostStart(new)
    BY <2>6, <2>9 DEF WaitNext, WaitDone, HostStop, HostStart, terminate_all, slotVars
  <2>10. CASE HostInst \/ ReplayEnds \/ UNCHANGED vars
    BY <2>7, <2>10 DEF HostInst, ReplayEnds, vars, slotVars
  <2>11. ASSUME NEW s \in Slots, TargetConnectCrash(s) PROVE FALSE
    BY <1>1, <2>11 DEF TargetConnectCrash
  <2> QED BY <1>1, <2>2, <2>3, <2>4, <2>5, <2>8, <2>9, <2>10, <2>11
          DEF Next, SlotStep, MainStep, Crashed
<1>2. TypeOK /\ SlotsConsistent /\ [Next]_vars =>
        (Leaked' # Leaked =>
           main' = "crashed" \/ (Leaked \subseteq Leaked' /\ target_cnt = 0))
  BY <1>1
<1> QED BY <1>2, TypeCorrect, SlotsAgree, PTL DEF Spec, LeakOnlyWithoutTargets
=============================================================================
