---------------------------- MODULE ReplayProofs -----------------------------
(***************************************************************************)
(* Proofs about Replay, for any set of threads and any number of STARTs    *)
(* and events.                                                             *)
(***************************************************************************)
EXTENDS Replay, TLAPS

(***************************************************************************)
(* Type correctness, with the mutex discipline of exit_replay_thread and   *)
(* stop_replay: the mutex has one owner and its owner is where it should   *)
(* be.                                                                     *)
(***************************************************************************)
THEOREM TypeCorrect == Spec => []TypeOK
<1> USE ThreadAssumption, BoundAssumption
<1>1. Init => TypeOK
  BY DEF Init, TypeOK, Live
<1>2. ASSUME TypeOK, [Next]_vars PROVE TypeOK'
  <2> USE <1>2 DEF TypeOK, Live, seqVars, threadVars
  <2>1. CASE Start
    BY <2>1 DEF Start, SeqParsed, SeqMalformed
  <2>2. CASE start_replay
    <3>1. PICK t \in Threads :
            /\ pc[t] = "unused" /\ replay_thread' = t
            /\ pc' = [pc EXCEPT ![t] = "begin"]
      BY <2>2 DEF start_replay
    <3> QED BY <2>2, <3>1 DEF start_replay
  <2>3. CASE stop_replay
    BY <2>3 DEF stop_replay
  <2>4. CASE StopJoined
    <3>1. pc' \in [Threads -> Live \cup {"unused", "cancelled", "returned", "joined"}]
      BY <2>4 DEF StopJoined
    <3>2. \A t \in Threads : pc'[t] = "locked" <=> pc[t] = "locked"
      BY <2>4 DEF StopJoined, Joined, Over
    <3>3. \A t \in Threads : pc[t] # "locked"
      BY <2>4 DEF StopJoined
    <3> QED BY <2>4, <3>1, <3>2, <3>3 DEF StopJoined, ResetSeq, Unlock
  <2>5. ASSUME NEW t \in Threads, Begin(t) PROVE TypeOK'
    BY <2>5 DEF Begin
  <2>6. ASSUME NEW t \in Threads, PlayEvent(t) PROVE TypeOK'
    <3>1. CASE cancel[t] = 0
      BY <2>6, <3>1 DEF PlayEvent
    <3>2. CASE cancel[t] = 1
      BY <2>6, <3>2 DEF PlayEvent
    <3> QED BY <2>6, <3>1, <3>2 DEF PlayEvent
  <2>7. ASSUME NEW t \in Threads, PlayDone(t) PROVE TypeOK'
    BY <2>7 DEF PlayDone
  <2>8. ASSUME NEW t \in Threads, ExitLock(t) PROVE TypeOK'
    BY <2>8 DEF ExitLock
  <2>9. ASSUME NEW t \in Threads, ExitUnlock(t) PROVE TypeOK'
    BY <2>9 DEF ExitUnlock, ResetSeq, Unlock
  <2>10. CASE UNCHANGED vars
    BY <2>10 DEF vars
  <2> QED BY <2>1, <2>2, <2>3, <2>4, <2>5, <2>6, <2>7, <2>8, <2>9, <2>10
          DEF Next, ThreadStep
<1> QED BY <1>1, <1>2, PTL DEF Spec

(***************************************************************************)
(* manager.replay_thread names every thread that is still running, so      *)
(* there is at most one.                                                   *)
(***************************************************************************)
THEOREM SinglePlayer == Spec => []OnePlayer
<1> USE ThreadAssumption
<1>1. Init => OnePlayer
  BY DEF Init, OnePlayer, Live
<1>2. ASSUME TypeOK, OnePlayer, [Next]_vars PROVE OnePlayer'
  <2> USE <1>2 DEF OnePlayer, Live, seqVars, threadVars
  <2>1. CASE start_replay
    <3>1. \A t \in Threads : pc[t] \notin Live
      BY <2>1 DEF start_replay, NotRegistered
    <3> QED BY <2>1, <3>1 DEF start_replay, TypeOK
  <2>2. CASE StopJoined
    <3>1. \A t \in Threads : pc'[t] \notin Live
      BY <2>2 DEF StopJoined, Joined, Over, TypeOK
    <3> QED BY <3>1
  <2>3. ASSUME NEW t \in Threads, ExitUnlock(t) PROVE OnePlayer'
    <3>1. \A r \in Threads \ {t} : pc[r] \notin Live
      BY <2>3 DEF ExitUnlock
    <3> QED BY <2>3, <3>1 DEF ExitUnlock, TypeOK
  <2>4. ASSUME NEW t \in Threads, Begin(t) \/ PlayEvent(t) \/ PlayDone(t) \/ ExitLock(t)
        PROVE  OnePlayer'
    <3>1. replay_thread' = replay_thread /\ pc[t] \in Live
      BY <2>4 DEF Begin, PlayEvent, PlayDone, ExitLock
    <3>2. \A r \in Threads \ {t} : pc'[r] = pc[r]
      BY <2>4 DEF Begin, PlayEvent, PlayDone, ExitLock, TypeOK
    <3> QED BY <3>1, <3>2
  <2>5. CASE Start \/ stop_replay \/ UNCHANGED vars
    BY <2>5 DEF Start, stop_replay, vars
  <2> QED BY <2>1, <2>2, <2>3, <2>4, <2>5 DEF Next, ThreadStep
<1> QED BY <1>1, <1>2, TypeCorrect, PTL DEF Spec

(***************************************************************************)
(* While a session runs, nobody frees the events under a thread that plays *)
(* them.                                                                   *)
(***************************************************************************)
THEOREM NoUseAfterFree == Spec => NoFreeUnderPlayer
<1> USE ThreadAssumption
<1>1. ASSUME TypeOK, OnePlayer, [Next]_vars, running = 1, events' # events
      PROVE  \A t \in Threads : pc[t] \notin {"begin", "play"}
  <2> USE <1>1 DEF OnePlayer, Live, seqVars
  <2>1. CASE StopJoined
    BY <2>1 DEF StopJoined, Joined, Over, TypeOK
  <2>2. ASSUME NEW t \in Threads, ExitUnlock(t)
        PROVE  \A r \in Threads : pc[r] \notin {"begin", "play"}
    BY <2>2 DEF ExitUnlock
  <2>3. \/ StopJoined
        \/ \E t \in Threads : ExitUnlock(t)
    BY DEF Next, ThreadStep, Start, start_replay, stop_replay, Begin, PlayEvent,
           PlayDone, ExitLock, vars
  <2> QED BY <2>1, <2>2, <2>3
<1> QED BY <1>1, TypeCorrect, SinglePlayer, PTL DEF Spec, NoFreeUnderPlayer
=============================================================================
