------------------------------- MODULE Replay --------------------------------
(***************************************************************************)
(* The replay of recorded input events: start_replay, stop_replay and the  *)
(* replay thread (threads.c), the event sequence that a START message      *)
(* carries (da_protocol.c), and the mutex between them.                    *)
(*                                                                         *)
(* The main loop and the replay threads interleave.  A thread that ends by *)
(* itself is never joined, so thread ids are used up; Threads bounds them. *)
(* An array of events is named by the number of the START that brought it; *)
(* 0 stands for none, or for one that was freed.                           *)
(***************************************************************************)
EXTENDS Naturals, FiniteSets

CONSTANTS
  Threads,     \* replay threads that may be created
  None,        \* no thread (-1), no owner
  Main,        \* the main thread as a mutex owner
  MaxStarts,   \* bound on START messages
  MaxEvents    \* bound on the events of one sequence

ASSUME ThreadAssumption == None \notin Threads /\ Main \notin Threads /\ None # Main
ASSUME BoundAssumption == MaxStarts \in Nat /\ MaxEvents \in Nat

VARIABLES
  mutex,          \* owner of replay_thread_mutex
  replay_thread,  \* manager.replay_thread
  pc,             \* where each thread is
  pos,            \* events it has written
  array,          \* array its pevent points into
  cancel,         \* pthread_cancel was called on it
  events,         \* prof_session.replay_event_seq.events
  event_num,
  starts,         \* START messages so far
  running,        \* prof_session.running_status
  listed,         \* app_inst_list is not empty
  main            \* "loop", or "join" inside stop_replay

threadVars == <<pc, pos, array, cancel>>
seqVars == <<events, event_num, starts>>
vars == <<mutex, replay_thread, threadVars, seqVars, running, listed, main>>

Init ==
  /\ mutex = None /\ replay_thread = None
  /\ pc = [t \in Threads |-> "unused"]
  /\ pos = [t \in Threads |-> 0]
  /\ array = [t \in Threads |-> 0]
  /\ cancel = [t \in Threads |-> 0]
  /\ events = 0 /\ event_num = 0 /\ starts = 0
  /\ running = 0 /\ listed = 0 /\ main = "loop"

-----------------------------------------------------------------------------
(***************************************************************************)
(* NMSG_START: parse_replay_event_seq fills the sequence without taking    *)
(* the mutex.  A sequence that is not enabled leaves the previous array    *)
(* and count alone; a malformed event frees the new array; a message that  *)
(* breaks off earlier changes nothing.  START may also fail later, and the *)
(* list of applications keeps what was parsed.                             *)
(***************************************************************************)
SeqParsed ==
  \/ events' = starts' /\ event_num' \in 0..MaxEvents
  \/ UNCHANGED <<events, event_num>>

SeqMalformed ==
  \/ events' = 0 /\ event_num' = 0
  \/ UNCHANGED <<events, event_num>>

Start ==
  /\ main = "loop" /\ running = 0 /\ starts < MaxStarts
  /\ starts' = starts + 1
  /\ listed' \in {listed, 1}
  /\ \/ SeqParsed /\ running' \in 0 .. listed'
     \/ SeqMalformed /\ running' = 0
  /\ UNCHANGED <<mutex, replay_thread, threadVars, main>>

NotStarted == TRUE  \* mutant: start_replay does not test manager.replay_thread

\* manager.replay_thread == -1
NotRegistered == replay_thread = None

\* EVENT_PID of a listed target; a registered thread makes it fail.
start_replay ==
  /\ main = "loop" /\ listed = 1
  /\ mutex = None
  /\ NotRegistered
  /\ \E t \in Threads :
       /\ pc[t] = "unused"
       /\ replay_thread' = t
       /\ pc' = [pc EXCEPT ![t] = "begin"]
  /\ UNCHANGED <<mutex, pos, array, cancel, seqVars, running, listed, main>>

\* The part of stop_all that precedes stop_replay holds no lock of this module.
\* The device's refusal of NMSG_STOP, after it, is in Session.
stop_replay ==
  /\ main = "loop" /\ running = 1
  /\ mutex = None
  /\ \/ /\ replay_thread = None
        /\ running' = 0 /\ listed' = 0
        /\ UNCHANGED <<mutex, cancel, main>>
     \/ /\ replay_thread # None
        /\ mutex' = Main /\ main' = "join"
        /\ cancel' = [cancel EXCEPT ![replay_thread] = 1]
        /\ UNCHANGED <<running, listed>>
  /\ UNCHANGED <<replay_thread, pc, pos, array, seqVars>>

\* reset_replay_event_seq: an empty array is not freed.
ResetSeq ==
  /\ events' = IF event_num # 0 THEN 0 ELSE events
  /\ event_num' = 0

KeepsLock == mutex' = mutex  \* mutant: pthread_mutex_unlock is missing

Unlock == mutex' = None

\* A thread that pthread_join can reap.
Over == {"cancelled", "returned"}

NeverWaits(t) == TRUE  \* mutant: no pthread_join

\* pthread_join returns when the thread has ended.
Joined(t) == pc[t] \in Over

\* After pthread_join: stop_replay resets and unlocks, stop_all goes on.
StopJoined ==
  /\ main = "join" /\ Joined(replay_thread)
  /\ pc' = [pc EXCEPT ![replay_thread] = IF @ \in Over THEN "joined" ELSE @]
  /\ replay_thread' = None
  /\ ResetSeq
  /\ Unlock /\ main' = "loop" /\ running' = 0 /\ listed' = 0
  /\ UNCHANGED <<pos, array, cancel, starts>>

-----------------------------------------------------------------------------
\* The thread reads the pointer to the first event.
Begin(t) ==
  /\ pc[t] = "begin"
  /\ pc' = [pc EXCEPT ![t] = "play"]
  /\ array' = [array EXCEPT ![t] = IF event_num # 0 THEN events ELSE 0]
  /\ UNCHANGED <<mutex, replay_thread, pos, cancel, seqVars, running, listed, main>>

\* usleep and write, both cancellation points, then the next event.
PlayEvent(t) ==
  /\ pc[t] = "play" /\ pos[t] < event_num
  /\ \/ /\ cancel[t] = 0
        /\ pos' = [pos EXCEPT ![t] = @ + 1]
        /\ UNCHANGED pc
     \/ /\ cancel[t] = 1
        /\ pc' = [pc EXCEPT ![t] = "cancelled"]
        /\ UNCHANGED pos
  /\ UNCHANGED <<mutex, replay_thread, array, cancel, seqVars, running, listed, main>>

\* The loop is over: a log call, which may act on a cancellation, and the exit.
PlayDone(t) ==
  /\ pc[t] = "play" /\ pos[t] >= event_num
  /\ \/ pc' = [pc EXCEPT ![t] = "exit"]
     \/ cancel[t] = 1 /\ pc' = [pc EXCEPT ![t] = "cancelled"]
  /\ UNCHANGED <<mutex, replay_thread, pos, array, cancel, seqVars, running, listed, main>>

\* pthread_mutex_lock is not a cancellation point.
ExitLock(t) ==
  /\ pc[t] = "exit" /\ mutex = None
  /\ mutex' = t
  /\ pc' = [pc EXCEPT ![t] = "locked"]
  /\ UNCHANGED <<replay_thread, pos, array, cancel, seqVars, running, listed, main>>

ExitUnlock(t) ==
  /\ pc[t] = "locked"
  /\ replay_thread' = None
  /\ ResetSeq
  /\ Unlock
  /\ pc' = [pc EXCEPT ![t] = "returned"]
  /\ UNCHANGED <<pos, array, cancel, starts, running, listed, main>>

-----------------------------------------------------------------------------
ThreadStep(t) ==
  Begin(t) \/ PlayEvent(t) \/ PlayDone(t) \/ ExitLock(t) \/ ExitUnlock(t)

Next ==
  \/ Start \/ start_replay \/ stop_replay \/ StopJoined
  \/ \E t \in Threads : ThreadStep(t)

Spec == Init /\ [][Next]_vars

\* The scheduler runs every thread that can go on.
FairSpec ==
  /\ Spec
  /\ WF_vars(StopJoined)
  /\ \A t \in Threads : WF_vars(ThreadStep(t))

-----------------------------------------------------------------------------
Live == {"begin", "play", "exit", "locked"}

(***************************************************************************)
(* Every variable keeps the values the program gives it; only a thread     *)
(* inside exit_replay_thread or the main thread inside stop_replay holds   *)
(* the mutex.                                                              *)
(***************************************************************************)
TypeOK ==
  /\ mutex \in Threads \cup {None, Main}
  /\ replay_thread \in Threads \cup {None}
  /\ pc \in [Threads -> Live \cup {"unused", "cancelled", "returned", "joined"}]
  /\ pos \in [Threads -> Nat] /\ array \in [Threads -> Nat]
  /\ cancel \in [Threads -> 0..1]
  /\ events \in Nat /\ event_num \in Nat /\ starts \in Nat
  /\ running \in 0..1 /\ listed \in 0..1 /\ main \in {"loop", "join"}
  /\ mutex = Main <=> main = "join"
  /\ \A t \in Threads : mutex = t <=> pc[t] = "locked"

(***************************************************************************)
(* At most one thread injects input events, and it is the one              *)
(* manager.replay_thread names: neither a restart nor a stop that races    *)
(* the thread's own exit leaves a second one behind.                       *)
(***************************************************************************)
OnePlayer == \A t \in Threads : pc[t] \in Live => replay_thread = t

(***************************************************************************)
(* While a session runs, the event array is freed only when no thread      *)
(* walks it (exit_replay_thread against stop_replay).                      *)
(***************************************************************************)
NoFreeUnderPlayer ==
  [][running = 1 /\ events' # events =>
       \A t \in Threads : pc[t] \notin {"begin", "play"}]_vars

(***************************************************************************)
(* stop_replay returns, and with it the STOP request and the main loop     *)
(* ("In all other cases daemon must report an error and continue the       *)
(* loop", daemon.c host_ctrl_cb).                                          *)
(***************************************************************************)
StopReplayReturns == main = "join" ~> main = "loop"

=============================================================================
