--------------------------- MODULE LifecycleProofs ---------------------------
(***************************************************************************)
(* Proofs about Lifecycle, for any number of managers.                     *)
(***************************************************************************)
EXTENDS Lifecycle, TLAPS

\* The main loop has begun.
LoopPCs == {"loop", "busy", "reap", "lock", "stop", "exit"}

\* The manager has opened the lock file.
Past(m) == Up(m) \/ pc[m] \in {"flock", "close"}

\* What holds of each manager by itself.
Shape ==
  \A m \in Managers :
    /\ locked[m] => pc[m] = "close"
    /\ running[m] \/ quit[m] => pc[m] \in LoopPCs
    /\ sampling[m] # "none" \/ replay[m] # "none" => pc[m] \in LoopPCs
    /\ term[m] # "none" => ctx[m] # None
    /\ term[m] # "none" /\ ctx[m] \notin {"main", "exit"} => pc[m] \in LoopPCs

\* Without a race a single manager is past open, the lock file is its own until
\* its clean-up removes it, and the device is.
LockInv ==
  ~raced =>
    /\ \A m, k \in Managers : Past(m) /\ Past(k) => m = k
    /\ \A m \in Managers : Past(m) /\ term[m] # "rest" => lockfile = m
    /\ \A m \in Managers : pc[m] \in {"loop", "busy", "reap", "lock", "stop"} => device = m

\* A manager that will come to unlink the files: it is up and has not done so,
\* or it holds the lock or is about to try.
Unlinks(m) ==
  \/ Up(m) /\ term[m] # "rest"
  \/ pc[m] = "flock"
  \/ pc[m] = "close" /\ locked[m]

\* Whatever is there has somebody who will remove it.
LeftInv ==
  ~cut =>
    /\ lockfile # None => \E m \in Managers : Unlinks(m)
    /\ portfile => \E m \in Managers : Unlinks(m)
    /\ device # None => \E m \in Managers : Up(m)
    /\ \A m \in Managers : script[m] => pc[m] = "script"

IInv == TypeOK /\ Shape /\ LockInv /\ LeftInv

-----------------------------------------------------------------------------
\* The types of what stop_all_no_lock writes.
StopTypes ==
  /\ running \in [Managers -> BOOLEAN]
  /\ sampling \in [Managers -> {"none", "free", "held"}]
  /\ replay \in [Managers -> {"none", "play", "stuck"}]

\* stop_all_no_lock ends the session and its threads, or leaves them as they
\* are.
LEMMA StopKeepsTypes ==
  ASSUME NEW m \in Managers, StopTypes, stop_all_no_lock(m)
  PROVE  StopTypes'
<1>1. CASE UNCHANGED <<running, threads>>
  BY <1>1 DEF StopTypes, threads
<1>2. CASE /\ running' \in {running, [running EXCEPT ![m] = FALSE]}
           /\ sampling' = [sampling EXCEPT ![m] = "none"]
           /\ replay' = [replay EXCEPT ![m] = "none"]
  BY <1>2 DEF StopTypes
<1> QED
  BY <1>1, <1>2 DEF stop_all_no_lock

\* The actions of one manager that leave TypeOK in place.
LEMMA TypeStep ==
  ASSUME TypeOK, [Next]_vars
  PROVE  TypeOK'
<1> USE NoneAssumption DEF TypeOK, Go, Contexts
<1>1. CASE UNCHANGED vars
  BY <1>1 DEF vars, mvars, threads, gvars, Handled
<1>2. CASE Next
  <2>1. PICK m \in Managers :
            \/ Main(m) \/ Others(m) \/ Terminate(m)
            \/ \E sig \in Signals : Signal(m, sig)
            \/ Killed(m)
    BY <1>2 DEF Next
  <2> USE DEF MainPCs, Handled, mvars, threads, gvars
  <2>2. CASE Access(m)
    BY <2>2 DEF Access, Refused
  <2>3. CASE Open(m)
    <3>1. CASE Refused(m) /\ UNCHANGED <<fd, raced>>
      BY <2>3, <3>1 DEF Open, Refused
    <3>2. CASE ~(Refused(m) /\ UNCHANGED <<fd, raced>>)
      <4>1. lockfile' \in Managers /\ fd' = [fd EXCEPT ![m] = lockfile']
        BY <2>3, <3>2 DEF Open
      <4>2. fd' \in [Managers -> Managers \cup {None}] /\ raced' \in BOOLEAN
        BY <4>1, <2>3, <3>2 DEF Open
      <4> QED
        BY <2>3, <3>2, <4>1, <4>2 DEF Open
    <3> QED
      BY <3>1, <3>2
  <2>4. CASE Flock(m)
    BY <2>4 DEF Flock
  <2>5. CASE Close(m)
    BY <2>5 DEF Close, Refused
  <2>6. CASE StartUp(m)
    BY <2>6 DEF StartUp, LogFails
  <2>7. CASE OpenPortfile(m)
    <3>1. portfile' \in BOOLEAN
      BY <2>7, Zenon DEF OpenPortfile
    <3>2. /\ At(m, "port") /\ (Go(m, "init") \/ Go(m, "exit"))
          /\ UNCHANGED <<mvars, lockfile, device, raced, cut>>
      BY <2>7, Zenon DEF OpenPortfile
    <3> QED
      BY <3>1, <3>2 DEF At, Free
  <2>8. CASE initializeManager(m)
    BY <2>8 DEF initializeManager, At, Free
  <2>9. CASE HostConnects(m)
    BY <2>9 DEF HostConnects, unlink_portfile
  <2>10. CASE Start(m)
    BY <2>10 DEF Start
  <2>11. CASE Busy(m)
    BY <2>11 DEF Busy, At, Free
  <2>12. CASE CallStopAll(m)
    BY <2>12 DEF CallStopAll, At, Free
  <2>13. CASE LockStopAll(m)
    BY <2>13 DEF LockStopAll, At, Free
  <2>14. CASE StopAll(m)
    <3>1. StopTypes'
      BY <2>14, StopKeepsTypes DEF StopAll, StopTypes
    <3>2. /\ pc[m] = "stop"
          /\ mutex' = [mutex EXCEPT ![m] = None]
          /\ pc' = [pc EXCEPT ![m] = "exit"] \/ pc' = [pc EXCEPT ![m] = "loop"]
          /\ UNCHANGED <<fd, locked, quit, script, term, ctx, ignored, lockfile,
                         portfile, device, raced, cut>>
      BY <2>14 DEF StopAll, At
    <3> QED
      BY <3>1, <3>2 DEF StopTypes
  <2>15. CASE UnknownMessage(m)
    BY <2>15 DEF UnknownMessage, At, Free
  <2>16. CASE Exit(m)
    <3>1. CASE Enter(m, "exit")
              /\ UNCHANGED <<pc, fd, locked, quit, running, threads, script, ignored, cut>>
      BY <2>16, <3>1 DEF Exit, At, Free, Enter
    <3>2. CASE Gone(m) /\ cut' = TRUE
      BY <2>16, <3>2 DEF Exit, Gone
    <3> QED
      BY <2>16, <3>1, <3>2 DEF Exit
  <2>17. CASE TermStops(m)
    <3>1. StopTypes'
      BY <2>17, StopKeepsTypes DEF TermStops, StopTypes
    <3>2. /\ term[m] \in {"stop", "join"}
          /\ term' = [term EXCEPT ![m] = "unlink"]
          /\ UNCHANGED <<pc, fd, locked, mutex, quit, script, ctx, ignored,
                         lockfile, portfile, device, raced, cut>>
      BY <2>17 DEF TermStops
    <3>3. \A k \in Managers :
            term'[k] = term[k] \/ (k = m /\ term'[k] = "unlink")
      BY <3>2
    <3> QED
      BY <3>1, <3>2, <3>3 DEF StopTypes, Handled
  <2>18. CASE TermUnlinks(m)
    <3>1. /\ term[m] = "unlink" /\ term' = [term EXCEPT ![m] = "rest"]
          /\ lockfile' = None /\ portfile' = FALSE
          /\ UNCHANGED <<pc, fd, locked, mutex, quit, running, sampling, replay,
                         script, ctx, ignored, device, raced, cut>>
      BY <2>18 DEF TermUnlinks
    <3>2. \A k \in Managers :
            term'[k] = term[k] \/ (k = m /\ term'[k] = "rest")
      BY <3>1
    <3> QED
      BY <3>1, <3>2, ZenonT(60)
  <2>19. CASE TermRest(m)
    BY <2>19 DEF TermRest, Gone
  <2>20. CASE \E sig \in Signals : Signal(m, sig)
    <3>1. ASSUME NEW c \in Threads(m), Enter(m, c), UNCHANGED ignored
          PROVE  TypeOK'
      BY <2>20, <3>1 DEF Signal, Enter, Threads
    <3>2. CASE UNCHANGED <<mutex, term, ctx>>
               /\ \E sig \in Signals :
                    ignored' = [ignored EXCEPT ![m] = @ \cup {sig}]
      BY <2>20, <3>2 DEF Signal
    <3> QED
      BY <2>20, <3>1, <3>2 DEF Signal
  <2>21. CASE Killed(m)
    BY <2>21 DEF Killed, Gone
  <2>22. CASE insert_buf_modules(m)
    BY <2>22 DEF insert_buf_modules, At, Free
  <2>23. CASE Reap(m)
    BY <2>23 DEF Reap, At, Free
  <2>24. CASE Unlock(m)
    BY <2>24 DEF Unlock, At, Free
  <2>25. CASE StopAllHangs(m)
    BY <2>25 DEF StopAllHangs, StopReplayHangs, At, Free
  <2>26. CASE ScriptEnds(m)
    BY <2>26 DEF ScriptEnds
  <2>27. CASE SamplingLocks(m)
    BY <2>27 DEF SamplingLocks
  <2>28. CASE SamplingUnlocks(m)
    BY <2>28 DEF SamplingUnlocks
  <2>29. CASE ReplayEnds(m)
    BY <2>29 DEF ReplayEnds
  <2>30. CASE TermLocks(m) \/ TermHangs(m)
    BY <2>30 DEF TermLocks, TermHangs, StopReplayHangs
  <2> QED
    BY <2>1, <2>2, <2>3, <2>4, <2>5, <2>6, <2>7, <2>8, <2>9, <2>10, <2>11,
       <2>12, <2>13, <2>14, <2>15, <2>16, <2>17, <2>18, <2>19, <2>20, <2>21,
       <2>22, <2>23, <2>24, <2>25, <2>26, <2>27, <2>28, <2>29, <2>30
       DEF Main, Others, Terminate
<1> QED
  BY <1>1, <1>2

\* What holds of one manager by itself.
LEMMA ShapeStep ==
  ASSUME TypeOK, Shape, [Next]_vars
  PROVE  Shape'
<1> USE NoneAssumption DEF Go
<1>1. CASE UNCHANGED vars
  BY <1>1 DEF vars, mvars, threads, gvars, Shape, LoopPCs
<1>2. CASE Next
  <2>1. PICK m \in Managers :
            \/ Main(m) \/ Others(m) \/ Terminate(m)
            \/ \E sig \in Signals : Signal(m, sig)
            \/ Killed(m)
    BY <1>2 DEF Next
  <2> USE DEF TypeOK, Shape, LoopPCs, mvars, threads, gvars
  <2>2. CASE Access(m)
    BY <2>2 DEF Access, Refused
  <2>3. CASE Open(m)
    BY <2>3 DEF Open, Refused
  <2>4. CASE Flock(m)
    BY <2>4 DEF Flock
  <2>5. CASE Close(m)
    BY <2>5 DEF Close, Refused
  <2>6. CASE StartUp(m)
    BY <2>6 DEF StartUp, LogFails
  <2>7. CASE OpenPortfile(m)
    BY <2>7 DEF OpenPortfile, At, Free
  <2>8. CASE initializeManager(m)
    BY <2>8 DEF initializeManager, At, Free
  <2>9. CASE HostConnects(m)
    BY <2>9 DEF HostConnects, unlink_portfile, At, Free
  <2>10. CASE Start(m)
    BY <2>10 DEF Start, At, Free
  <2>11. CASE Busy(m)
    BY <2>11 DEF Busy, At, Free
  <2>12. CASE CallStopAll(m)
    BY <2>12 DEF CallStopAll, At, Free
  <2>13. CASE LockStopAll(m)
    BY <2>13 DEF LockStopAll, At, Free
  <2>14. CASE StopAll(m)
    BY <2>14 DEF StopAll, stop_all_no_lock, At, Free
  <2>15. CASE UnknownMessage(m)
    BY <2>15 DEF UnknownMessage, At, Free
  <2>16. CASE Exit(m)
    BY <2>16 DEF Exit, At, Free, Enter, Gone
  <2>17. CASE TermStops(m)
    BY <2>17 DEF TermStops, stop_all_no_lock
  <2>18. CASE TermUnlinks(m)
    BY <2>18 DEF TermUnlinks
  <2>19. CASE TermRest(m)
    BY <2>19 DEF TermRest, Gone
  <2>20. CASE \E sig \in Signals : Signal(m, sig)
    BY <2>20 DEF Signal, Enter, Threads
  <2>21. CASE Killed(m)
    BY <2>21 DEF Killed, Gone, Alive
  <2>22. CASE insert_buf_modules(m)
    BY <2>22 DEF insert_buf_modules, At, Free
  <2>23. CASE Reap(m)
    BY <2>23 DEF Reap, At, Free
  <2>24. CASE Unlock(m)
    BY <2>24 DEF Unlock, At, Free
  <2>25. CASE StopAllHangs(m)
    BY <2>25 DEF StopAllHangs, StopReplayHangs, At, Free
  <2>26. CASE ScriptEnds(m)
    BY <2>26 DEF ScriptEnds
  <2>27. CASE SamplingLocks(m)
    BY <2>27 DEF SamplingLocks
  <2>28. CASE SamplingUnlocks(m)
    BY <2>28 DEF SamplingUnlocks
  <2>29. CASE ReplayEnds(m)
    BY <2>29 DEF ReplayEnds
  <2>30. CASE TermLocks(m) \/ TermHangs(m)
    BY <2>30 DEF TermLocks, TermHangs, StopReplayHangs
  <2> QED
    BY <2>1, <2>2, <2>3, <2>4, <2>5, <2>6, <2>7, <2>8, <2>9, <2>10, <2>11,
       <2>12, <2>13, <2>14, <2>15, <2>16, <2>17, <2>18, <2>19, <2>20, <2>21,
       <2>22, <2>23, <2>24, <2>25, <2>26, <2>27, <2>28, <2>29, <2>30
       DEF Main, Others, Terminate
<1> QED
  BY <1>1, <1>2

\* Without a race the lock file keeps the managers apart.
LEMMA LockStep ==
  ASSUME TypeOK, Shape, LockInv, [Next]_vars
  PROVE  LockInv'
<1> USE NoneAssumption DEF Go
<1>1. CASE UNCHANGED vars
  BY <1>1 DEF vars, mvars, threads, gvars, LockInv, Past, Up, Handled
<1>2. CASE Next
  <2>1. PICK m \in Managers :
            \/ Main(m) \/ Others(m) \/ Terminate(m)
            \/ \E sig \in Signals : Signal(m, sig)
            \/ Killed(m)
    BY <1>2 DEF Next
  <2> USE DEF TypeOK, LockInv, Past, Up, Handled, mvars, threads, gvars
  <2>2. CASE Access(m)
    BY <2>2 DEF Access, Refused
  <2>3. CASE Open(m)
    <3>1. SUFFICES ASSUME ~raced', ~Refused(m) PROVE LockInv'
      BY <2>3 DEF Open, Refused
    <3>2. lockfile = None /\ ~raced /\ \A k \in Managers : term[k] # "rest"
      BY <2>3, <3>1 DEF Open
    <3>3. \A k \in Managers : ~Past(k)
      BY <3>2
    <3>4. lockfile' = m /\ \A k \in Managers : Past(k)' => k = m
      BY <2>3, <3>1, <3>2, <3>3 DEF Open
    <3>5. UNCHANGED device /\ pc' = [pc EXCEPT ![m] = "flock"]
      BY <2>3, <3>1 DEF Open
    <3> QED
      BY <3>2, <3>4, <3>5
  <2>4. CASE Flock(m)
    BY <2>4 DEF Flock
  <2>5. CASE Close(m)
    BY <2>5 DEF Close, Refused
  <2>6. CASE StartUp(m)
    BY <2>6 DEF StartUp, LogFails
  <2>7. CASE OpenPortfile(m)
    BY <2>7 DEF OpenPortfile, At, Free
  <2>8. CASE initializeManager(m)
    BY <2>8 DEF initializeManager, At, Free
  <2>9. CASE HostConnects(m)
    BY <2>9 DEF HostConnects, unlink_portfile, At, Free
  <2>10. CASE Start(m)
    BY <2>10 DEF Start, At, Free
  <2>11. CASE Busy(m)
    BY <2>11 DEF Busy, At, Free
  <2>12. CASE CallStopAll(m)
    BY <2>12 DEF CallStopAll, At, Free
  <2>13. CASE LockStopAll(m)
    BY <2>13 DEF LockStopAll, At, Free
  <2>14. CASE StopAll(m)
    BY <2>14 DEF StopAll, stop_all_no_lock, At, Free
  <2>15. CASE UnknownMessage(m)
    BY <2>15 DEF UnknownMessage, At, Free
  <2>16. CASE Exit(m)
    BY <2>16 DEF Exit, At, Free, Enter, Gone
  <2>17. CASE TermStops(m)
    BY <2>17 DEF TermStops, stop_all_no_lock
  <2>18. CASE TermUnlinks(m)
    BY <2>18 DEF TermUnlinks
  <2>19. CASE TermRest(m)
    BY <2>19 DEF TermRest, Gone
  <2>20. CASE \E sig \in Signals : Signal(m, sig)
    BY <2>20 DEF Signal, Enter, Threads
  <2>21. CASE Killed(m)
    BY <2>21 DEF Killed, Gone, Alive
  <2>22. CASE insert_buf_modules(m)
    BY <2>22 DEF insert_buf_modules, At, Free
  <2>23. CASE Reap(m)
    BY <2>23 DEF Reap, At, Free
  <2>24. CASE Unlock(m)
    BY <2>24 DEF Unlock, At, Free
  <2>25. CASE StopAllHangs(m)
    BY <2>25 DEF StopAllHangs, StopReplayHangs, At, Free
  <2>26. CASE ScriptEnds(m)
    BY <2>26 DEF ScriptEnds
  <2>27. CASE SamplingLocks(m)
    BY <2>27 DEF SamplingLocks
  <2>28. CASE SamplingUnlocks(m)
    BY <2>28 DEF SamplingUnlocks
  <2>29. CASE ReplayEnds(m)
    BY <2>29 DEF ReplayEnds
  <2>30. CASE TermLocks(m) \/ TermHangs(m)
    BY <2>30 DEF TermLocks, TermHangs, StopReplayHangs
  <2> QED
    BY <2>1, <2>2, <2>3, <2>4, <2>5, <2>6, <2>7, <2>8, <2>9, <2>10, <2>11,
       <2>12, <2>13, <2>14, <2>15, <2>16, <2>17, <2>18, <2>19, <2>20, <2>21,
       <2>22, <2>23, <2>24, <2>25, <2>26, <2>27, <2>28, <2>29, <2>30
       DEF Main, Others, Terminate
<1> QED
  BY <1>1, <1>2

\* Whatever is there keeps somebody who removes it.
LEMMA LeftStep ==
  ASSUME TypeOK, Shape, LeftInv, [Next]_vars
  PROVE  LeftInv'
<1> USE NoneAssumption DEF Go
<1>1. CASE UNCHANGED vars
  BY <1>1 DEF vars, mvars, threads, gvars, LeftInv, Unlinks, Up, Handled
<1>2. CASE Next
  <2>1. PICK m \in Managers :
            \/ Main(m) \/ Others(m) \/ Terminate(m)
            \/ \E sig \in Signals : Signal(m, sig)
            \/ Killed(m)
    BY <1>2 DEF Next
  <2> USE DEF TypeOK, LeftInv, Unlinks, Up, Handled, mvars, threads, gvars
  <2>2. CASE Access(m)
    BY <2>2 DEF Access, Refused
  <2>3. CASE Open(m)
    <3>1. CASE Refused(m) /\ UNCHANGED <<fd, raced>>
      BY <2>3, <3>1 DEF Open, Refused
    <3>2. CASE ~(Refused(m) /\ UNCHANGED <<fd, raced>>)
      <4>1. pc'[m] = "flock"
        BY <2>3, <3>2 DEF Open
      <4>2. Unlinks(m)'
        BY <4>1
      <4>3. \A k \in Managers : Up(k) => Up(k)'
        BY <2>3, <3>2 DEF Open
      <4> QED
        BY <2>3, <3>2, <4>2, <4>3 DEF Open
    <3> QED
      BY <3>1, <3>2
  <2>4. CASE Flock(m)
    <3>1. pc' = [pc EXCEPT ![m] = "close"] /\ locked'[m] \in BOOLEAN
          /\ \A k \in Managers \ {m} : locked'[k] = locked[k]
      BY <2>4 DEF Flock
    <3>2. CASE locked'[m]
      <4>1. Unlinks(m)'
        BY <3>1, <3>2
      <4> QED
        BY <2>4, <3>1, <4>1 DEF Flock
    <3>3. CASE ~locked'[m]
      <4>1. PICK k \in Managers \ {m} : locked[k]
        BY <2>4, <3>3 DEF Flock
      <4>2. pc[k] = "close"
        BY <4>1 DEF Shape
      <4>3. Unlinks(k)'
        BY <3>1, <4>1, <4>2
      <4> QED
        BY <2>4, <3>1, <4>3 DEF Flock
    <3> QED
      BY <3>2, <3>3
  <2>5. CASE Close(m)
    BY <2>5 DEF Close, Refused
  <2>6. CASE StartUp(m)
    BY <2>6 DEF StartUp, LogFails
  <2>7. CASE OpenPortfile(m)
    <3>1. pc[m] = "port" /\ pc'[m] \in {"init", "exit"} /\ UNCHANGED term
      BY <2>7 DEF OpenPortfile, At, Free
    <3>2. \A k \in Managers : Up(k) => Up(k)'
      BY <2>7 DEF OpenPortfile, At, Free
    <3>3. \A k \in Managers : Unlinks(k) => Unlinks(k)'
      BY <2>7, <3>1 DEF OpenPortfile, At, Free
    <3>4. term[m] = "none"
      BY <2>7 DEF OpenPortfile, At, Free, Shape, LoopPCs
    <3>5. Unlinks(m)'
      BY <3>1, <3>4
    <3>6. UNCHANGED <<lockfile, device, script, cut>>
      BY <2>7 DEF OpenPortfile
    <3>7. \A k \in Managers : pc[k] = "script" => pc'[k] = "script"
      BY <2>7, <3>1 DEF OpenPortfile, At, Free
    <3> HIDE DEF TypeOK, Unlinks, Up
    <3> QED
      BY <3>2, <3>3, <3>5, <3>6, <3>7, Zenon
  <2>8. CASE initializeManager(m)
    BY <2>8 DEF initializeManager, At, Free
  <2>9. CASE HostConnects(m)
    BY <2>9 DEF HostConnects, unlink_portfile, At, Free
  <2>10. CASE Start(m)
    BY <2>10 DEF Start, At, Free
  <2>11. CASE Busy(m)
    BY <2>11 DEF Busy, At, Free
  <2>12. CASE CallStopAll(m)
    BY <2>12 DEF CallStopAll, At, Free
  <2>13. CASE LockStopAll(m)
    BY <2>13 DEF LockStopAll, At, Free
  <2>14. CASE StopAll(m)
    BY <2>14 DEF StopAll, stop_all_no_lock, At, Free
  <2>15. CASE UnknownMessage(m)
    BY <2>15 DEF UnknownMessage, At, Free
  <2>16. CASE Exit(m)
    BY <2>16 DEF Exit, At, Free, Enter, Gone
  <2>17. CASE TermStops(m)
    BY <2>17 DEF TermStops, stop_all_no_lock
  <2>18. CASE TermUnlinks(m)
    BY <2>18 DEF TermUnlinks
  <2>19. CASE TermRest(m)
    BY <2>19 DEF TermRest, Gone
  <2>20. CASE \E sig \in Signals : Signal(m, sig)
    BY <2>20 DEF Signal, Enter, Threads
  <2>21. CASE Killed(m)
    BY <2>21 DEF Killed, Gone, Alive
  <2>22. CASE insert_buf_modules(m)
    BY <2>22 DEF insert_buf_modules, At, Free
  <2>23. CASE Reap(m)
    BY <2>23 DEF Reap, At, Free
  <2>24. CASE Unlock(m)
    BY <2>24 DEF Unlock, At, Free
  <2>25. CASE StopAllHangs(m)
    BY <2>25 DEF StopAllHangs, StopReplayHangs, At, Free
  <2>26. CASE ScriptEnds(m)
    BY <2>26 DEF ScriptEnds
  <2>27. CASE SamplingLocks(m)
    BY <2>27 DEF SamplingLocks
  <2>28. CASE SamplingUnlocks(m)
    BY <2>28 DEF SamplingUnlocks
  <2>29. CASE ReplayEnds(m)
    BY <2>29 DEF ReplayEnds
  <2>30. CASE TermLocks(m) \/ TermHangs(m)
    BY <2>30 DEF TermLocks, TermHangs, StopReplayHangs
  <2> QED
    BY <2>1, <2>2, <2>3, <2>4, <2>5, <2>6, <2>7, <2>8, <2>9, <2>10, <2>11,
       <2>12, <2>13, <2>14, <2>15, <2>16, <2>17, <2>18, <2>19, <2>20, <2>21,
       <2>22, <2>23, <2>24, <2>25, <2>26, <2>27, <2>28, <2>29, <2>30
       DEF Main, Others, Terminate
<1> QED
  BY <1>1, <1>2

-----------------------------------------------------------------------------
\* No manager runs at first.
LEMMA Initially == Init => IInv
<1> SUFFICES ASSUME Init PROVE IInv
  OBVIOUS
<1> USE NoneAssumption DEF Init
<1>1. ignored \in [Managers -> SUBSET Signals]
  OBVIOUS
<1>2. TypeOK
  BY <1>1 DEF TypeOK, MainPCs, Handled, Contexts
<1>3. Shape /\ LockInv /\ LeftInv
  BY DEF Shape, LockInv, Past, Up, Handled, LeftInv
<1> QED
  BY <1>2, <1>3 DEF IInv

LEMMA Invariance == Spec => []IInv
<1>1. IInv /\ [Next]_vars => IInv'
  BY TypeStep, ShapeStep, LockStep, LeftStep DEF IInv
<1> QED
  BY Initially, <1>1, PTL DEF Spec

\* Types, and stop_all_mutex is held by nobody but a stop_all in main or a
\* terminate() under way (main.c 350-375, da_protocol.c 712-744).
THEOREM TypeCorrect == Spec => []TypeOK
<1>1. IInv => TypeOK
  BY DEF IInv
<1> QED
  BY Invariance, <1>1, PTL

\* ensure_singleton keeps managers single unless one of its gaps was met
\* (main.c 243-263), for any number of managers.
THEOREM Single == Spec => []SingleUnlessRaced
<1>1. IInv => SingleUnlessRaced
  BY DEF IInv, LockInv, Past, SingleUnlessRaced
<1> QED
  BY Invariance, <1>1, PTL

\* The modules and the buffer of a manager in its main loop are its own unless
\* a gap of ensure_singleton was met (main.c 350-375).
THEOREM DeviceKept == Spec => []DeviceIntact
<1>1. IInv => DeviceIntact
  BY DEF IInv, LockInv, DeviceIntact
<1> QED
  BY Invariance, <1>1, PTL

\* The last manager to end removes what all of them made, unless one was killed,
\* ended under its own signal handler, or cleaned up while its start.sh was at
\* work (main.c 345-383, buffer.c 104).
THEOREM FilesRemoved == Spec => []NothingLeft
<1>1. IInv => NothingLeft
  BY DEF IInv, LeftInv, NothingLeft, Unlinks, Up, Handled, Alive
<1> QED
  BY Invariance, <1>1, PTL
=============================================================================
