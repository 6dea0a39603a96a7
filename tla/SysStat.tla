------------------------------- MODULE SysStat -------------------------------
(***************************************************************************)
(* The sampling thread of swap_manager (threads.c) and the statistics it   *)
(* collects (sys_stat.c): the lists of instrumented and of other           *)
(* processes that live from one sample to the next, the time stamps and    *)
(* indices that say against which earlier sample a difference is taken,    *)
(* the packing of the result, and the main loop that starts and stops the  *)
(* thread and changes the configuration it reads.                          *)
(*                                                                         *)
(* A tick value read from /proc is abstracted to what it belongs to: the   *)
(* incarnation of the pid and the number of the sample that read it.       *)
(* Junk is what malloc left in a field nobody wrote.  Between the steps of *)
(* one sample processes start and end, and a pid is reused.                *)
(***************************************************************************)
EXTENDS Integers, FiniteSets, Sequences, FiniteSetsExt

CONSTANTS
  Pids,        \* process ids
  Confs,       \* configurations a host sends, sets of Flags
  MaxStarts,   \* bound on the processes started
  MaxThreads,  \* bound on the threads of a process
  MaxSamples   \* bound on the samples taken

ASSUME SizeAssumption ==
  MaxStarts \in Nat \ {0} /\ MaxThreads \in Nat \ {0} /\ MaxSamples \in Nat
\* The flags of use_features0 whose data come from the process lists and
\* decide the size of a message; with "cpu", which stands for CPU and memory,
\* the flags for which the system is sampled; "recording" is FL_RECORDING,
\* which no sample looks at.
Features == {"process", "processes_load", "thread_load"}
Sampled == Features \cup {"cpu"}
Flags == Sampled \cup {"recording"}

ASSUME SetAssumption ==
  /\ IsFiniteSet(Pids)
  /\ Confs \subseteq SUBSET Flags

Steps == {"off", "wait", "pids", "other_pids", "stat_inst", "stat_other",
          "elapsed", "smaps", "threads", "fill", "length", "pack", "write"}

Reading == [inc : 0..MaxStarts, at : 0..MaxSamples]
Junk == [inc |-> 0, at |-> 0]
Node == [data : Reading, saved : Reading, found : BOOLEAN,
         threads : 0..MaxThreads]

VARIABLES
  \* the system that is watched
  procs,           \* pid -> incarnation, whether it runs, in inst_tasks,
                   \* and (history) the sample in which it was last reused
  \* main loop
  running,         \* prof_session.running_status
  conf,            \* prof_session.conf.use_features0
  main,            \* "idle", or what it does once samplingStop has joined
  new_conf,        \* argument of reconfigure
  \* signals
  timer,           \* ITIMER_REAL is armed
  alarm,           \* SIGALRM is pending
  usr1,            \* SIGUSR1 is pending for the sampling thread
  \* sampling thread
  spc,             \* its next step; "off" when there is no thread
  sample,          \* number of calls of get_system_info
  inst_pidarray, other_pidarray,
  inst_prochead, other_prochead,   \* a list is a function on its pids
  old_time,        \* sample that called get_elapsed last
  since,           \* start of the time elapsed, as get_elapsed returned it
  info,            \* struct system_info_t
  alloc, packed,   \* records a message has room for, and records put into it
  \* history
  faulty           \* samples that failed or could not read a listed process

main_vars == <<running, conf, main, new_conf, timer>>
list_vars == <<inst_prochead, other_prochead>>
array_vars == <<inst_pidarray, other_pidarray>>
time_vars == <<old_time, since>>
msg_vars == <<info, alloc, packed>>
vars == <<procs, main_vars, alarm, usr1, spc, sample, array_vars,
          list_vars, time_vars, msg_vars, faulty>>

NoInfo == [inst |-> {}, other |-> {}, threads |-> 0, loads |-> <<>>]

Init ==
  /\ procs = [p \in Pids |-> [inc |-> 0, up |-> FALSE, inst |-> FALSE, reused |-> 0]]
  /\ running = FALSE
  /\ conf = {} /\ main = "idle" /\ new_conf = {}
  /\ timer = FALSE /\ alarm = FALSE /\ usr1 = FALSE
  /\ spc = "off" /\ sample = 0
  /\ inst_pidarray = <<>> /\ other_pidarray = <<>>
  /\ inst_prochead = <<>> /\ other_prochead = <<>>
  /\ old_time = 0 /\ since = 0
  /\ info = NoInfo /\ alloc = 0 /\ packed = 0
  /\ faulty = {}

-----------------------------------------------------------------------------
\* The watched system: processes come and go, a pid is used again.  The
\* sampling thread sees the system only in these steps; a change at another
\* time is the same as one just before the next of them.
Observing ==
  spc \in {"pids", "other_pids", "stat_inst", "stat_other", "smaps", "threads"}

StartProcess(p, inst) ==
  /\ Observing /\ ~procs[p].up
  /\ MapThenSumSet(LAMBDA q : procs[q].inc, Pids) < MaxStarts
  /\ procs' = [procs EXCEPT ![p] =
                 [inc |-> @.inc + 1, up |-> TRUE, inst |-> inst,
                  reused |-> IF @.inc = 0 THEN 0 ELSE sample]]
  /\ UNCHANGED <<main_vars, alarm, usr1, spc, sample, array_vars,
                 list_vars, time_vars, msg_vars, faulty>>

ExitProcess(p) ==
  /\ Observing /\ procs[p].up
  /\ procs' = [procs EXCEPT ![p].up = FALSE, ![p].inst = FALSE]
  /\ UNCHANGED <<main_vars, alarm, usr1, spc, sample, array_vars,
                 list_vars, time_vars, msg_vars, faulty>>

\* A period ends: SIGALRM becomes pending, once however often it is sent.
\* One that is sent during a sample is not noticed before the next sigwait.
TimerExpires ==
  /\ timer /\ ~alarm /\ spc = "wait"
  /\ alarm' = TRUE
  /\ UNCHANGED <<procs, main_vars, usr1, spc, sample, array_vars, list_vars,
                 time_vars, msg_vars, faulty>>

-----------------------------------------------------------------------------
\* The process lists.

\* find_node and add_node of the pids in S: a node that is there is marked
\* found, a new one is found and holds junk.
Touch(list, S) ==
  [p \in DOMAIN list \cup S |->
     IF p \in DOMAIN list
     THEN [list[p] EXCEPT !.found = @ \/ p \in S]
     ELSE [data |-> Junk, saved |-> Junk, found |-> TRUE, threads |-> 0]]

\* del_node of every pid in S
del_node(list, S) == [p \in DOMAIN list \ S |-> list[p]]

del_notfound_node(list) == [p \in {q \in DOMAIN list : list[q].found} |-> list[p]]

\* Mutant: the marks of one pass are still there in the next.
keep_found_node(list) == list

reset_found_node(list) == [p \in DOMAIN list |-> [list[p] EXCEPT !.found = FALSE]]

\* Set of the elements of an array, and the orders in which a directory or
\* inst_tasks may give a set.
Elems(a) == {a[i] : i \in DOMAIN a}
Orders(S) == {a \in [1..Cardinality(S) -> S] : Elems(a) = S}

\* What stat() and then open() or read() of one entry may find: a process
\* that is gone, one whose file cannot be read any more, or its data.
Outcomes(a) ==
  {out \in [Elems(a) -> {"gone", "unreadable", "ok"}] :
     \A p \in Elems(a) : out[p] = "gone" <=> ~procs[p].up}

Present(a, out) == {p \in Elems(a) : out[p] # "gone"}

\* is_new_node at entry p of the array: set by the first pid that had no
\* node and never reset in the loop.
IsNewNode(list, a, out, p) ==
  \E i, j \in DOMAIN a :
     j <= i /\ a[i] = p /\ out[a[j]] # "gone" /\ a[j] \notin DOMAIN list

\* parse_proc_stat_file_bypid and what update_process_data does with it
StatNode(list, a, out, p, node) ==
  IF p \in Elems(a) /\ out[p] = "ok"
  THEN LET now == [inc |-> procs[p].inc, at |-> sample]
       IN  [node EXCEPT !.data = now,
                        !.saved = IF IsNewNode(list, a, out, p) THEN now ELSE @]
  ELSE node

\* update_process_data; its result is that of the last entry only.
update_process_data(list, a, out, datatype) ==
  LET touched == Touch(del_node(list, Elems(a) \ Present(a, out)), Present(a, out))
      parsed == IF datatype = "stat"
                THEN [p \in DOMAIN touched |-> StatNode(list, a, out, p, touched[p])]
                ELSE touched
  IN  reset_found_node(del_notfound_node(parsed))

UpdateFails(a, out) == a # <<>> /\ out[a[Len(a)]] = "unreadable"

Disturbed(a, out) == \E p \in Elems(a) : out[p] # "ok"

\* Sample numbers that count as disturbed after a step that saw bad.
Blame(bad) == IF bad THEN faulty \cup {sample} ELSE faulty

-----------------------------------------------------------------------------
\* The sampling thread.

\* fail_exit of get_system_info: nothing is sent, the thread waits again.
FailExit ==
  /\ spc' = "wait"
  /\ inst_pidarray' = <<>> /\ other_pidarray' = <<>>
  /\ info' = NoInfo
  /\ faulty' = faulty \cup {sample}

\* sigwait returns SIGALRM and get_system_info begins.  A signal sent to the
\* thread itself, SIGUSR1, is taken before one sent to the process.
TakeAlarm ==
  /\ spc = "wait" /\ alarm /\ ~usr1
  /\ sample < MaxSamples
  /\ alarm' = FALSE
  /\ sample' = sample + 1
  /\ spc' = IF conf \cap Sampled # {} THEN "pids" ELSE "length"
  /\ UNCHANGED <<procs, main_vars, usr1, array_vars, list_vars, time_vars,
                 msg_vars, faulty>>

\* sigwait returns SIGUSR1: the thread ends
TakeUsr1 ==
  /\ spc = "wait" /\ usr1
  /\ usr1' = FALSE
  /\ spc' = "off"
  /\ UNCHANGED <<procs, main_vars, alarm, sample, array_vars, list_vars,
                 time_vars, msg_vars, faulty>>

\* get_inst_pid_array: the pids the kernel lists in inst_tasks
get_inst_pid_array ==
  /\ spc = "pids"
  /\ inst_pidarray' \in Orders({p \in Pids : procs[p].up /\ procs[p].inst})
  /\ spc' = "other_pids"
  /\ UNCHANGED <<procs, main_vars, alarm, usr1, sample, other_pidarray,
                 list_vars, time_vars, msg_vars, faulty>>

\* get_other_pid_array: the directories of /proc that inst_tasks did not
\* list a moment ago; an opendir that fails counts no process at all.
get_other_pid_array ==
  /\ spc = "other_pids"
  /\ other_pidarray' \in
       Orders({p \in Pids : procs[p].up} \ Elems(inst_pidarray)) \cup {<<>>}
  /\ spc' = "stat_inst"
  /\ UNCHANGED <<procs, main_vars, alarm, usr1, sample, inst_pidarray,
                 list_vars, time_vars, msg_vars, faulty>>

StatInst ==
  /\ spc = "stat_inst"
  /\ \E out \in Outcomes(inst_pidarray) :
       /\ inst_prochead' =
            update_process_data(inst_prochead, inst_pidarray, out, "stat")
       /\ IF UpdateFails(inst_pidarray, out)
          THEN FailExit
          ELSE /\ spc' = "stat_other"
               /\ faulty' = Blame(Disturbed(inst_pidarray, out))
               /\ UNCHANGED <<array_vars, info>>
  /\ UNCHANGED <<procs, main_vars, alarm, usr1, sample, other_prochead,
                 time_vars, alloc, packed>>

StatOther ==
  /\ spc = "stat_other"
  /\ \E out \in Outcomes(other_pidarray) :
       /\ other_prochead' =
            update_process_data(other_prochead, other_pidarray, out, "stat")
       /\ IF UpdateFails(other_pidarray, out)
          THEN FailExit
          ELSE /\ spc' = "elapsed"
               /\ faulty' = Blame(Disturbed(other_pidarray, out))
               /\ UNCHANGED <<array_vars, info>>
  /\ UNCHANGED <<procs, main_vars, alarm, usr1, sample, inst_prochead,
                 time_vars, alloc, packed>>

\* Mutant: the time is added up instead of replaced.
add_elapsed == since' = old_time /\ old_time' = old_time + sample

\* get_elapsed: the time from the previous call to now
get_elapsed == since' = old_time /\ old_time' = sample

\* update_system_cpu_frequency and update_system_cpu_data before it: they fail
\* without the files of the kernel, and touch nothing but cpus (SysCounters).
update_system_cpu_frequency ==
  \/ spc' = "smaps" /\ UNCHANGED <<array_vars, info, faulty>>
  \/ FailExit

Elapsed ==
  /\ spc = "elapsed"
  /\ get_elapsed
  /\ update_system_cpu_frequency
  /\ UNCHANGED <<procs, main_vars, alarm, usr1, sample, list_vars, alloc, packed>>

\* the PROCDATA_SMAPS pass over the instrumented processes
Smaps ==
  /\ spc = "smaps"
  /\ \E out \in Outcomes(inst_pidarray) :
       /\ inst_prochead' =
            update_process_data(inst_prochead, inst_pidarray, out, "smaps")
       /\ IF UpdateFails(inst_pidarray, out)
          THEN FailExit
          ELSE /\ spc' = "threads"
               /\ faulty' = Blame(Disturbed(inst_pidarray, out))
               /\ UNCHANGED <<array_vars, info>>
  /\ UNCHANGED <<procs, main_vars, alarm, usr1, sample, other_prochead,
                 time_vars, alloc, packed>>

\* update_thread_data of every entry up to the first that fails: no task
\* directory, no node, or a last thread that cannot be read.  It marks the
\* nodes it looks up as found.
update_thread_data ==
  /\ spc = "threads"
  /\ \E done \in 0..Len(inst_pidarray), n \in [Pids -> 1..MaxThreads] :
       LET ok == {inst_pidarray[i] : i \in 1..done}
           CanRead(p) == procs[p].up /\ p \in DOMAIN inst_prochead
           next == inst_pidarray[done + 1]
           seen == IF done < Len(inst_pidarray) /\ procs[next].up
                   THEN ok \cup {next} ELSE ok
       IN  /\ \A p \in ok : CanRead(p)
           /\ \A p \in Pids \ seen : n[p] = 1
           /\ inst_prochead' =
                [p \in DOMAIN inst_prochead |->
                   [inst_prochead[p] EXCEPT
                      !.found = @ \/ p \in seen,
                      !.threads = IF p \in seen THEN n[p] ELSE @]]
           /\ IF done = Len(inst_pidarray)
              THEN spc' = "fill" /\ UNCHANGED <<array_vars, info, faulty>>
              ELSE FailExit
  /\ UNCHANGED <<procs, main_vars, alarm, usr1, sample, other_prochead,
                 time_vars, alloc, packed>>

\* fill_system_processes_info and fill_system_threads_info: the load of a
\* process is data minus saved over the elapsed time; then data are saved.
Load(node) == [from |-> node.saved, to |-> node.data, since |-> since]
\* Mutant: the times of this sample are not kept for the next one.
Forget(list) == list

Save(list) == [p \in DOMAIN list |-> [list[p] EXCEPT !.saved = list[p].data]]
ThreadsOf(list, S) == MapThenSumSet(LAMBDA p : list[p].threads, S)

\* update_system_memory_data fails: no file, or an entry of it is missing.
update_system_memory_data == FailExit /\ UNCHANGED list_vars

\* update_cpus_info and fill_*; the differences of SysCounters follow and
\* cannot fail.
Fill ==
  /\ spc = "fill"
  /\ \/ /\ info' = [inst |-> DOMAIN inst_prochead,
                    other |-> DOMAIN other_prochead,
                    threads |-> ThreadsOf(inst_prochead, DOMAIN inst_prochead),
                    loads |-> [p \in DOMAIN inst_prochead \cup DOMAIN other_prochead |->
                                 Load(IF p \in DOMAIN inst_prochead
                                      THEN inst_prochead[p] ELSE other_prochead[p])]]
        /\ inst_prochead' = Save(inst_prochead)
        /\ other_prochead' = Save(other_prochead)
        /\ spc' = "length"
        /\ UNCHANGED <<array_vars, faulty>>
     \/ update_system_memory_data
  /\ UNCHANGED <<procs, main_vars, alarm, usr1, sample, time_vars, alloc, packed>>

-----------------------------------------------------------------------------
\* Packing.

On(feature, n) == IF feature \in conf THEN n ELSE 0

\* msg_data_payload_length: variable part, in records
msg_data_payload_length ==
  /\ spc = "length"
  /\ alloc' = On("thread_load", info.threads)
                + On("process", Cardinality(info.inst))
                + On("processes_load", Cardinality(info.other))
  /\ \/ spc' = "pack" /\ UNCHANGED <<array_vars, info>>
     \/ spc' = "wait" /\ info' = NoInfo  \* malloc fails
        /\ inst_pidarray' = <<>> /\ other_pidarray' = <<>>
  /\ UNCHANGED <<procs, main_vars, alarm, usr1, sample, list_vars, time_vars,
                 packed, faulty>>

\* pack_system_info walks the lists as far as the counts of sys_info say;
\* the threads of a process are those now in its list.
pack_system_info ==
  /\ spc = "pack"
  /\ packed' = On("process", Cardinality(info.inst)
                               + On("thread_load",
                                    ThreadsOf(inst_prochead, info.inst)))
                 + On("processes_load", Cardinality(info.other))
  /\ spc' = "write"
  /\ UNCHANGED <<procs, main_vars, alarm, usr1, sample, array_vars, list_vars,
                 time_vars, info, alloc, faulty>>

\* write_to_buf, free_msg_data, reset_system_info, flush_buf
WriteToBuf ==
  /\ spc = "write"
  /\ spc' = "wait"
  /\ info' = NoInfo /\ alloc' = 0 /\ packed' = 0
  /\ inst_pidarray' = <<>> /\ other_pidarray' = <<>>
  /\ UNCHANGED <<procs, main_vars, alarm, usr1, sample, list_vars, time_vars,
                 faulty>>

SamplingThread ==
  \/ TakeAlarm \/ TakeUsr1 \/ get_inst_pid_array \/ get_other_pid_array
  \/ StatInst \/ StatOther \/ Elapsed \/ Smaps \/ update_thread_data \/ Fill
  \/ msg_data_payload_length \/ pack_system_info \/ WriteToBuf

-----------------------------------------------------------------------------
\* The main loop.  The thread notices a request only in sigwait and reads
\* conf only where it takes an alarm and in the steps of packing; a request
\* at another time is the same as one just before the next of them.
Noticing == spc \in {"off", "wait", "length", "pack"}

\* START: prepare_profiling calls sys_stat_prepare, start_profiling calls
\* samplingStart.
StartSampling ==
  /\ main = "idle" /\ ~running
  /\ running' = TRUE
  /\ timer' = TRUE
  /\ spc' = "wait"
  /\ UNCHANGED <<procs, conf, main, new_conf, alarm, usr1, sample, array_vars,
                 list_vars, time_vars, msg_vars, faulty>>

\* samplingStop up to pthread_join: no more alarms, SIGUSR1 to the thread
BeginSamplingStop == timer' = FALSE /\ usr1' = TRUE

\* STOP
StopSampling ==
  /\ Noticing /\ main = "idle" /\ running
  /\ BeginSamplingStop
  /\ main' = "stop"
  /\ UNCHANGED <<procs, running, conf, new_conf, alarm, spc, sample, array_vars,
                 list_vars, time_vars, msg_vars, faulty>>

Stopped ==
  /\ main = "stop" /\ spc = "off"
  /\ running' = FALSE
  /\ main' = "idle"
  /\ UNCHANGED <<procs, conf, new_conf, timer, alarm, usr1, spc, sample,
                 array_vars, list_vars, time_vars, msg_vars, faulty>>

\* Mutant: the configuration is written while the thread still samples.
ReconfigureLive(c) ==
  /\ Noticing /\ main = "idle"
  /\ conf' = c
  /\ UNCHANGED <<procs, running, main, new_conf, timer, alarm, usr1, spc, sample,
                 array_vars, list_vars, time_vars, msg_vars, faulty>>

\* reconfigure_recording: FL_RECORDING of the new configuration is written
\* at once, the other flags stay.
reconfigure_recording(c) == (conf \ {"recording"}) \cup (c \cap {"recording"})

\* CONFIG: reconfigure writes the flag of recording under the eyes of the
\* sampling thread, and all of prof_session.conf once samplingStop joined it.
Reconfigure(c) ==
  /\ Noticing /\ main = "idle"
  /\ IF running
     THEN /\ conf' = reconfigure_recording(c)
          /\ BeginSamplingStop
          /\ main' = "reconf"
          /\ new_conf' = c
     ELSE conf' = c /\ UNCHANGED <<main, new_conf, timer, usr1>>
  /\ UNCHANGED <<procs, running, alarm, spc, sample, array_vars, list_vars,
                 time_vars, msg_vars, faulty>>

Reconfigured ==
  /\ main = "reconf" /\ spc = "off"
  /\ conf' = new_conf /\ new_conf' = {}
  /\ main' = "idle"
  /\ timer' = TRUE
  /\ spc' = "wait"
  /\ UNCHANGED <<procs, running, alarm, usr1, sample, array_vars, list_vars,
                 time_vars, msg_vars, faulty>>

MainLoop ==
  \/ StartSampling \/ StopSampling \/ Stopped \/ Reconfigured
  \/ \E c \in Confs : Reconfigure(c)

Environment ==
  \/ \E p \in Pids, inst \in BOOLEAN : StartProcess(p, inst)
  \/ \E p \in Pids : ExitProcess(p)
  \/ TimerExpires

Next == Environment \/ SamplingThread \/ MainLoop

Spec == Init /\ [][Next]_vars

-----------------------------------------------------------------------------
\* Properties.

Loads == [from : Reading, to : Reading, since : 0..MaxSamples]

\* Every variable has its type.
TypeOK ==
  /\ procs \in [Pids -> [inc : 0..MaxStarts, up : BOOLEAN, inst : BOOLEAN,
                     reused : 0..MaxSamples]]
  /\ running \in BOOLEAN /\ timer \in BOOLEAN
  /\ alarm \in BOOLEAN /\ usr1 \in BOOLEAN
  /\ conf \subseteq Flags /\ new_conf \subseteq Flags
  /\ main \in {"idle", "stop", "reconf"} /\ spc \in Steps
  /\ sample \in 0..MaxSamples
  /\ faulty \subseteq 1..MaxSamples
  /\ Elems(inst_pidarray) \subseteq Pids /\ Elems(other_pidarray) \subseteq Pids
  /\ DOMAIN inst_prochead \subseteq Pids
  /\ inst_prochead \in [DOMAIN inst_prochead -> Node]
  /\ DOMAIN other_prochead \subseteq Pids
  /\ other_prochead \in [DOMAIN other_prochead -> Node]
  /\ old_time \in 0..MaxSamples /\ since \in 0..MaxSamples
  /\ info.loads \in [DOMAIN info.loads -> Loads]
  /\ alloc \in Nat /\ packed \in Nat

Filled == info # NoInfo

\* The processes a message reports are processes listed in the same sample,
\* none of them as instrumented and as other at once: although
\* update_thread_data leaves nodes marked found for the next sample and a
\* failed sample leaves both lists half updated, no node of an earlier
\* sample outlives del_notfound_node of the last pass before the fill.
ReportsOnlyListed ==
  Filled => /\ info.inst \subseteq Elems(inst_pidarray)
            /\ info.other \subseteq Elems(other_pidarray)
            /\ info.inst \cap info.other = {}

\* A reported load is taken over the time it is divided by: when no sample
\* since the previous call of get_elapsed was disturbed, the ticks of a pid
\* are counted from the sample of that call to this one, or its load is
\* reported as zero, and no junk enters it.  The two ends belong to one
\* process unless the pid was given to a new one since that call: then
\* update_process_data finds the node of the old process and the load is
\* the new one's ticks minus the old one's.
LoadSpansElapsed ==
  Filled /\ faulty \cap since..sample = {} =>
     \A p \in DOMAIN info.loads :
        LET l == info.loads[p] IN
        /\ l.to.at = sample
        /\ \/ l.from = l.to
           \/ /\ l.from.at = since
              /\ l.from.inc = l.to.inc \/ procs[p].reused >= since

\* The message has room for what is packed: pack_system_info tests
\* the flags again after msg_data_payload_length, and only the join in
\* samplingStop keeps CONFIG from changing them in between.
PackedFits == packed <= alloc

=============================================================================
