----------------------------- MODULE SysCounters -----------------------------
(***************************************************************************)
(* What get_system_info (sys_stat.c) keeps from one sample to the next     *)
(* besides the process lists: the sample counter and the tick indices of   *)
(* the processor cores, and the previous values of the counters that are   *)
(* reported as differences (disk, network, energy).                        *)
(*                                                                         *)
(* Only the sampling thread touches them, and sys_stat_prepare while there *)
(* is none, so a sample is one step.  It may fail before, in or after the  *)
(* reading of /proc/stat; a core that is offline has no line there, and    *)
(* the lines of the others move up; and a counter may read lower than      *)
(* before (it wrapped, an interface or a disk is gone, the scan stopped    *)
(* early).                                                                 *)
(***************************************************************************)
EXTENDS Integers

CONSTANTS
  NumCpu,      \* num_of_cpu: processor cores, online or not
  Narrow,      \* counters read into 32 bits and then subtracted: disk, network
  Wide,        \* counters subtracted and then cut to 32 bits: energy
  Wrap,        \* 2^32
  MaxValue,    \* bound on the value of a counter
  MaxSamples   \* bound on the samples taken

ASSUME CpuAssumption == NumCpu \in Nat \ {0}
ASSUME WidthAssumption == Wrap \in Nat \ {0} /\ MaxValue \in Nat
ASSUME SampleAssumption == MaxSamples \in Nat /\ Narrow \cap Wide = {}

Counters == Narrow \cup Wide
Cpus == 1..NumCpu

VARIABLES
  lists,       \* a feature of conf that needs processes, memory or cpus is set
  peeks,       \* the counters conf asks for
  running,
  sample,      \* number of calls of get_system_info
  event_num,   \* its static counter of those that returned 0
  cpus,        \* CPU_t: cur_load_index, sav_load_index, id, and of the ticks
               \* the sample that read them (ticks), the one that saved them
               \* and the core they were read from
  old,         \* static previous value of every counter
  usage,       \* branch of update_cpus_info per core in the last sample
  diff,        \* differences reported in the last sample
  last_good,   \* history: last sample that returned 0
  online, was_online,  \* history: lines of the last two samples that saved
  read, seen   \* history: last two values the counters really had

line_vars == <<online, was_online>>
vars == <<lists, peeks, running, sample, event_num, cpus, old, usage, diff,
          last_good, line_vars, read, seen>>

NoUsage == [by |-> "none", from |-> 0, ticks |-> 0, good |-> 0,
            id |-> 0, id_sav |-> 0]

Init ==
  /\ lists = FALSE /\ peeks = {} /\ running = FALSE
  /\ sample = 0 /\ event_num = 0 /\ last_good = 0
  /\ cpus = [c \in Cpus |-> [cur |-> -1, sav |-> -1, ticks |-> 0, saved |-> 0,
                          id |-> 0, id_sav |-> 0]]
  /\ online = <<>> /\ was_online = <<>>
  /\ old = [k \in Counters |-> 0]
  /\ usage = [c \in Cpus |-> NoUsage]
  /\ diff = [k \in Counters |-> 0]
  /\ read = [k \in Counters |-> 0] /\ seen = [k \in Counters |-> 0]

-----------------------------------------------------------------------------
\* #define val_diff
val_diff(new, prev) == IF new < prev THEN new ELSE new - prev

\* Mutant: the 64-bit sum is kept.
StoredWide(k, v) == v

\* get_network_stat and get_disk_stat add into a uint32_t, the energy files
\* are read into a uint64_t.
Stored(k, v) == IF k \in Narrow THEN v % Wrap ELSE v

\* peek_disk_stat_diff, peek_network_stat_diff, pop_sys_energy_per_device and
\* pop_app_energy_per_device: difference to the previous value, as uint32_t
PeekDiff(k, v) == val_diff(Stored(k, v), old[k]) % Wrap

\* Mutant: a counter keeps the value of its first peek.
PeekOnce(K, v) ==
  /\ diff' = [k \in Counters |-> IF k \in K THEN PeekDiff(k, v[k]) ELSE 0]
  /\ old' = [k \in Counters |-> IF k \in K /\ old[k] = 0 THEN Stored(k, v[k]) ELSE old[k]]
  /\ seen' = [k \in Counters |-> IF k \in K THEN read[k] ELSE seen[k]]
  /\ read' = [k \in Counters |-> IF k \in K THEN v[k] ELSE read[k]]

\* One peek at each of the counters K, which read v.
Peek(K, v) ==
  /\ diff' = [k \in Counters |-> IF k \in K THEN PeekDiff(k, v[k]) ELSE 0]
  /\ old' = [k \in Counters |-> IF k \in K THEN Stored(k, v[k]) ELSE old[k]]
  /\ seen' = [k \in Counters |-> IF k \in K THEN read[k] ELSE seen[k]]
  /\ read' = [k \in Counters |-> IF k \in K THEN v[k] ELSE read[k]]

NoPeek == diff' = [k \in Counters |-> 0] /\ UNCHANGED <<old, seen, read>>

Values == [Counters -> 0..MaxValue]

-----------------------------------------------------------------------------
\* The lines of /proc/stat: the cores that are online, in order.
Lines ==
  UNION {{l \in [1..n -> Cpus] : \A i, j \in 1..n : i < j => l[i] < l[j]} :
           n \in 0..NumCpu}

\* Line i; a single core takes the total of the first line.
HasLine(lines, i) == NumCpu = 1 \/ i \in DOMAIN lines
LineOf(lines, i) == IF NumCpu = 1 THEN 1 ELSE lines[i]

\* update_system_cpu_data: entry i takes line i, whichever core it is of.
CpuRead(i, lines) ==
  IF HasLine(lines, i)
  THEN [cpus[i] EXCEPT !.ticks = sample', !.cur = event_num, !.id = LineOf(lines, i)]
  ELSE cpus[i]

\* update_cpus_info: the branch for one entry, the samples that saved the
\* ticks it subtracts and read those it uses, and the cores of both
CpuUsage(cpu) ==
  IF cpu.cur # event_num THEN NoUsage
  ELSE [by |-> IF cpu.sav = event_num - 1 THEN "delta" ELSE "elapsed",
        from |-> cpu.saved, ticks |-> cpu.ticks, good |-> last_good,
        id |-> cpu.id, id_sav |-> cpu.id_sav]

\* ... and the values it saves
CpuSave(cpu) ==
  IF cpu.cur = event_num
  THEN [cpu EXCEPT !.sav = cpu.cur, !.saved = sample', !.id_sav = cpu.id]
  ELSE cpu

\* event_num++
CountSample == event_num' = event_num + 1

\* Mutant: failed samples are counted too.
FailCounted == event_num' = event_num + 1

\* fail_exit leaves event_num alone
FailCount == UNCHANGED event_num

BeginSample ==
  /\ running /\ sample < MaxSamples
  /\ sample' = sample + 1
  /\ UNCHANGED <<lists, peeks, running>>

\* get_system_info fails before the ticks are read, or while they are: the
\* index of a core may already be this sample's.
SampleFails(lines) ==
  /\ BeginSample
  /\ lists
  /\ FailCount
  /\ cpus' = [c \in Cpus |-> CpuRead(c, lines)]
  /\ usage' = [c \in Cpus |-> NoUsage]
  /\ NoPeek
  /\ UNCHANGED <<last_good, line_vars>>

\* ... fails before update_system_cpu_data
SampleFailsEarly ==
  /\ BeginSample
  /\ lists
  /\ FailCount
  /\ usage' = [c \in Cpus |-> NoUsage]
  /\ NoPeek
  /\ UNCHANGED <<cpus, last_good, line_vars>>

\* get_system_info returns 0
SampleSucceeds(lines, v) ==
  /\ BeginSample
  /\ IF lists
     THEN LET now == [c \in Cpus |-> CpuRead(c, lines)] IN
          /\ usage' = [c \in Cpus |-> CpuUsage(now[c])]
          /\ cpus' = [c \in Cpus |-> CpuSave(now[c])]
          /\ online' = lines /\ was_online' = online
     ELSE /\ usage' = [c \in Cpus |-> NoUsage]
          /\ UNCHANGED <<cpus, line_vars>>
  /\ Peek(peeks, v)
  /\ CountSample
  /\ last_good' = sample'

\* START: sys_stat_prepare peeks at disk and network, not at the energy.
Prepare(v) ==
  /\ ~running
  /\ running' = TRUE
  /\ Peek(Narrow, v)
  /\ usage' = [c \in Cpus |-> NoUsage]
  /\ UNCHANGED <<lists, peeks, sample, event_num, cpus, last_good, line_vars>>

Stop ==
  /\ running
  /\ running' = FALSE
  /\ usage' = [c \in Cpus |-> NoUsage]
  /\ NoPeek
  /\ UNCHANGED <<lists, peeks, sample, event_num, cpus, last_good, line_vars>>

Configure(l, K) ==
  /\ lists' = l /\ peeks' = K
  /\ usage' = [c \in Cpus |-> NoUsage]
  /\ NoPeek
  /\ UNCHANGED <<running, sample, event_num, cpus, last_good, line_vars>>

Next ==
  \/ \E lines \in Lines : SampleFails(lines)
  \/ SampleFailsEarly
  \/ \E lines \in Lines, v \in Values : SampleSucceeds(lines, v)
  \/ \E v \in Values : Prepare(v)
  \/ Stop
  \/ \E l \in BOOLEAN, K \in SUBSET Counters : Configure(l, K)

Spec == Init /\ [][Next]_vars

-----------------------------------------------------------------------------
\* Properties.

\* Every variable has its type.
TypeOK ==
  /\ lists \in BOOLEAN /\ peeks \in SUBSET Counters /\ running \in BOOLEAN
  /\ sample \in 0..MaxSamples /\ event_num \in 0..MaxSamples
  /\ last_good \in 0..MaxSamples
  /\ cpus \in [Cpus -> [cur : -1..MaxSamples, sav : -1..MaxSamples,
                        ticks : 0..MaxSamples, saved : 0..MaxSamples,
                        id : 0..NumCpu, id_sav : 0..NumCpu]]
  /\ usage \in [Cpus -> [by : {"none", "delta", "elapsed"}, from : 0..MaxSamples,
                         ticks : 0..MaxSamples, good : 0..MaxSamples,
                         id : 0..NumCpu, id_sav : 0..NumCpu]]
  /\ online \in Lines /\ was_online \in Lines
  /\ old \in [Counters -> 0..MaxValue] /\ diff \in [Counters -> 0..MaxValue]
  /\ \A k \in Narrow : old[k] < Wrap
  /\ read \in Values /\ seen \in Values

\* What the test sav_load_index == event_num - 1 of update_cpus_info decides:
\* idle ticks are subtracted exactly when the last sample that succeeded saved
\* them, or when none has succeeded yet and they count from boot.  That sample
\* need not be "just before 1 period", as the code says at the test: failed
\* samples and whole sessions may lie in between.  What they are subtracted
\* from was read after that sample, although a failed sample leaves its
\* cur_load_index behind.  And although entry i takes whatever line is the
\* i-th, a subtraction over ticks read now is over one core as long as the
\* cores online are those of the last sample that saved.
DeltaAgainstLastGood ==
  \A c \in Cpus : usage[c].by # "none" =>
     /\ usage[c].by = "delta" <=> usage[c].from = usage[c].good
     /\ usage[c].ticks > usage[c].good
     /\ usage[c].by = "delta" /\ usage[c].from # 0 /\ usage[c].ticks = sample
          /\ online = was_online => usage[c].id = usage[c].id_sav

\* A reported difference never exceeds what the counter really grew since the
\* previous peek, whatever wrapped, failed or was switched off in between; a
\* counter that reads lower than before reports at most its value.
DiffWithinGrowth ==
  \A k \in Counters :
     diff[k] <= IF read[k] >= seen[k] THEN read[k] - seen[k] ELSE read[k]

=============================================================================
