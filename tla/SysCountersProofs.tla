-------------------------- MODULE SysCountersProofs --------------------------
(***************************************************************************)
(* Proofs about SysCounters, for any cores, counters, width and number of  *)
(* samples.                                                                *)
(***************************************************************************)
EXTENDS SysCounters, TLAPS

-----------------------------------------------------------------------------
\* What cutting a counter to its width does.

\* The remainder is a natural number below the width and not above the value.
LEMMA ModBounds ==
  ASSUME NEW v \in Nat, NEW w \in Nat \ {0}
  PROVE  v % w \in Nat /\ v % w < w /\ v % w <= v
<1> DEFINE q == v \div w
<1>1. v % w \in 0..(w - 1)
  OBVIOUS
<1>2. q \in Nat /\ v = w * q + (v % w)
  OBVIOUS
<1>3. w * q >= 0
  BY <1>2
<1> HIDE DEF q
<1> QED BY <1>1, <1>2, <1>3

\* Two remainders are no further apart than the values, or one has wrapped.
LEMMA ModDiff ==
  ASSUME NEW v \in Nat, NEW r \in Nat, NEW w \in Nat \ {0}, v >= r
  PROVE  val_diff(v % w, r % w) <= v - r
<1> DEFINE p == v \div w
           q == r \div w
<1>1. v % w \in 0..(w - 1) /\ r % w \in 0..(w - 1)
  OBVIOUS
<1>2. p \in Nat /\ v = w * p + (v % w)
  OBVIOUS
<1>3. q \in Nat /\ r = w * q + (r % w)
  OBVIOUS
<1> HIDE DEF p, q
<1>4. w * p - w * q = w * (p - q)
  BY <1>2, <1>3
<1>5. CASE p < q
  <2>1. w * (p - q) <= -w
    BY <1>2, <1>3, <1>5
  <2> QED BY <2>1, <1>1, <1>2, <1>3, <1>4
<1>6. CASE p = q
  <2>1. w * (p - q) = 0
    BY <1>2, <1>3, <1>6
  <2> QED BY <2>1, <1>1, <1>2, <1>3, <1>4 DEF val_diff
<1>7. CASE p > q
  <2>1. w * (p - q) >= w
    BY <1>2, <1>3, <1>7
  <2> QED BY <2>1, <1>1, <1>2, <1>3, <1>4 DEF val_diff
<1> QED BY <1>2, <1>3, <1>5, <1>6, <1>7

-----------------------------------------------------------------------------
\* The inductive invariant.

\* What holds of the record of a core with e = event_num, g = last_good and
\* s = sample: sav_load_index tells whether the last successful sample saved
\* its ticks, cur_load_index that they were read after that sample.
CpuRec == [cur : Int, sav : Int, ticks : Nat, saved : Nat,
           id : 0..NumCpu, id_sav : 0..NumCpu]

CpuOK(u, e, g, s) ==
  /\ u \in CpuRec
  /\ -1 <= u.cur /\ u.cur <= e /\ -1 <= u.sav /\ u.sav <= e - 1
  /\ u.saved <= g /\ u.ticks <= s
  /\ u.cur = e => u.ticks > g
  /\ u.sav = e - 1 <=> u.saved = g

UsageOK(u, s) ==
  /\ u \in [by : {"none", "delta", "elapsed"}, from : Nat, ticks : Nat, good : Nat,
            id : 0..NumCpu, id_sav : 0..NumCpu]
  /\ u.from <= s /\ u.ticks <= s /\ u.good <= s
  /\ u.by # "none" => (u.by = "delta" <=> u.from = u.good) /\ u.ticks > u.good

CpuInv ==
  /\ sample \in Nat /\ sample <= MaxSamples
  /\ event_num \in Nat /\ event_num <= sample
  /\ last_good \in Nat /\ last_good <= sample
  /\ cpus = [c \in Cpus |-> cpus[c]] /\ usage = [c \in Cpus |-> usage[c]]
  /\ \A c \in Cpus : CpuOK(cpus[c], event_num, last_good, sample)
  /\ \A c \in Cpus : UsageOK(usage[c], sample)

\* The static previous value of a counter is the last real one, cut to its
\* width.
CountInv ==
  /\ read \in Values /\ seen \in Values
  /\ old = [k \in Counters |-> Stored(k, read[k])]
  /\ diff \in [Counters -> 0..MaxValue]
  /\ DiffWithinGrowth

FlagInv == lists \in BOOLEAN /\ peeks \in SUBSET Counters /\ running \in BOOLEAN

\* Ticks saved by the last sample that succeeded are of the core whose line
\* that sample gave to the entry; and what update_cpus_info compared in this
\* sample, if both samples had the same lines.
LineInv ==
  /\ online \in Lines /\ was_online \in Lines
  /\ \A c \in Cpus :
       cpus[c].saved # 0 /\ cpus[c].sav = event_num - 1 /\ HasLine(online, c)
         => cpus[c].id_sav = LineOf(online, c)
  /\ \A c \in Cpus :
       usage[c].by = "delta" /\ usage[c].from # 0 /\ usage[c].ticks = sample
         /\ online = was_online => usage[c].id = usage[c].id_sav

IInv == FlagInv /\ CpuInv /\ LineInv /\ CountInv

-----------------------------------------------------------------------------
\* update_system_cpu_data keeps the record of a core right.
LEMMA ReadKeeps ==
  ASSUME CpuInv, NEW c \in Cpus, NEW lines \in Lines, sample' = sample + 1
  PROVE  /\ CpuOK(CpuRead(c, lines), event_num, last_good, sample')
         /\ CpuRead(c, lines).id_sav = cpus[c].id_sav
         /\ CpuRead(c, lines).sav = cpus[c].sav
         /\ CpuRead(c, lines).saved = cpus[c].saved
         /\ HasLine(lines, c) => /\ CpuRead(c, lines).id = LineOf(lines, c)
                                /\ CpuRead(c, lines).cur = event_num
         /\ ~HasLine(lines, c) => CpuRead(c, lines) = cpus[c]
<1>1. CpuOK(cpus[c], event_num, last_good, sample)
  BY DEF CpuInv
<1>2. CASE ~HasLine(lines, c)
  <2>1. CpuRead(c, lines) = cpus[c]
    BY <1>2 DEF CpuRead
  <2> QED BY <1>1, <1>2, <2>1 DEF CpuInv, CpuOK, CpuRec
<1>3. CASE HasLine(lines, c)
  <2> DEFINE u == cpus[c]
             r == CpuRead(c, lines)
             n == LineOf(lines, c)
  <2>1. u \in CpuRec
    BY <1>1 DEF CpuOK
  <2>2. sample' \in Nat /\ event_num \in Int
    BY DEF CpuInv
  <2>3. n \in 0..NumCpu
    BY <1>3, CpuAssumption DEF LineOf, HasLine, Lines, Cpus
  <2>4. r = [u EXCEPT !.ticks = sample', !.cur = event_num, !.id = n]
    BY <1>3 DEF CpuRead
  <2> HIDE DEF n, u, r
  <2>5. /\ r \in CpuRec
        /\ r.cur = event_num /\ r.ticks = sample' /\ r.id = n
        /\ r.sav = u.sav /\ r.saved = u.saved /\ r.id_sav = u.id_sav
    BY <2>1, <2>2, <2>3, <2>4 DEF CpuRec
  <2>6. CpuOK(r, event_num, last_good, sample')
    BY <1>1, <2>5 DEF u, CpuInv, CpuOK, CpuRec
  <2> QED BY <1>3, <2>5, <2>6 DEF u, r, n
<1> QED BY <1>2, <1>3

\* A usage computed by update_cpus_info from such a record is right.
LEMMA UsageRight ==
  ASSUME CpuInv, NEW u, NEW s \in Nat, sample <= s,
         CpuOK(u, event_num, last_good, s)
  PROVE  UsageOK(CpuUsage(u), s)
<1>1. CASE u.cur # event_num
  BY <1>1, CpuAssumption DEF CpuUsage, NoUsage, UsageOK
<1>2. CASE u.cur = event_num
  BY <1>2 DEF CpuInv, CpuOK, CpuRec, CpuUsage, UsageOK
<1> QED BY <1>1, <1>2

\* The record stays right when the sample succeeds, saved or not.
LEMMA SaveKeeps ==
  ASSUME CpuInv, NEW u, sample' = sample + 1,
         CpuOK(u, event_num, last_good, sample')
  PROVE  /\ CpuOK(CpuSave(u), event_num + 1, sample', sample')
         /\ u.cur = event_num => CpuSave(u).id_sav = u.id
<1>1. CASE u.cur # event_num
  <2>1. CpuSave(u) = u
    BY <1>1 DEF CpuSave
  <2> QED BY <2>1, <1>1 DEF CpuInv, CpuOK, CpuRec
<1>2. CASE u.cur = event_num
  <2>1. CpuSave(u) = [u EXCEPT !.sav = u.cur, !.saved = sample', !.id_sav = u.id]
    BY <1>2 DEF CpuSave
  <2> DEFINE r == CpuSave(u)
  <2>2. u \in CpuRec /\ sample' \in Nat
    BY DEF CpuOK, CpuInv
  <2>3. /\ r \in CpuRec
        /\ r.cur = event_num /\ r.ticks = u.ticks
        /\ r.sav = event_num /\ r.saved = sample' /\ r.id_sav = u.id
    BY <1>2, <2>1, <2>2 DEF CpuRec
  <2> QED BY <2>3 DEF CpuInv, CpuOK, CpuRec
<1> QED BY <1>1, <1>2

\* The record stays right when the sample succeeds without the lists.
LEMMA CountKeeps ==
  ASSUME CpuInv, NEW u, CpuOK(u, event_num, last_good, sample)
  PROVE  CpuOK(u, event_num + 1, sample + 1, sample + 1)
BY DEF CpuInv, CpuOK, CpuRec

\* A difference cut to 32 bits is within the growth of the real values.
LEMMA PeekWithin ==
  ASSUME NEW k, NEW v \in Nat, NEW r \in Nat, NEW o, o = Stored(k, r)
  PROVE  /\ val_diff(Stored(k, v), o) % Wrap \in Nat
         /\ val_diff(Stored(k, v), o) % Wrap <= v
         /\ v >= r => val_diff(Stored(k, v), o) % Wrap <= v - r
<1> USE WidthAssumption
<1> DEFINE d == val_diff(Stored(k, v), o)
<1>1. Stored(k, v) \in Nat /\ Stored(k, v) <= v /\ o \in Nat
  BY ModBounds DEF Stored
<1>2. d \in Nat /\ d <= Stored(k, v)
  BY <1>1 DEF val_diff
<1>3. v >= r => d <= v - r
  <2>1. CASE k \in Narrow
    BY <2>1, ModDiff DEF Stored
  <2>2. CASE k \notin Narrow
    BY <2>2 DEF Stored, val_diff
  <2> QED BY <2>1, <2>2
<1> HIDE DEF d
<1>4. d % Wrap \in Nat /\ d % Wrap <= d
  BY <1>2, ModBounds
<1>5. d % Wrap <= v /\ (v >= r => d % Wrap <= v - r)
  BY <1>1, <1>2, <1>3, <1>4
<1> QED BY <1>4, <1>5 DEF d

\* Peeking at any counters keeps their part of the invariant.
LEMMA PeekKeeps ==
  ASSUME CountInv, NEW K, NEW v \in Values, Peek(K, v)
  PROVE  CountInv'
<1> USE WidthAssumption
<1>1. read \in Values /\ seen \in Values /\ diff \in [Counters -> 0..MaxValue]
      /\ old = [k \in Counters |-> Stored(k, read[k])]
  BY DEF CountInv
<1>2. /\ read' = [k \in Counters |-> IF k \in K THEN v[k] ELSE read[k]]
      /\ seen' = [k \in Counters |-> IF k \in K THEN read[k] ELSE seen[k]]
      /\ old' = [k \in Counters |-> IF k \in K THEN Stored(k, v[k]) ELSE old[k]]
      /\ diff' = [k \in Counters |-> IF k \in K THEN PeekDiff(k, v[k]) ELSE 0]
  BY DEF Peek
<1>3. read' \in Values /\ seen' \in Values
  BY <1>1, <1>2 DEF Values
<1>4. old' = [k \in Counters |-> Stored(k, read'[k])]
  BY <1>1, <1>2
<1>5. ASSUME NEW k \in Counters
      PROVE  /\ diff'[k] \in 0..MaxValue
             /\ diff'[k] <= IF read'[k] >= seen'[k] THEN read'[k] - seen'[k]
                                                    ELSE read'[k]
  <2>1. CASE k \in K
    <3>1. v[k] \in 0..MaxValue /\ read[k] \in 0..MaxValue
      BY <1>1 DEF Values
    <3>2. read'[k] = v[k] /\ seen'[k] = read[k] /\ diff'[k] = PeekDiff(k, v[k])
      BY <1>2, <2>1
    <3>3. old[k] = Stored(k, read[k])
      BY <1>1
    <3>4. /\ PeekDiff(k, v[k]) \in Nat /\ PeekDiff(k, v[k]) <= v[k]
          /\ v[k] >= read[k] => PeekDiff(k, v[k]) <= v[k] - read[k]
      <4>1. v[k] \in Nat /\ read[k] \in Nat
        BY <3>1
      <4>2. /\ val_diff(Stored(k, v[k]), old[k]) % Wrap \in Nat
            /\ val_diff(Stored(k, v[k]), old[k]) % Wrap <= v[k]
            /\ v[k] >= read[k]
                 => val_diff(Stored(k, v[k]), old[k]) % Wrap <= v[k] - read[k]
        BY <4>1, <3>3, PeekWithin, Zenon
      <4> QED BY <4>2 DEF PeekDiff
    <3> QED BY <3>1, <3>2, <3>4
  <2>2. CASE k \notin K
    <3>1. read'[k] \in 0..MaxValue /\ seen'[k] \in 0..MaxValue
      BY <1>3 DEF Values
    <3>2. diff'[k] = 0
      BY <1>2, <2>2
    <3> QED BY <3>1, <3>2
  <2> QED BY <2>1, <2>2
<1>6. diff' \in [Counters -> 0..MaxValue]
  BY <1>2, <1>5
<1> QED BY <1>3, <1>4, <1>5, <1>6 DEF CountInv, DiffWithinGrowth

LEMMA NoPeekKeeps ==
  ASSUME CountInv, NoPeek
  PROVE  CountInv'
<1> USE WidthAssumption
<1>1. ASSUME NEW k \in Counters
      PROVE  0 <= IF read[k] >= seen[k] THEN read[k] - seen[k] ELSE read[k]
  BY DEF CountInv, Values
<1> QED BY <1>1 DEF CountInv, NoPeek, DiffWithinGrowth, Values, Stored

-----------------------------------------------------------------------------
LEMMA Initially == Init => IInv
<1> SUFFICES ASSUME Init PROVE IInv
  OBVIOUS
<1> USE WidthAssumption, SampleAssumption
<1>1. FlagInv
  BY DEF Init, FlagInv
<1>2. \A c \in Cpus : /\ cpus[c] = [cur |-> -1, sav |-> -1, ticks |-> 0, saved |-> 0,
                                   id |-> 0, id_sav |-> 0]
                      /\ usage[c] = NoUsage
  BY DEF Init
<1>3. CpuInv
  BY <1>2, CpuAssumption DEF Init, CpuInv, CpuOK, CpuRec, UsageOK, NoUsage
<1>6. LineInv
  <2>1. <<>> \in Lines
    BY CpuAssumption DEF Lines, Cpus
  <2> QED BY <1>2, <2>1 DEF Init, LineInv, NoUsage
<1>4. \A k \in Counters : Stored(k, 0) = 0
  BY ModBounds DEF Stored
<1>5. CountInv
  BY <1>4 DEF Init, CountInv, Values, DiffWithinGrowth
<1> QED BY <1>1, <1>3, <1>5, <1>6 DEF IInv

\* The core records survive the steps that leave them alone and report none.
LEMMA IdleCpus ==
  ASSUME CpuInv, LineInv, UNCHANGED <<sample, event_num, cpus, last_good, line_vars>>,
         usage' = [c \in Cpus |-> NoUsage]
  PROVE  CpuInv' /\ LineInv'
<1>1. \A c \in Cpus : UsageOK(usage'[c], sample')
  BY CpuAssumption DEF CpuInv, UsageOK, NoUsage
<1>2. LineInv'
  BY DEF LineInv, line_vars, NoUsage
<1> QED BY <1>1, <1>2 DEF CpuInv

LEMMA Inductive == IInv /\ [Next]_vars => IInv'
<1> SUFFICES ASSUME IInv, [Next]_vars PROVE IInv'
  OBVIOUS
<1>0. FlagInv /\ CpuInv /\ LineInv /\ CountInv
  BY DEF IInv
<1>1. ASSUME NEW lines \in Lines, SampleFails(lines) PROVE IInv'
  <2>1. sample' = sample + 1 /\ sample' <= MaxSamples
    BY <1>0, <1>1, SampleAssumption DEF SampleFails, BeginSample, CpuInv
  <2>2. \A c \in Cpus : CpuOK(cpus'[c], event_num', last_good', sample')
    BY <1>0, <1>1, <2>1, ReadKeeps DEF SampleFails, FailCount
  <2>3. \A c \in Cpus : UsageOK(usage'[c], sample')
    BY <1>0, <1>1, <2>1, CpuAssumption DEF SampleFails, UsageOK, NoUsage, CpuInv
  <2>4. CpuInv'
    BY <1>0, <1>1, <2>1, <2>2, <2>3 DEF SampleFails, CpuInv, FailCount
  <2>5. LineInv'
    <3>1. \A c \in Cpus : /\ cpus'[c].id_sav = cpus[c].id_sav
                          /\ cpus'[c].sav = cpus[c].sav
                          /\ cpus'[c].saved = cpus[c].saved
                          /\ usage'[c].by = "none"
      BY <1>0, <1>1, <2>1, ReadKeeps DEF SampleFails, NoUsage
    <3> QED BY <1>0, <1>1, <3>1 DEF LineInv, SampleFails, FailCount, line_vars, HasLine, LineOf
  <2> QED BY <1>0, <1>1, <2>4, <2>5, NoPeekKeeps DEF SampleFails, BeginSample, FlagInv, IInv
<1>2. CASE SampleFailsEarly
  <2>1. sample' = sample + 1 /\ sample' <= MaxSamples
    BY <1>0, <1>2, SampleAssumption DEF SampleFailsEarly, BeginSample, CpuInv
  <2>2. \A c \in Cpus : CpuOK(cpus'[c], event_num', last_good', sample')
    BY <1>0, <1>2, <2>1 DEF SampleFailsEarly, FailCount, CpuInv, CpuOK, CpuRec
  <2>3. \A c \in Cpus : UsageOK(usage'[c], sample')
    BY <1>0, <1>2, <2>1, CpuAssumption DEF SampleFailsEarly, UsageOK, NoUsage, CpuInv
  <2>4. CpuInv'
    BY <1>0, <1>2, <2>1, <2>2, <2>3 DEF SampleFailsEarly, CpuInv, FailCount
  <2>5. LineInv'
    BY <1>0, <1>2
    DEF LineInv, SampleFailsEarly, FailCount, line_vars, HasLine, LineOf, NoUsage
  <2> QED BY <1>0, <1>2, <2>4, <2>5, NoPeekKeeps DEF SampleFailsEarly, BeginSample, FlagInv, IInv
<1>3. ASSUME NEW lines \in Lines, NEW v \in Values, SampleSucceeds(lines, v) PROVE IInv'
  <2>1. sample' = sample + 1 /\ sample' <= MaxSamples
    BY <1>0, <1>3, SampleAssumption DEF SampleSucceeds, BeginSample, CpuInv
  <2>2. last_good' = sample' /\ event_num' = event_num + 1
    BY <1>3 DEF SampleSucceeds, CountSample
  <2>3. /\ \A c \in Cpus : CpuOK(cpus'[c], event_num', last_good', sample')
        /\ \A c \in Cpus : UsageOK(usage'[c], sample')
        /\ cpus' = [c \in Cpus |-> cpus'[c]] /\ usage' = [c \in Cpus |-> usage'[c]]
        /\ LineInv'
    <3>1. CASE lists
      <4>1. /\ usage' = [c \in Cpus |-> CpuUsage(CpuRead(c, lines))]
            /\ cpus' = [c \in Cpus |-> CpuSave(CpuRead(c, lines))]
        BY <1>3, <3>1 DEF SampleSucceeds
      <4>2. \A c \in Cpus : CpuOK(CpuRead(c, lines), event_num, last_good, sample')
        BY <1>0, <2>1, ReadKeeps
      <4>3. \A c \in Cpus : CpuOK(CpuSave(CpuRead(c, lines)), event_num + 1, sample', sample')
        BY <1>0, <2>1, <4>2, SaveKeeps
      <4>4. sample' \in Nat /\ sample <= sample'
        BY <1>0, <2>1 DEF CpuInv
      <4>5. \A c \in Cpus : UsageOK(CpuUsage(CpuRead(c, lines)), sample')
        BY <1>0, <4>2, <4>4, UsageRight
      <4>6. online' = lines /\ was_online' = online
        BY <1>3, <3>1 DEF SampleSucceeds
      <4>7. ASSUME NEW c \in Cpus, HasLine(lines, c)
            PROVE  cpus'[c].id_sav = LineOf(lines, c)
        BY <1>0, <2>1, <4>1, <4>2, <4>7, ReadKeeps, SaveKeeps
      <4>8. ASSUME NEW c \in Cpus, usage'[c].by = "delta", usage'[c].from # 0,
                   usage'[c].ticks = sample', lines = online
            PROVE  usage'[c].id = usage'[c].id_sav
        <5> DEFINE u == CpuRead(c, lines)
        <5>1. usage'[c] = CpuUsage(u)
          BY <4>1
        <5>2. /\ u.cur = event_num /\ u.sav = event_num - 1 /\ u.saved # 0
              /\ u.ticks = sample'
              /\ usage'[c].id = u.id /\ usage'[c].id_sav = u.id_sav
          BY <4>8, <5>1 DEF CpuUsage, NoUsage
        <5>3. HasLine(lines, c)
          <6>1. SUFFICES ASSUME ~HasLine(lines, c) PROVE FALSE
            OBVIOUS
          <6>2. u = cpus[c]
            BY <1>0, <2>1, <6>1, ReadKeeps
          <6>3. cpus[c].ticks <= sample /\ cpus[c].ticks \in Nat /\ sample \in Nat
            BY <1>0 DEF CpuInv, CpuOK, CpuRec
          <6> HIDE DEF u
          <6> QED BY <2>1, <5>2, <6>2, <6>3
        <5>4. /\ u.id_sav = cpus[c].id_sav /\ u.sav = cpus[c].sav
              /\ u.saved = cpus[c].saved /\ u.id = LineOf(lines, c)
          BY <1>0, <2>1, <5>3, ReadKeeps
        <5> HIDE DEF u
        <5> QED BY <1>0, <4>8, <5>2, <5>3, <5>4 DEF LineInv
      <4>9. LineInv'
        BY <1>0, <4>6, <4>7, <4>8 DEF LineInv, HasLine, LineOf
      <4> QED BY <2>2, <4>1, <4>3, <4>5, <4>9
    <3>2. CASE ~lists
      <4>1. usage' = [c \in Cpus |-> NoUsage] /\ cpus' = cpus
        BY <1>3, <3>2 DEF SampleSucceeds
      <4>2. \A c \in Cpus : CpuOK(cpus[c], event_num + 1, sample + 1, sample + 1)
        BY <1>0, CountKeeps DEF CpuInv
      <4>3. UsageOK(NoUsage, sample')
        BY <1>0, <2>1, CpuAssumption DEF UsageOK, NoUsage, CpuInv
      <4>4. LineInv'
        <5>1. \A c \in Cpus : cpus[c].sav # event_num' - 1
          BY <1>0, <2>2 DEF CpuInv, CpuOK, CpuRec
        <5>2. online' = online /\ was_online' = was_online
          BY <1>3, <3>2 DEF SampleSucceeds, line_vars
        <5> QED BY <1>0, <4>1, <5>1, <5>2 DEF LineInv, NoUsage
      <4> QED BY <1>0, <2>1, <2>2, <4>1, <4>2, <4>3, <4>4 DEF CpuInv
    <3> QED BY <3>1, <3>2
  <2>4. CpuInv'
    BY <1>0, <2>1, <2>2, <2>3 DEF CpuInv
  <2>5. CountInv'
    BY <1>0, <1>3, PeekKeeps DEF SampleSucceeds
  <2> QED BY <1>0, <1>3, <2>3, <2>4, <2>5 DEF SampleSucceeds, BeginSample, FlagInv, IInv
<1>4. ASSUME NEW v \in Values, Prepare(v) PROVE IInv'
  <2>1. CpuInv' /\ LineInv'
    BY <1>0, <1>4, IdleCpus DEF Prepare
  <2>2. CountInv'
    BY <1>0, <1>4, PeekKeeps DEF Prepare
  <2> QED BY <1>0, <1>4, <2>1, <2>2 DEF Prepare, FlagInv, IInv
<1>5. CASE Stop
  <2>1. CpuInv' /\ LineInv'
    BY <1>0, <1>5, IdleCpus DEF Stop
  <2> QED BY <1>0, <1>5, <2>1, NoPeekKeeps DEF Stop, FlagInv, IInv
<1>6. ASSUME NEW l \in BOOLEAN, NEW K \in SUBSET Counters, Configure(l, K) PROVE IInv'
  <2>1. CpuInv' /\ LineInv'
    BY <1>0, <1>6, IdleCpus DEF Configure
  <2> QED BY <1>0, <1>6, <2>1, NoPeekKeeps DEF Configure, FlagInv, IInv
<1>7. CASE UNCHANGED vars
  BY <1>0, <1>7 DEF vars, line_vars, IInv, FlagInv, CpuInv, LineInv, HasLine, LineOf, CountInv,
                  DiffWithinGrowth, Values
<1> QED BY <1>1, <1>2, <1>3, <1>4, <1>5, <1>6, <1>7 DEF Next

LEMMA Invariance == Spec => []IInv
BY Initially, Inductive, PTL DEF Spec

-----------------------------------------------------------------------------
\* Type correctness: the indices stay within the samples taken, and what is
\* kept of a narrow counter fits its width (sys_stat.c, get_system_info).
THEOREM TypeCorrect == Spec => []TypeOK
<1>1. IInv => TypeOK
  <2> SUFFICES ASSUME IInv PROVE TypeOK
    OBVIOUS
  <2> USE WidthAssumption, SampleAssumption
  <2>1. FlagInv /\ CpuInv /\ LineInv /\ CountInv
    BY DEF IInv
  <2>2. \A c \in Cpus : cpus[c] \in [cur : -1..MaxSamples, sav : -1..MaxSamples,
                                    ticks : 0..MaxSamples, saved : 0..MaxSamples,
                                    id : 0..NumCpu, id_sav : 0..NumCpu]
    BY <2>1 DEF CpuInv, CpuOK, CpuRec
  <2>3. \A c \in Cpus : usage[c] \in [by : {"none", "delta", "elapsed"},
                                     from : 0..MaxSamples, ticks : 0..MaxSamples,
                                     good : 0..MaxSamples,
                                     id : 0..NumCpu, id_sav : 0..NumCpu]
    BY <2>1 DEF CpuInv, UsageOK
  <2>4. \A k \in Counters : /\ Stored(k, read[k]) \in 0..MaxValue
                            /\ k \in Narrow => Stored(k, read[k]) < Wrap
    BY <2>1, ModBounds DEF CountInv, Values, Stored
  <2>5. old \in [Counters -> 0..MaxValue] /\ \A k \in Narrow : old[k] < Wrap
    BY <2>1, <2>4 DEF CountInv, Counters
  <2>6. cpus \in [Cpus -> [cur : -1..MaxSamples, sav : -1..MaxSamples,
                           ticks : 0..MaxSamples, saved : 0..MaxSamples,
                           id : 0..NumCpu, id_sav : 0..NumCpu]]
    BY <2>1, <2>2 DEF CpuInv
  <2>7. usage \in [Cpus -> [by : {"none", "delta", "elapsed"}, from : 0..MaxSamples,
                            ticks : 0..MaxSamples, good : 0..MaxSamples,
                            id : 0..NumCpu, id_sav : 0..NumCpu]]
    BY <2>1, <2>3 DEF CpuInv
  <2> QED BY <2>1, <2>5, <2>6, <2>7 DEF TypeOK, FlagInv, CpuInv, LineInv, CountInv
<1> QED BY <1>1, Invariance, PTL

\* update_cpus_info subtracts the saved idle ticks exactly when the last
\* successful sample saved them, however long ago, from ticks read after it,
\* and of one core unless the lines of /proc/stat have moved.
THEOREM DeltaRight == Spec => []DeltaAgainstLastGood
<1>1. IInv => DeltaAgainstLastGood
  BY DEF IInv, CpuInv, LineInv, UsageOK, DeltaAgainstLastGood
<1> QED BY <1>1, Invariance, PTL

\* A reported disk, network or energy difference is never more than the counter
\* grew, for every width the counters are cut to.
THEOREM DiffRight == Spec => []DiffWithinGrowth
<1>1. IInv => DiffWithinGrowth
  BY DEF IInv, CountInv
<1> QED BY <1>1, Invariance, PTL
=============================================================================
