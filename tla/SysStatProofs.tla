---------------------------- MODULE SysStatProofs ----------------------------
(***************************************************************************)
(* Proofs about SysStat, for any finite set of pids and any bounds.        *)
(***************************************************************************)
EXTENDS SysStat, FiniteSetTheorems, NaturalsInduction, TLAPS

\* A message is being made: get_system_info has filled what it reports.
Packing == {"length", "pack", "write"}

\* The inst list was updated by the stat pass of this sample; so was the other.
InstRead == {"stat_other", "elapsed", "smaps", "threads", "fill"}
OtherRead == InstRead \ {"stat_other"}

\* The end of the time over which this sample's ticks will be counted.
Base == IF spc \in {"smaps", "threads", "fill"} THEN since ELSE old_time

\* No sample from the n-th to this one was disturbed.
Clean(n) == faulty \cap n..sample = {}

\* Types that TypeOK leaves open.
ShapeInv ==
  /\ DOMAIN inst_pidarray \subseteq Nat /\ DOMAIN other_pidarray \subseteq Nat
  /\ info.inst \subseteq Pids /\ info.other \subseteq Pids /\ info.threads \in Nat

\* The thread exists only in a session, and only the main loop ends it.
ThreadInv ==
  /\ spc # "off" => running
  /\ main # "idle" => running

\* The number of the sample and the two times.
TimeInv ==
  /\ spc \notin {"off", "wait"} => sample >= 1
  /\ since <= old_time /\ old_time <= sample
  /\ spc \in {"smaps", "threads", "fill"} => old_time = sample

\* Marks, and which pids the lists may hold.
ListInv ==
  /\ \A p \in DOMAIN other_prochead : ~other_prochead[p].found
  /\ spc \in {"stat_other", "elapsed", "smaps"} =>
       \A p \in DOMAIN inst_prochead : ~inst_prochead[p].found
  /\ spc \in {"stat_inst"} \cup InstRead =>
       Elems(inst_pidarray) \cap Elems(other_pidarray) = {}
  /\ spc \in {"threads", "fill"} => DOMAIN inst_prochead \subseteq Elems(inst_pidarray)
  /\ spc \in OtherRead => DOMAIN other_prochead \subseteq Elems(other_pidarray)

\* Before the stat pass of a sample the list holds what the last fill saved.
Saved(list) == Clean(old_time) => \A p \in DOMAIN list : list[p].saved.at = old_time

\* After it, the nodes of the listed pids are of this sample.
Fresh(list, a) ==
  /\ Clean(sample) =>
       \A p \in Elems(a) : p \in DOMAIN list /\ list[p].data.at = sample
  /\ Clean(Base) =>
       \A p \in Elems(a) :
          list[p].saved = list[p].data \/ list[p].saved.at = Base

LoadInv ==
  /\ IF spc \in InstRead THEN Fresh(inst_prochead, inst_pidarray)
                         ELSE Saved(inst_prochead)
  /\ IF spc \in OtherRead THEN Fresh(other_prochead, other_pidarray)
                          ELSE Saved(other_prochead)

\* The message.
MessageInv ==
  /\ spc \notin Packing => info = NoInfo
  /\ spc # "write" => packed = 0
  /\ spc \in {"length", "pack"} => info.threads = ThreadsOf(inst_prochead, info.inst)
  /\ spc = "pack" =>
       alloc = On("thread_load", info.threads)
                 + On("process", Cardinality(info.inst))
                 + On("processes_load", Cardinality(info.other))

\* A load is counted over the time elapsed, whoever had the pid.
TimesSpan ==
  Filled /\ faulty \cap since..sample = {} =>
     \A p \in DOMAIN info.loads :
        /\ info.loads[p].to.at = sample
        /\ \/ info.loads[p].from = info.loads[p].to
           \/ info.loads[p].from.at = since

\* A reading of pid p is one of the process that has the pid now, or it was
\* made before that process was given the pid.
Own(p, r) ==
  /\ r.inc = procs[p].inc \/ r.at <= procs[p].reused
  /\ r.at <= sample
  /\ r.inc = 0 => r.at = 0

OwnList(list) == \A p \in DOMAIN list : Own(p, list[p].data) /\ Own(p, list[p].saved)

OwnLoads ==
  /\ DOMAIN info.loads \subseteq Pids
  /\ \A p \in DOMAIN info.loads : Own(p, info.loads[p].from) /\ Own(p, info.loads[p].to)

ReuseInv ==
  /\ \A p \in Pids : /\ procs[p].up => procs[p].inc # 0
                     /\ procs[p].inc = 0 => procs[p].reused = 0
  /\ OwnList(inst_prochead) /\ OwnList(other_prochead)
  /\ OwnLoads

RestInv ==
  /\ TimeInv /\ ListInv /\ LoadInv /\ MessageInv
  /\ ReportsOnlyListed /\ TimesSpan /\ PackedFits

IInv == TypeOK /\ ShapeInv /\ ThreadInv /\ RestInv /\ ReuseInv

-----------------------------------------------------------------------------
\* Sums.

\* g is the sum of f over the subsets of S, as MapThenSumSet adds it up.
Pick(s) == CHOOSE x \in s : TRUE
IsSum(g, f, S) ==
  g = [s \in SUBSET S |-> IF s = {} THEN 0 ELSE f[Pick(s)] + g[s \ {Pick(s)}]]

\* A set of numbers has a least element.
LEMMA LeastNat ==
  ASSUME NEW T, T \subseteq Nat, T # {}
  PROVE  \E n \in T : \A m \in T : n <= m
<1>1. PICK n \in T : \A m \in T : ~(<<m, n>> \in OpToRel(<, Nat))
  BY NatLessThanWellFounded, WFMin
<1>2. \A m \in T : ~(m < n)
  BY <1>1 DEF OpToRel
<1> QED
  BY <1>2

\* A set of numbers closed under successor holds them all.
LEMMA NatSet ==
  ASSUME NEW T, T \subseteq Nat, 0 \in T, \A n \in T : n + 1 \in T
  PROVE  T = Nat
<1>1. SUFFICES ASSUME Nat \ T # {} PROVE FALSE
  OBVIOUS
<1>2. PICK n \in Nat \ T : \A m \in Nat \ T : n <= m
  BY <1>1, LeastNat
<1>3. n # 0 /\ n - 1 \in Nat /\ n - 1 \in T
  BY <1>2
<1>4. (n - 1) + 1 \in T
  BY <1>3
<1> QED
  BY <1>2, <1>4

\* Pick takes an element.
LEMMA PickIn ==
  ASSUME NEW s, s # {}
  PROVE  Pick(s) \in s
BY DEF Pick

\* A set of subsets of a finite set has one from which Pick leads out of it.
LEMMA LeastSet ==
  ASSUME NEW S, IsFiniteSet(S), NEW C, C \subseteq SUBSET S, C # {}
  PROVE  \E s \in C : s = {} \/ s \ {Pick(s)} \notin C
<1> DEFINE N == {Cardinality(s) : s \in C}
<1>1. \A s \in C : IsFiniteSet(s) /\ Cardinality(s) \in Nat
  BY FS_Subset, FS_CardinalityType
<1>2. PICK n \in N : \A m \in N : n <= m
  <2>1. N \subseteq Nat /\ N # {}
    BY <1>1
  <2> HIDE DEF N
  <2> QED
    BY <2>1, LeastNat
<1>3. PICK s \in C : Cardinality(s) = n
  BY <1>2
<1>4. SUFFICES ASSUME s # {}, s \ {Pick(s)} \in C
               PROVE  FALSE
  BY <1>3
<1>5. Cardinality(s \ {Pick(s)}) = Cardinality(s) - 1
  BY <1>1, <1>4, PickIn, FS_RemoveElement
<1>6. n <= Cardinality(s \ {Pick(s)})
  BY <1>2, <1>4
<1> QED
  BY <1>1, <1>3, <1>5, <1>6

\* The sum exists: it is built up by the size of the subsets.
LEMMA SumExists ==
  ASSUME NEW S, IsFiniteSet(S), NEW f
  PROVE  \E g : IsSum(g, f, S)
<1> DEFINE Upto(n) == {s \in SUBSET S : Cardinality(s) <= n}
           Part(g, n) ==
             g = [s \in Upto(n) |->
                    IF s = {} THEN 0 ELSE f[Pick(s)] + g[s \ {Pick(s)}]]
           Bad == {n \in Nat : ~\E g : Part(g, n)}
<1>1. \A s \in SUBSET S : Cardinality(s) \in Nat /\ IsFiniteSet(s)
  BY FS_Subset, FS_CardinalityType
<1>2. Cardinality(S) \in Nat /\ Upto(Cardinality(S)) = SUBSET S
  BY FS_Subset, FS_CardinalityType
<1>3. \A s \in SUBSET S : s # {} => /\ s \ {Pick(s)} \in SUBSET S
                                    /\ Cardinality(s \ {Pick(s)}) = Cardinality(s) - 1
  BY <1>1, PickIn, FS_RemoveElement
<1>4. 0 \notin Bad
  <2> DEFINE g == [s \in Upto(0) |-> 0]
  <2>1. \A s \in Upto(0) : s = {}
    BY <1>1, FS_EmptySet
  <2>2. Part(g, 0)
    BY <2>1
  <2> QED
    BY <2>2
<1>5. ASSUME NEW n \in Nat, n \notin Bad
      PROVE  n + 1 \notin Bad
  <2>1. PICK g : Part(g, n)
    BY <1>5
  <2> DEFINE h == [s \in Upto(n + 1) |->
                     IF s = {} THEN 0 ELSE f[Pick(s)] + g[s \ {Pick(s)}]]
  <2>2. \A s \in Upto(n) : s \in Upto(n + 1)
    BY <1>1
  <2>3. \A s \in Upto(n) : h[s] = g[s]
    BY <2>1, <2>2
  <2>4. \A s \in Upto(n + 1) : s # {} => s \ {Pick(s)} \in Upto(n)
    BY <1>1, <1>3
  <2>5. Part(h, n + 1)
    BY <2>3, <2>4
  <2> QED
    BY <2>5
<1>6. Nat \ Bad = Nat
  <2> HIDE DEF Bad
  <2>1. /\ Nat \ Bad \subseteq Nat
        /\ 0 \in Nat \ Bad
        /\ \A n \in Nat \ Bad : n + 1 \in Nat \ Bad
    BY <1>4, <1>5
  <2> QED
    BY <2>1, NatSet
<1>7. PICK g : Part(g, Cardinality(S))
  BY <1>2, <1>6
<1> QED
  BY <1>2, <1>7 DEF IsSum

\* It is a number, no less than any of its terms.
LEMMA SumNat ==
  ASSUME NEW S, IsFiniteSet(S), NEW f \in [S -> Nat], NEW g, IsSum(g, f, S)
  PROVE  g[S] \in Nat /\ \A x \in S : f[x] <= g[S]
<1> DEFINE Good(s) == g[s] \in Nat /\ \A x \in s : f[x] <= g[s]
           C == {s \in SUBSET S : ~Good(s)}
<1>1. SUFFICES C = {}
  OBVIOUS
<1>2. SUFFICES ASSUME C # {} PROVE FALSE
  OBVIOUS
<1>3. PICK s \in C : s = {} \/ s \ {Pick(s)} \notin C
  <2> HIDE DEF C
  <2>1. C \subseteq SUBSET S
    BY DEF C
  <2> QED
    BY <1>2, <2>1, LeastSet
<1>4. g[s] = IF s = {} THEN 0 ELSE f[Pick(s)] + g[s \ {Pick(s)}]
  BY DEF IsSum
<1>5. s # {}
  BY <1>4
<1>6. Pick(s) \in s /\ f[Pick(s)] \in Nat
  BY <1>5, PickIn
<1>7. Good(s \ {Pick(s)})
  BY <1>3, <1>5
<1>8. Good(s)
  BY <1>4, <1>5, <1>6, <1>7
<1> QED
  BY <1>8

\* There is only one such sum.
LEMMA SumUnique ==
  ASSUME NEW S, IsFiniteSet(S), NEW f, NEW g, IsSum(g, f, S), NEW h, IsSum(h, f, S)
  PROVE  g[S] = h[S]
<1> DEFINE C == {s \in SUBSET S : g[s] # h[s]}
<1>1. SUFFICES ASSUME C # {} PROVE FALSE
  OBVIOUS
<1>2. PICK s \in C : s = {} \/ s \ {Pick(s)} \notin C
  <2> HIDE DEF C
  <2>1. C \subseteq SUBSET S
    BY DEF C
  <2> QED
    BY <1>1, <2>1, LeastSet
<1>3. /\ g[s] = IF s = {} THEN 0 ELSE f[Pick(s)] + g[s \ {Pick(s)}]
      /\ h[s] = IF s = {} THEN 0 ELSE f[Pick(s)] + h[s \ {Pick(s)}]
  BY DEF IsSum
<1> QED
  BY <1>2, <1>3

\* The bound of StartProcess, as a sum over a function.
StartsOf(P, S) == MapThenSumSet(LAMBDA q : P[q].inc, S)

\* It is a number, no less than the starts of any one pid.
LEMMA StartsSum ==
  ASSUME NEW S, IsFiniteSet(S), NEW P, \A q \in S : P[q].inc \in Nat
  PROVE  StartsOf(P, S) \in Nat /\ \A q \in S : P[q].inc <= StartsOf(P, S)
<1> DEFINE f == [q \in S |-> P[q].inc]
           Eq(g) == g = [s \in SUBSET S |->
                           IF s = {} THEN 0 ELSE P[Pick(s)].inc + g[s \ {Pick(s)}]]
           c == CHOOSE g : Eq(g)
<1>1. StartsOf(P, S) = c[S]
  BY DEF StartsOf, MapThenSumSet, MapThenFoldSet, Pick
<1>2. \A g : Eq(g) <=> IsSum(g, f, S)
  <2>1. \A s \in SUBSET S : s # {} => P[Pick(s)].inc = f[Pick(s)]
    BY PickIn
  <2> HIDE DEF f
  <2> QED
    BY <2>1 DEF IsSum
<1>3. Eq(c)
  <2>1. \E g : Eq(g)
    <3> HIDE DEF Eq, f
    <3> QED BY <1>2, SumExists
  <2> HIDE DEF Eq
  <2> QED
    BY <2>1, Zenon
<1>4. IsSum(c, f, S)
  BY <1>2, <1>3
<1> HIDE DEF c, Eq
<1>5. f \in [S -> Nat]
  OBVIOUS
<1>6. c[S] \in Nat /\ \A q \in S : f[q] <= c[S]
  BY <1>4, <1>5, SumNat
<1> QED
  BY <1>1, <1>6

\* The sum of the threads is a number that depends on the threads alone.
LEMMA ThreadsSum ==
  ASSUME NEW S, IsFiniteSet(S), NEW P
  PROVE  \E c : /\ IsSum(c, [q \in S |-> P[q].threads], S)
               /\ ThreadsOf(P, S) = c[S]
<1> DEFINE f == [q \in S |-> P[q].threads]
           Eq(g) == g = [s \in SUBSET S |->
                           IF s = {} THEN 0 ELSE P[Pick(s)].threads + g[s \ {Pick(s)}]]
           c == CHOOSE g : Eq(g)
<1>1. ThreadsOf(P, S) = c[S]
  BY DEF ThreadsOf, MapThenSumSet, MapThenFoldSet, Pick
<1>2. \A g : Eq(g) <=> IsSum(g, f, S)
  <2>1. \A s \in SUBSET S : s # {} => P[Pick(s)].threads = f[Pick(s)]
    BY PickIn
  <2> HIDE DEF f
  <2> QED
    BY <2>1 DEF IsSum
<1>3. Eq(c)
  <2>1. \E g : Eq(g)
    <3> HIDE DEF Eq, f
    <3> QED BY <1>2, SumExists
  <2> HIDE DEF Eq
  <2> QED
    BY <2>1, Zenon
<1> HIDE DEF c, Eq
<1> QED
  BY <1>1, <1>2, <1>3, Zenon

\* The threads of some processes are a number of threads.
LEMMA ThreadsSumNat ==
  ASSUME NEW S, IsFiniteSet(S), NEW P, \A q \in S : P[q].threads \in Nat
  PROVE  ThreadsOf(P, S) \in Nat
<1>1. PICK c : /\ IsSum(c, [q \in S |-> P[q].threads], S)
               /\ ThreadsOf(P, S) = c[S]
  BY ThreadsSum
<1>2. [q \in S |-> P[q].threads] \in [S -> Nat]
  OBVIOUS
<1>3. c[S] \in Nat
  BY <1>1, <1>2, SumNat
<1> QED
  BY <1>1, <1>3

\* No process, no thread.
LEMMA NoThreads ==
  ASSUME NEW P
  PROVE  ThreadsOf(P, {}) = 0
<1>1. PICK c : /\ IsSum(c, [q \in {} |-> P[q].threads], {})
               /\ ThreadsOf(P, {}) = c[{}]
  BY ThreadsSum, FS_EmptySet
<1> QED
  BY <1>1 DEF IsSum

\* Lists that agree on the threads have the same sum.
LEMMA ThreadsSumSame ==
  ASSUME NEW S, IsFiniteSet(S), NEW P, NEW Q, \A q \in S : P[q].threads = Q[q].threads
  PROVE  ThreadsOf(P, S) = ThreadsOf(Q, S)
<1>1. PICK c : /\ IsSum(c, [q \in S |-> P[q].threads], S)
               /\ ThreadsOf(P, S) = c[S]
  BY ThreadsSum
<1>2. PICK d : /\ IsSum(d, [q \in S |-> Q[q].threads], S)
               /\ ThreadsOf(Q, S) = d[S]
  BY ThreadsSum
<1>3. [q \in S |-> P[q].threads] = [q \in S |-> Q[q].threads]
  OBVIOUS
<1>4. c[S] = d[S]
  BY <1>1, <1>2, <1>3, SumUnique
<1> QED
  BY <1>1, <1>2, <1>4

-----------------------------------------------------------------------------
\* The process lists.

\* What update_process_data does to a list, whichever data it reads: the
\* nodes left are those of the pids present and those that came in marked.
LEMMA UpdateShape ==
  ASSUME TypeOK,
         NEW list, DOMAIN list \subseteq Pids, list \in [DOMAIN list -> Node],
         NEW a, Elems(a) \subseteq Pids, NEW out, NEW datatype
  PROVE  LET new == update_process_data(list, a, out, datatype) IN
         /\ DOMAIN new \subseteq Pids
         /\ new \in [DOMAIN new -> Node]
         /\ \A p \in DOMAIN new : ~new[p].found
         /\ (\A p \in DOMAIN list : ~list[p].found) => DOMAIN new \subseteq Elems(a)
<1> DEFINE kept == del_node(list, Elems(a) \ Present(a, out))
           touched == Touch(kept, Present(a, out))
           stat == [p \in DOMAIN touched |-> StatNode(list, a, out, p, touched[p])]
           parsed == IF datatype = "stat" THEN stat ELSE touched
           left == del_notfound_node(parsed)
<1>1. /\ DOMAIN kept \subseteq Pids
      /\ kept \in [DOMAIN kept -> Node]
      /\ \A p \in DOMAIN kept : p \in DOMAIN list /\ kept[p] = list[p]
  BY DEF del_node
<1>2. Junk \in Reading /\ 0 \in 0..MaxThreads
  BY SizeAssumption DEF Junk, Reading
<1>3. Present(a, out) \subseteq Elems(a)
  BY DEF Present
<1>4. /\ DOMAIN touched \subseteq Pids
      /\ touched \in [DOMAIN touched -> Node]
      /\ \A p \in DOMAIN touched :
           touched[p].found => p \in Elems(a) \/ (p \in DOMAIN kept /\ kept[p].found)
  <2> HIDE DEF kept
  <2>1. DOMAIN touched = DOMAIN kept \cup Present(a, out)
    BY DEF Touch
  <2>2. ASSUME NEW p \in DOMAIN kept
        PROVE  /\ touched[p] \in Node
               /\ touched[p].found => p \in Elems(a) \/ kept[p].found
    <3>1. kept[p] \in Node
      BY <1>1
    <3>2. touched[p] = [kept[p] EXCEPT !.found = @ \/ p \in Present(a, out)]
      BY DEF Touch
    <3>3. (kept[p].found \/ p \in Present(a, out)) \in BOOLEAN
      BY <3>1 DEF Node
    <3> QED
      BY <1>3, <3>1, <3>2, <3>3 DEF Node
  <2>3. ASSUME NEW p \in Present(a, out), p \notin DOMAIN kept
        PROVE  touched[p] \in Node
    BY <1>2, <2>3 DEF Touch, Node
  <2>4. touched \in [DOMAIN touched -> Node]
    <3>1. touched = [p \in DOMAIN touched |-> touched[p]]
      BY DEF Touch
    <3> HIDE DEF touched
    <3> QED
      BY <2>1, <2>2, <2>3, <3>1
  <2> QED
    BY <1>1, <1>3, <2>1, <2>2, <2>4
<1>5. /\ stat \in [DOMAIN touched -> Node]
      /\ \A p \in DOMAIN touched : stat[p].found = touched[p].found
  <2> HIDE DEF touched
  <2>1. SUFFICES ASSUME NEW p \in DOMAIN touched
                 PROVE  /\ StatNode(list, a, out, p, touched[p]) \in Node
                        /\ StatNode(list, a, out, p, touched[p]).found = touched[p].found
    BY Zenon
  <2>2. touched[p] \in Node /\ p \in Pids
    BY <1>4
  <2>3. [inc |-> procs[p].inc, at |-> sample] \in Reading
    BY <2>2 DEF TypeOK, Reading
  <2> QED
    BY <2>2, <2>3 DEF StatNode, Node
<1>6. /\ DOMAIN parsed = DOMAIN touched
      /\ parsed \in [DOMAIN touched -> Node]
      /\ \A p \in DOMAIN touched : parsed[p].found = touched[p].found
  <2>1. DOMAIN stat = DOMAIN touched
    OBVIOUS
  <2> HIDE DEF touched, stat
  <2> QED
    BY <1>4, <1>5, <2>1
<1> HIDE DEF kept, touched, stat, parsed
<1>7. /\ DOMAIN left = {p \in DOMAIN touched : touched[p].found}
      /\ \A p \in DOMAIN left : left[p] \in Node
  BY <1>6 DEF del_notfound_node
<1>8. update_process_data(list, a, out, datatype) = reset_found_node(left)
  BY DEF update_process_data, kept, touched, stat, parsed
<1> HIDE DEF left
<1>9. /\ DOMAIN reset_found_node(left) = DOMAIN left
      /\ reset_found_node(left) \in [DOMAIN left -> Node]
      /\ \A p \in DOMAIN left : ~reset_found_node(left)[p].found
  BY <1>7 DEF reset_found_node, Node
<1> QED
  BY <1>1, <1>4, <1>7, <1>8, <1>9

\* The first passes over pids that can all be read mark and keep the nodes of
\* these pids, and add new ones.
LEMMA TouchAll ==
  ASSUME NEW list, list \in [DOMAIN list -> Node], NEW a, NEW out,
         ~Disturbed(a, out), NEW p \in Elems(a)
  PROVE  LET touched == Touch(del_node(list, Elems(a) \ Present(a, out)), Present(a, out))
         IN  /\ p \in DOMAIN touched
             /\ touched[p] \in Node
             /\ touched[p].found
             /\ p \in DOMAIN list => /\ touched[p].data = list[p].data
                                    /\ touched[p].saved = list[p].saved
<1> DEFINE kept == del_node(list, Elems(a) \ Present(a, out))
<1>1. Present(a, out) = Elems(a) /\ Elems(a) \ Present(a, out) = {}
  BY DEF Disturbed, Present
<1>2. kept = list
  BY <1>1 DEF del_node
<1>3. DOMAIN Touch(list, Elems(a)) = DOMAIN list \cup Elems(a)
  BY DEF Touch
<1>4. CASE p \in DOMAIN list
  <2>1. list[p] \in Node
    BY <1>4
  <2>2. Touch(list, Elems(a))[p] = [list[p] EXCEPT !.found = @ \/ p \in Elems(a)]
    BY <1>4 DEF Touch
  <2>3. (list[p].found \/ p \in Elems(a)) = TRUE
    BY <2>1 DEF Node
  <2> QED
    BY <1>1, <1>2, <1>3, <2>1, <2>2, <2>3 DEF Node
<1>5. CASE p \notin DOMAIN list
  <2>1. Junk \in Reading /\ 0 \in 0..MaxThreads
    BY SizeAssumption DEF Junk, Reading
  <2> DEFINE new == [data |-> Junk, saved |-> Junk, found |-> TRUE, threads |-> 0]
  <2>2. Touch(list, Elems(a))[p] = new
    BY <1>5 DEF Touch
  <2>3. new \in Node /\ new.found
    BY <2>1 DEF Node
  <2> HIDE DEF new
  <2> QED
    BY <1>1, <1>2, <1>3, <1>5, <2>2, <2>3
<1> QED
  BY <1>4, <1>5

\* The stat pass over pids that are all read: each has a node with the data
\* of this sample, and a new node counts from them.
LEMMA StatData ==
  ASSUME NEW list, list \in [DOMAIN list -> Node], NEW a, DOMAIN a \subseteq Nat,
         NEW out, ~Disturbed(a, out), NEW p \in Elems(a)
  PROVE  LET new == update_process_data(list, a, out, "stat") IN
         /\ p \in DOMAIN new
         /\ new[p].data.at = sample
         /\ \/ new[p].saved = new[p].data
            \/ p \in DOMAIN list /\ new[p].saved = list[p].saved
<1> DEFINE touched == Touch(del_node(list, Elems(a) \ Present(a, out)), Present(a, out))
           stat == [q \in DOMAIN touched |-> StatNode(list, a, out, q, touched[q])]
           now == [inc |-> procs[p].inc, at |-> sample]
<1>1. /\ p \in DOMAIN touched /\ touched[p] \in Node /\ touched[p].found
      /\ p \in DOMAIN list => touched[p].saved = list[p].saved
  BY TouchAll
<1>2. out[p] = "ok"
  BY DEF Disturbed
<1> HIDE DEF touched
<1>3. p \notin DOMAIN list => IsNewNode(list, a, out, p)
  <2>1. PICK i \in DOMAIN a : a[i] = p
    BY DEF Elems
  <2>2. i <= i
    BY <2>1
  <2> QED
    BY <1>2, <2>1, <2>2 DEF IsNewNode
<1>4. stat[p] = [touched[p] EXCEPT
                   !.data = now,
                   !.saved = IF IsNewNode(list, a, out, p) THEN now ELSE @]
  BY <1>1, <1>2 DEF StatNode
<1>5. /\ p \in DOMAIN stat /\ stat[p].found
      /\ stat[p].data = now
      /\ stat[p].saved = now \/ (p \in DOMAIN list /\ stat[p].saved = list[p].saved)
  <2>1. p \in DOMAIN stat /\ stat[p].found
    BY <1>1, <1>4 DEF Node
  <2>2. /\ stat[p].data = now
        /\ stat[p].saved = IF IsNewNode(list, a, out, p) THEN now ELSE touched[p].saved
    BY <1>1, <1>4 DEF Node
  <2> HIDE DEF stat, now
  <2> QED
    BY <1>1, <1>3, <2>1, <2>2
<1> HIDE DEF stat
<1>6. LET new == reset_found_node(del_notfound_node(stat)) IN
      p \in DOMAIN new /\ new[p] = [stat[p] EXCEPT !.found = FALSE]
  BY <1>5 DEF reset_found_node, del_notfound_node
<1>7. update_process_data(list, a, out, "stat") = reset_found_node(del_notfound_node(stat))
  BY DEF update_process_data, touched, stat
<1>8. stat[p] \in [data : {now}, saved : {stat[p].saved}, found : BOOLEAN, threads : 0..MaxThreads]
  BY <1>1, <1>4, <1>5 DEF Node
<1> QED
  BY <1>5, <1>6, <1>7, <1>8

\* The smaps pass over pids that are all read leaves their data alone.
LEMMA SmapsData ==
  ASSUME NEW list, list \in [DOMAIN list -> Node], NEW a, NEW out,
         ~Disturbed(a, out), NEW p \in Elems(a), p \in DOMAIN list
  PROVE  LET new == update_process_data(list, a, out, "smaps") IN
         /\ p \in DOMAIN new
         /\ new[p].data = list[p].data
         /\ new[p].saved = list[p].saved
<1> DEFINE touched == Touch(del_node(list, Elems(a) \ Present(a, out)), Present(a, out))
<1>1. /\ p \in DOMAIN touched /\ touched[p] \in Node /\ touched[p].found
      /\ touched[p].data = list[p].data /\ touched[p].saved = list[p].saved
  BY TouchAll
<1>2. update_process_data(list, a, out, "smaps")
        = reset_found_node(del_notfound_node(touched))
  BY DEF update_process_data
<1> HIDE DEF touched
<1>3. LET new == reset_found_node(del_notfound_node(touched)) IN
      p \in DOMAIN new /\ new[p] = [touched[p] EXCEPT !.found = FALSE]
  BY <1>1 DEF reset_found_node, del_notfound_node
<1> QED
  BY <1>1, <1>2, <1>3 DEF Node
-----------------------------------------------------------------------------
\* Types.

\* TypeOK and ShapeInv by the parts a step may change.
ProcsOK == procs \in [Pids -> [inc : 0..MaxStarts, up : BOOLEAN, inst : BOOLEAN,
                              reused : 0..MaxSamples]]

SwitchOK == /\ running \in BOOLEAN /\ timer \in BOOLEAN
            /\ alarm \in BOOLEAN /\ usr1 \in BOOLEAN

ControlOK ==
  /\ conf \subseteq Flags /\ new_conf \subseteq Flags
  /\ main \in {"idle", "stop", "reconf"} /\ spc \in Steps

TimesOK ==
  /\ sample \in 0..MaxSamples
  /\ faulty \subseteq 1..MaxSamples
  /\ old_time \in 0..MaxSamples /\ since \in 0..MaxSamples

ArraysOK ==
  /\ Elems(inst_pidarray) \subseteq Pids /\ Elems(other_pidarray) \subseteq Pids
  /\ DOMAIN inst_pidarray \subseteq Nat /\ DOMAIN other_pidarray \subseteq Nat

ListsOK ==
  /\ DOMAIN inst_prochead \subseteq Pids
  /\ inst_prochead \in [DOMAIN inst_prochead -> Node]
  /\ DOMAIN other_prochead \subseteq Pids
  /\ other_prochead \in [DOMAIN other_prochead -> Node]

MessageOK ==
  /\ info.loads \in [DOMAIN info.loads -> Loads]
  /\ info.inst \subseteq Pids /\ info.other \subseteq Pids /\ info.threads \in Nat
  /\ alloc \in Nat /\ packed \in Nat

\* The parts make up the type invariant.
LEMMA TypeParts ==
  TypeOK /\ ShapeInv <=> /\ ProcsOK /\ SwitchOK /\ ControlOK /\ TimesOK
                         /\ ArraysOK /\ ListsOK /\ MessageOK
BY DEF TypeOK, ShapeInv, ProcsOK, SwitchOK, ControlOK, TimesOK, ArraysOK, ListsOK, MessageOK

\* They do so after a step.
LEMMA TypePartsPrime ==
  TypeOK' /\ ShapeInv' <=> /\ ProcsOK' /\ SwitchOK' /\ ControlOK' /\ TimesOK'
                           /\ ArraysOK' /\ ListsOK' /\ MessageOK'
BY DEF TypeOK, ShapeInv, ProcsOK, SwitchOK, ControlOK, TimesOK, ArraysOK, ListsOK, MessageOK

\* An array that was freed lists nobody.
LEMMA EmptyArray == Elems(<<>>) = {} /\ DOMAIN <<>> = {}
BY DEF Elems

\* reset_system_info leaves a well-typed record.
LEMMA NoInfoOK ==
  /\ NoInfo.loads \in [DOMAIN NoInfo.loads -> Loads]
  /\ NoInfo.inst = {} /\ NoInfo.other = {} /\ NoInfo.threads = 0
BY DEF NoInfo

\* An order of a finite set is an array of its elements.
LEMMA OrdersOK ==
  ASSUME NEW S, IsFiniteSet(S), NEW a \in Orders(S)
  PROVE  Elems(a) = S /\ DOMAIN a \subseteq Nat
<1>1. DOMAIN a = 1..Cardinality(S) /\ Elems(a) = S
  BY DEF Orders
<1>2. Cardinality(S) \in Nat
  BY FS_CardinalityType
<1> QED
  BY <1>1, <1>2

\* fail_exit keeps the types when a sample is under way.
LEMMA FailExitTypes ==
  ASSUME TimesOK, sample >= 1, FailExit, UNCHANGED <<sample, old_time, since, alloc, packed>>,
         MessageOK
  PROVE  TimesOK' /\ ArraysOK' /\ MessageOK' /\ spc' \in Steps
<1>1. TimesOK' /\ spc' \in Steps
  BY DEF FailExit, TimesOK, Steps
<1>2. ArraysOK'
  BY EmptyArray DEF FailExit, ArraysOK
<1>3. MessageOK'
  BY NoInfoOK DEF FailExit, MessageOK
<1> QED
  BY <1>1, <1>2, <1>3

\* update_thread_data counts threads and marks nodes; it adds and removes none
\* and leaves their times alone.
LEMMA ThreadPass ==
  ASSUME ListsOK, update_thread_data
  PROVE  /\ DOMAIN inst_prochead' = DOMAIN inst_prochead
         /\ inst_prochead' \in [DOMAIN inst_prochead -> Node]
         /\ \A p \in DOMAIN inst_prochead :
              /\ inst_prochead'[p].data = inst_prochead[p].data
              /\ inst_prochead'[p].saved = inst_prochead[p].saved
         /\ FailExit \/ (spc' = "fill" /\ UNCHANGED <<array_vars, info, faulty>>)
<1>1. PICK done \in 0..Len(inst_pidarray), n \in [Pids -> 1..MaxThreads] :
        LET ok == {inst_pidarray[i] : i \in 1..done}
            next == inst_pidarray[done + 1]
            seen == IF done < Len(inst_pidarray) /\ procs[next].up
                    THEN ok \cup {next} ELSE ok
        IN  /\ inst_prochead' =
                 [p \in DOMAIN inst_prochead |->
                    [inst_prochead[p] EXCEPT
                       !.found = @ \/ p \in seen,
                       !.threads = IF p \in seen THEN n[p] ELSE @]]
            /\ FailExit \/ (spc' = "fill" /\ UNCHANGED <<array_vars, info, faulty>>)
  BY Zenon DEF update_thread_data
<1> DEFINE ok == {inst_pidarray[i] : i \in 1..done}
           next == inst_pidarray[done + 1]
           seen == IF done < Len(inst_pidarray) /\ procs[next].up
                   THEN ok \cup {next} ELSE ok
<1>2. /\ inst_prochead' =
           [p \in DOMAIN inst_prochead |->
              [inst_prochead[p] EXCEPT
                 !.found = @ \/ p \in seen,
                 !.threads = IF p \in seen THEN n[p] ELSE @]]
      /\ FailExit \/ (spc' = "fill" /\ UNCHANGED <<array_vars, info, faulty>>)
  BY <1>1, Zenon
<1> HIDE DEF seen
<1>3. ASSUME NEW p \in DOMAIN inst_prochead
      PROVE  /\ inst_prochead'[p] \in Node
             /\ inst_prochead'[p].data = inst_prochead[p].data
             /\ inst_prochead'[p].saved = inst_prochead[p].saved
  <2>1. inst_prochead[p] \in Node /\ p \in Pids
    BY DEF ListsOK
  <2>2. (inst_prochead[p].found \/ p \in seen) \in BOOLEAN
    BY <2>1 DEF Node
  <2>3. n[p] \in 0..MaxThreads
    BY <2>1, SizeAssumption
  <2> QED
    BY <1>2, <2>1, <2>2, <2>3 DEF Node
<1>4. /\ DOMAIN inst_prochead' = DOMAIN inst_prochead
      /\ inst_prochead' \in [DOMAIN inst_prochead -> Node]
  BY <1>2, <1>3
<1> QED
  BY <1>2, <1>3, <1>4, Zenon

\* Every step keeps the types.
LEMMA TypeStep ==
  ASSUME ProcsOK, SwitchOK, ControlOK, TimesOK, ArraysOK, ListsOK, MessageOK,
         TimeInv, MessageInv, [Next]_vars
  PROVE  /\ ProcsOK' /\ SwitchOK' /\ ControlOK' /\ TimesOK'
         /\ ArraysOK' /\ ListsOK' /\ MessageOK'
<1> USE DEF vars, main_vars, list_vars, array_vars, time_vars, msg_vars
<1>a. TypeOK /\ ShapeInv
  BY TypeParts
<1>1. CASE UNCHANGED vars
  BY <1>1 DEF ProcsOK, SwitchOK, ControlOK, TimesOK, ArraysOK, ListsOK, MessageOK
<1>2. ASSUME NEW p \in Pids, ExitProcess(p)
      PROVE  /\ ProcsOK' /\ SwitchOK' /\ ControlOK' /\ TimesOK'
             /\ ArraysOK' /\ ListsOK' /\ MessageOK'
  <2>1. SwitchOK'
    BY <1>2 DEF ExitProcess, SwitchOK, BeginSamplingStop
  <2>2. ProcsOK' /\ ListsOK'
    BY <1>2 DEF ExitProcess, ProcsOK, ListsOK
  <2>3. ControlOK' /\ TimesOK'
    BY <1>2, SizeAssumption DEF ExitProcess, ControlOK, TimesOK, Steps
  <2>4. ArraysOK' /\ MessageOK'
    BY <1>2, EmptyArray, NoInfoOK DEF ExitProcess, ArraysOK, MessageOK
  <2> QED
    BY <2>1, <2>2, <2>3, <2>4
<1>3. CASE TimerExpires
  <2>1. SwitchOK'
    BY <1>3 DEF TimerExpires, SwitchOK, BeginSamplingStop
  <2>2. ProcsOK' /\ ListsOK'
    BY <1>3 DEF TimerExpires, ProcsOK, ListsOK
  <2>3. ControlOK' /\ TimesOK'
    BY <1>3, SizeAssumption DEF TimerExpires, ControlOK, TimesOK, Steps
  <2>4. ArraysOK' /\ MessageOK'
    BY <1>3, EmptyArray, NoInfoOK DEF TimerExpires, ArraysOK, MessageOK
  <2> QED
    BY <2>1, <2>2, <2>3, <2>4
<1>4. CASE TakeAlarm
  <2>1. SwitchOK'
    BY <1>4 DEF TakeAlarm, SwitchOK, BeginSamplingStop
  <2>2. ProcsOK' /\ ListsOK'
    BY <1>4 DEF TakeAlarm, ProcsOK, ListsOK
  <2>3. ControlOK' /\ TimesOK'
    BY <1>4, SizeAssumption DEF TakeAlarm, ControlOK, TimesOK, Steps
  <2>4. ArraysOK' /\ MessageOK'
    BY <1>4, EmptyArray, NoInfoOK DEF TakeAlarm, ArraysOK, MessageOK
  <2> QED
    BY <2>1, <2>2, <2>3, <2>4
<1>5. CASE TakeUsr1
  <2>1. SwitchOK'
    BY <1>5 DEF TakeUsr1, SwitchOK, BeginSamplingStop
  <2>2. ProcsOK' /\ ListsOK'
    BY <1>5 DEF TakeUsr1, ProcsOK, ListsOK
  <2>3. ControlOK' /\ TimesOK'
    BY <1>5, SizeAssumption DEF TakeUsr1, ControlOK, TimesOK, Steps
  <2>4. ArraysOK' /\ MessageOK'
    BY <1>5, EmptyArray, NoInfoOK DEF TakeUsr1, ArraysOK, MessageOK
  <2> QED
    BY <2>1, <2>2, <2>3, <2>4
<1>6. CASE WriteToBuf
  <2>1. SwitchOK'
    BY <1>6 DEF WriteToBuf, SwitchOK, BeginSamplingStop
  <2>2. ProcsOK' /\ ListsOK'
    BY <1>6 DEF WriteToBuf, ProcsOK, ListsOK
  <2>3. ControlOK' /\ TimesOK'
    BY <1>6, SizeAssumption DEF WriteToBuf, ControlOK, TimesOK, Steps
  <2>4. ArraysOK' /\ MessageOK'
    BY <1>6, EmptyArray, NoInfoOK DEF WriteToBuf, ArraysOK, MessageOK
  <2> QED
    BY <2>1, <2>2, <2>3, <2>4
<1>7. CASE StartSampling
  <2>1. SwitchOK'
    BY <1>7 DEF StartSampling, SwitchOK, BeginSamplingStop
  <2>2. ProcsOK' /\ ListsOK'
    BY <1>7 DEF StartSampling, ProcsOK, ListsOK
  <2>3. ControlOK' /\ TimesOK'
    BY <1>7, SizeAssumption DEF StartSampling, ControlOK, TimesOK, Steps
  <2>4. ArraysOK' /\ MessageOK'
    BY <1>7, EmptyArray, NoInfoOK DEF StartSampling, ArraysOK, MessageOK
  <2> QED
    BY <2>1, <2>2, <2>3, <2>4
<1>8. CASE StopSampling
  <2>1. SwitchOK'
    BY <1>8 DEF StopSampling, SwitchOK, BeginSamplingStop
  <2>2. ProcsOK' /\ ListsOK'
    BY <1>8 DEF StopSampling, ProcsOK, ListsOK
  <2>3. ControlOK' /\ TimesOK'
    BY <1>8, SizeAssumption DEF StopSampling, ControlOK, TimesOK, Steps
  <2>4. ArraysOK' /\ MessageOK'
    BY <1>8, EmptyArray, NoInfoOK DEF StopSampling, ArraysOK, MessageOK
  <2> QED
    BY <2>1, <2>2, <2>3, <2>4
<1>9. CASE Stopped
  <2>1. SwitchOK'
    BY <1>9 DEF Stopped, SwitchOK, BeginSamplingStop
  <2>2. ProcsOK' /\ ListsOK'
    BY <1>9 DEF Stopped, ProcsOK, ListsOK
  <2>3. ControlOK' /\ TimesOK'
    BY <1>9, SizeAssumption DEF Stopped, ControlOK, TimesOK, Steps
  <2>4. ArraysOK' /\ MessageOK'
    BY <1>9, EmptyArray, NoInfoOK DEF Stopped, ArraysOK, MessageOK
  <2> QED
    BY <2>1, <2>2, <2>3, <2>4
<1>10. CASE Reconfigured
  <2>1. SwitchOK'
    BY <1>10 DEF Reconfigured, SwitchOK, BeginSamplingStop
  <2>2. ProcsOK' /\ ListsOK'
    BY <1>10 DEF Reconfigured, ProcsOK, ListsOK
  <2>3. ControlOK' /\ TimesOK'
    BY <1>10, SizeAssumption DEF Reconfigured, ControlOK, TimesOK, Steps
  <2>4. ArraysOK' /\ MessageOK'
    BY <1>10, EmptyArray, NoInfoOK DEF Reconfigured, ArraysOK, MessageOK
  <2> QED
    BY <2>1, <2>2, <2>3, <2>4
<1>11. ASSUME NEW p \in Pids, NEW inst \in BOOLEAN, StartProcess(p, inst)
       PROVE  /\ ProcsOK' /\ SwitchOK' /\ ControlOK' /\ TimesOK'
              /\ ArraysOK' /\ ListsOK' /\ MessageOK'
  <2>2. ProcsOK'
    <3>1. \A q \in Pids : procs[q].inc \in 0..MaxStarts
      BY DEF ProcsOK
    <3>2. /\ StartsOf(procs, Pids) \in Nat
          /\ \A q \in Pids : procs[q].inc <= StartsOf(procs, Pids)
      BY <3>1, StartsSum, SetAssumption, SizeAssumption
    <3>3. StartsOf(procs, Pids) < MaxStarts
      BY <1>11, Zenon DEF StartProcess, StartsOf
    <3>4. procs[p].inc + 1 \in 0..MaxStarts
      BY <3>1, <3>2, <3>3, SizeAssumption
    <3>5. procs' = [procs EXCEPT ![p] =
                      [inc |-> procs[p].inc + 1, up |-> TRUE, inst |-> inst,
                       reused |-> IF procs[p].inc = 0 THEN 0 ELSE sample]]
      BY <1>11 DEF StartProcess
    <3>6. (IF procs[p].inc = 0 THEN 0 ELSE sample) \in 0..MaxSamples
      BY SizeAssumption DEF TimesOK
    <3> QED
      BY <3>4, <3>5, <3>6 DEF ProcsOK
  <2>1. SwitchOK'
    BY <1>11 DEF StartProcess, SwitchOK, BeginSamplingStop
  <2>3. ControlOK' /\ TimesOK'
    BY <1>11, SizeAssumption DEF StartProcess, ControlOK, TimesOK, Steps
  <2>4. ArraysOK' /\ MessageOK'
    BY <1>11, EmptyArray, NoInfoOK DEF StartProcess, ArraysOK, MessageOK
  <2>5. ListsOK'
    BY <1>11 DEF StartProcess, ListsOK
  <2> QED
    BY <2>1, <2>2, <2>3, <2>4, <2>5
<1>12. CASE get_inst_pid_array
  <2> DEFINE S == {p \in Pids : procs[p].up /\ procs[p].inst}
  <2>0. IsFiniteSet(S) /\ inst_pidarray' \in Orders(S)
    BY <1>12, SetAssumption, FS_Subset DEF get_inst_pid_array
  <2>8. ArraysOK'
    <3>1. Elems(inst_pidarray') = S /\ DOMAIN inst_pidarray' \subseteq Nat
      BY <2>0, OrdersOK
    <3> QED
      BY <1>12, <3>1 DEF get_inst_pid_array, ArraysOK
  <2>1. SwitchOK'
    BY <1>12 DEF get_inst_pid_array, SwitchOK, BeginSamplingStop
  <2>2. ProcsOK'
    BY <1>12 DEF get_inst_pid_array, ProcsOK
  <2>3. ControlOK' /\ TimesOK'
    BY <1>12, SizeAssumption DEF get_inst_pid_array, ControlOK, TimesOK, Steps
  <2>5. ListsOK'
    BY <1>12 DEF get_inst_pid_array, ListsOK
  <2>9. MessageOK'
    BY <1>12 DEF get_inst_pid_array, MessageOK
  <2> QED
    BY <2>1, <2>2, <2>3, <2>5, <2>8, <2>9
<1>13. CASE get_other_pid_array
  <2> DEFINE S == {p \in Pids : procs[p].up} \ Elems(inst_pidarray)
  <2>0. IsFiniteSet(S) /\ (other_pidarray' \in Orders(S) \/ other_pidarray' = <<>>)
    BY <1>13, SetAssumption, FS_Subset DEF get_other_pid_array
  <2>8. ArraysOK'
    <3>1. Elems(other_pidarray') \subseteq S /\ DOMAIN other_pidarray' \subseteq Nat
      BY <2>0, OrdersOK, EmptyArray
    <3> QED
      BY <1>13, <3>1 DEF get_other_pid_array, ArraysOK
  <2>1. SwitchOK'
    BY <1>13 DEF get_other_pid_array, SwitchOK, BeginSamplingStop
  <2>2. ProcsOK'
    BY <1>13 DEF get_other_pid_array, ProcsOK
  <2>3. ControlOK' /\ TimesOK'
    BY <1>13, SizeAssumption DEF get_other_pid_array, ControlOK, TimesOK, Steps
  <2>5. ListsOK'
    BY <1>13 DEF get_other_pid_array, ListsOK
  <2>9. MessageOK'
    BY <1>13 DEF get_other_pid_array, MessageOK
  <2> QED
    BY <2>1, <2>2, <2>3, <2>5, <2>8, <2>9
<1>14. CASE StatInst
  <2>0. PICK out \in Outcomes(inst_pidarray) :
          /\ inst_prochead' = update_process_data(inst_prochead, inst_pidarray, out, "stat")
          /\ \/ FailExit
             \/ /\ spc' \in Steps
                /\ faulty' = Blame(Disturbed(inst_pidarray, out))
                /\ UNCHANGED <<array_vars, info>>
    BY <1>14 DEF StatInst, Steps
  <2>5. ListsOK'
    BY <1>14, <1>a, <2>0, UpdateShape DEF StatInst, ListsOK, ArraysOK
  <2>3. sample >= 1
    BY <1>14 DEF StatInst, TimeInv
  <2>4. TimesOK' /\ ArraysOK' /\ MessageOK' /\ spc' \in Steps
    <3>1. CASE FailExit
      BY <1>14, <2>3, <3>1, FailExitTypes DEF StatInst
    <3>2. CASE /\ spc' \in Steps
               /\ faulty' = Blame(Disturbed(inst_pidarray, out))
               /\ UNCHANGED <<array_vars, info>>
      BY <1>14, <2>3, <3>2 DEF StatInst, TimesOK, ArraysOK, MessageOK, Blame
    <3> QED
      BY <2>0, <3>1, <3>2
  <2>6. ControlOK'
    BY <1>14, <2>4 DEF StatInst, ControlOK
  <2>1. SwitchOK'
    BY <1>14 DEF StatInst, SwitchOK, BeginSamplingStop
  <2>2. ProcsOK'
    BY <1>14 DEF StatInst, ProcsOK
  <2> QED
    BY <2>1, <2>2, <2>4, <2>5, <2>6
<1>15. CASE StatOther
  <2>0. PICK out \in Outcomes(other_pidarray) :
          /\ other_prochead' = update_process_data(other_prochead, other_pidarray, out, "stat")
          /\ \/ FailExit
             \/ /\ spc' \in Steps
                /\ faulty' = Blame(Disturbed(other_pidarray, out))
                /\ UNCHANGED <<array_vars, info>>
    BY <1>15 DEF StatOther, Steps
  <2>5. ListsOK'
    BY <1>15, <1>a, <2>0, UpdateShape DEF StatOther, ListsOK, ArraysOK
  <2>3. sample >= 1
    BY <1>15 DEF StatOther, TimeInv
  <2>4. TimesOK' /\ ArraysOK' /\ MessageOK' /\ spc' \in Steps
    <3>1. CASE FailExit
      BY <1>15, <2>3, <3>1, FailExitTypes DEF StatOther
    <3>2. CASE /\ spc' \in Steps
               /\ faulty' = Blame(Disturbed(other_pidarray, out))
               /\ UNCHANGED <<array_vars, info>>
      BY <1>15, <2>3, <3>2 DEF StatOther, TimesOK, ArraysOK, MessageOK, Blame
    <3> QED
      BY <2>0, <3>1, <3>2
  <2>6. ControlOK'
    BY <1>15, <2>4 DEF StatOther, ControlOK
  <2>1. SwitchOK'
    BY <1>15 DEF StatOther, SwitchOK, BeginSamplingStop
  <2>2. ProcsOK'
    BY <1>15 DEF StatOther, ProcsOK
  <2> QED
    BY <2>1, <2>2, <2>4, <2>5, <2>6
<1>16. CASE Smaps
  <2>0. PICK out \in Outcomes(inst_pidarray) :
          /\ inst_prochead' = update_process_data(inst_prochead, inst_pidarray, out, "smaps")
          /\ \/ FailExit
             \/ /\ spc' \in Steps
                /\ faulty' = Blame(Disturbed(inst_pidarray, out))
                /\ UNCHANGED <<array_vars, info>>
    BY <1>16 DEF Smaps, Steps
  <2>5. ListsOK'
    BY <1>16, <1>a, <2>0, UpdateShape DEF Smaps, ListsOK, ArraysOK
  <2>3. sample >= 1
    BY <1>16 DEF Smaps, TimeInv
  <2>4. TimesOK' /\ ArraysOK' /\ MessageOK' /\ spc' \in Steps
    <3>1. CASE FailExit
      BY <1>16, <2>3, <3>1, FailExitTypes DEF Smaps
    <3>2. CASE /\ spc' \in Steps
               /\ faulty' = Blame(Disturbed(inst_pidarray, out))
               /\ UNCHANGED <<array_vars, info>>
      BY <1>16, <2>3, <3>2 DEF Smaps, TimesOK, ArraysOK, MessageOK, Blame
    <3> QED
      BY <2>0, <3>1, <3>2
  <2>6. ControlOK'
    BY <1>16, <2>4 DEF Smaps, ControlOK
  <2>1. SwitchOK'
    BY <1>16 DEF Smaps, SwitchOK, BeginSamplingStop
  <2>2. ProcsOK'
    BY <1>16 DEF Smaps, ProcsOK
  <2> QED
    BY <2>1, <2>2, <2>4, <2>5, <2>6
<1>17. CASE Elapsed
  <2>0. FailExit \/ (spc' \in Steps /\ UNCHANGED <<array_vars, info, faulty>>)
    BY <1>17 DEF Elapsed, update_system_cpu_frequency, Steps
  <2>3. TimesOK' /\ spc' \in Steps
    <3>1. sample >= 1
      BY <1>17 DEF Elapsed, TimeInv
    <3>2. sample' = sample /\ old_time' = sample /\ since' = old_time
      BY <1>17 DEF Elapsed, get_elapsed
    <3>3. faulty' = faulty \/ faulty' = faulty \cup {sample}
      BY <2>0 DEF FailExit
    <3>4. TimesOK'
      <4>1. sample \in 1..MaxSamples /\ faulty \subseteq 1..MaxSamples
        BY <3>1 DEF TimesOK
      <4>2. faulty' \subseteq 1..MaxSamples
        BY <3>3, <4>1
      <4> QED
        BY <3>2, <4>2 DEF TimesOK
    <3> QED
      BY <2>0, <3>4 DEF FailExit, Steps
  <2>4. ArraysOK' /\ MessageOK'
    BY <1>17, <2>0, EmptyArray, NoInfoOK DEF Elapsed, FailExit, ArraysOK, MessageOK
  <2>6. ControlOK'
    BY <1>17, <2>3 DEF Elapsed, ControlOK
  <2>1. SwitchOK'
    BY <1>17 DEF Elapsed, SwitchOK, BeginSamplingStop
  <2>2. ProcsOK'
    BY <1>17 DEF Elapsed, ProcsOK
  <2>5. ListsOK'
    BY <1>17 DEF Elapsed, ListsOK
  <2> QED
    BY <2>1, <2>2, <2>3, <2>4, <2>5, <2>6
<1>18. CASE update_thread_data
  <2>0. FailExit \/ (spc' = "fill" /\ UNCHANGED <<array_vars, info, faulty>>)
    BY <1>18, ThreadPass
  <2>a. /\ spc = "threads"
        /\ UNCHANGED <<procs, main_vars, alarm, usr1, sample, other_prochead,
                       time_vars, alloc, packed>>
    BY <1>18, Zenon DEF update_thread_data
  <2>5. ListsOK'
    BY <1>18, <2>a, ThreadPass DEF ListsOK
  <2>3. sample >= 1
    BY <2>a DEF TimeInv
  <2>4. TimesOK' /\ ArraysOK' /\ MessageOK' /\ spc' \in Steps
    <3>1. CASE FailExit
      BY <2>a, <2>3, <3>1, FailExitTypes
    <3>2. CASE spc' = "fill" /\ UNCHANGED <<array_vars, info, faulty>>
      BY <2>a, <3>2 DEF TimesOK, ArraysOK, MessageOK, Steps
    <3> QED
      BY <2>0, <3>1, <3>2
  <2>6. ControlOK'
    BY <2>a, <2>4 DEF ControlOK
  <2>1. SwitchOK'
    BY <2>a DEF SwitchOK
  <2>2. ProcsOK'
    BY <2>a DEF ProcsOK
  <2> QED
    BY <2>1, <2>2, <2>4, <2>5, <2>6
<1>19. CASE Fill
  <2>3. sample >= 1
    BY <1>19 DEF Fill, TimeInv
  <2>4. CASE FailExit /\ UNCHANGED list_vars
    <3>1. TimesOK' /\ ArraysOK' /\ MessageOK' /\ spc' \in Steps
      BY <1>19, <2>3, <2>4, FailExitTypes DEF Fill
    <3> QED
      BY <1>19, <2>4, <3>1 DEF Fill, ProcsOK, SwitchOK, ControlOK, ListsOK
  <2>5. CASE ~(FailExit /\ UNCHANGED list_vars)
    <3>0. /\ info' = [inst |-> DOMAIN inst_prochead,
                      other |-> DOMAIN other_prochead,
                      threads |-> ThreadsOf(inst_prochead, DOMAIN inst_prochead),
                      loads |-> [p \in DOMAIN inst_prochead \cup DOMAIN other_prochead |->
                                   Load(IF p \in DOMAIN inst_prochead
                                        THEN inst_prochead[p] ELSE other_prochead[p])]]
          /\ inst_prochead' = Save(inst_prochead)
          /\ other_prochead' = Save(other_prochead)
          /\ spc' = "length"
          /\ UNCHANGED <<array_vars, faulty>>
          /\ UNCHANGED <<procs, main_vars, alarm, usr1, sample, time_vars, alloc, packed>>
      BY <1>19, <2>5 DEF Fill, update_system_memory_data
    <3>1. ASSUME NEW list, list \in [DOMAIN list -> Node]
          PROVE  /\ DOMAIN Save(list) = DOMAIN list
                 /\ Save(list) \in [DOMAIN list -> Node]
                 /\ \A p \in DOMAIN list : Load(list[p]) \in Loads
      BY <3>1 DEF Save, Node, Load, Loads, TimesOK
    <3>2. ListsOK'
      BY <3>0, <3>1 DEF ListsOK
    <3>3. ThreadsOf(inst_prochead, DOMAIN inst_prochead) \in Nat
      <4>1. IsFiniteSet(DOMAIN inst_prochead)
        BY SetAssumption, FS_Subset DEF ListsOK
      <4>2. \A p \in DOMAIN inst_prochead : inst_prochead[p].threads \in Nat
        BY SizeAssumption DEF ListsOK, Node
      <4> QED
        BY <4>1, <4>2, ThreadsSumNat
    <3>4. info'.loads \in [DOMAIN info'.loads -> Loads]
      BY <3>0, <3>1 DEF ListsOK
    <3>5. MessageOK'
      BY <3>0, <3>3, <3>4 DEF MessageOK, ListsOK
    <3>6. ArraysOK' /\ TimesOK' /\ ProcsOK'
      BY <3>0 DEF ArraysOK, TimesOK, ProcsOK
    <3>7. SwitchOK' /\ ControlOK'
      BY <3>0 DEF SwitchOK, ControlOK, Steps
    <3> QED
      BY <3>2, <3>5, <3>6, <3>7
  <2> QED
    BY <2>4, <2>5
<1>c. Cardinality(info.inst) \in Nat /\ Cardinality(info.other) \in Nat
  BY SetAssumption, FS_Subset, FS_CardinalityType DEF MessageOK
<1>20. CASE msg_data_payload_length
  <2>4. ArraysOK'
    BY <1>20, EmptyArray DEF msg_data_payload_length, ArraysOK
  <2>9. MessageOK'
    <3>1. alloc' \in Nat
      BY <1>20, <1>c DEF msg_data_payload_length, On, MessageOK
    <3> QED
      BY <1>20, <3>1, NoInfoOK DEF msg_data_payload_length, MessageOK
  <2>1. SwitchOK'
    BY <1>20 DEF msg_data_payload_length, SwitchOK, BeginSamplingStop
  <2>2. ProcsOK'
    BY <1>20 DEF msg_data_payload_length, ProcsOK
  <2>3. ControlOK' /\ TimesOK'
    BY <1>20, SizeAssumption DEF msg_data_payload_length, ControlOK, TimesOK, Steps
  <2>5. ListsOK'
    BY <1>20 DEF msg_data_payload_length, ListsOK
  <2> QED
    BY <2>1, <2>2, <2>3, <2>4, <2>5, <2>9
<1>21. CASE pack_system_info
  <2>9. MessageOK'
    <3>1. ThreadsOf(inst_prochead, info.inst) \in Nat
      BY <1>21 DEF pack_system_info, MessageInv, MessageOK
    <3>2. packed' \in Nat
      BY <1>21, <1>c, <3>1 DEF pack_system_info, On
    <3> QED
      BY <1>21, <3>2 DEF pack_system_info, MessageOK
  <2>1. SwitchOK'
    BY <1>21 DEF pack_system_info, SwitchOK, BeginSamplingStop
  <2>2. ProcsOK'
    BY <1>21 DEF pack_system_info, ProcsOK
  <2>3. ControlOK' /\ TimesOK'
    BY <1>21, SizeAssumption DEF pack_system_info, ControlOK, TimesOK, Steps
  <2>5. ListsOK'
    BY <1>21 DEF pack_system_info, ListsOK
  <2>8. ArraysOK'
    BY <1>21 DEF pack_system_info, ArraysOK
  <2> QED
    BY <2>1, <2>2, <2>3, <2>5, <2>8, <2>9
<1>22. ASSUME NEW c \in Confs, Reconfigure(c)
       PROVE  /\ ProcsOK' /\ SwitchOK' /\ ControlOK' /\ TimesOK'
              /\ ArraysOK' /\ ListsOK' /\ MessageOK'
  <2>1. SwitchOK'
    BY <1>22 DEF Reconfigure, SwitchOK, BeginSamplingStop
  <2>2. ProcsOK'
    BY <1>22 DEF Reconfigure, ProcsOK
  <2>3. ControlOK' /\ TimesOK'
    BY <1>22, SizeAssumption, SetAssumption
    DEF Reconfigure, reconfigure_recording, Flags, ControlOK, TimesOK, Steps
  <2>4. ArraysOK' /\ MessageOK'
    BY <1>22, EmptyArray, NoInfoOK DEF Reconfigure, ArraysOK, MessageOK
  <2>5. ListsOK'
    BY <1>22 DEF Reconfigure, ListsOK
  <2> QED
    BY <2>1, <2>2, <2>3, <2>4, <2>5
<1> QED
  BY <1>1, <1>2, <1>3, <1>4, <1>5, <1>6, <1>7, <1>8, <1>9, <1>10, <1>11, <1>12, <1>13,
     <1>14, <1>15, <1>16, <1>17, <1>18, <1>19, <1>20, <1>21, <1>22, Zenon
  DEF Next, Environment, SamplingThread, MainLoop

-----------------------------------------------------------------------------
\* Times, marks, loads and the message.

\* A step that leaves the lists, times and the message alone.
LEMMA QuietStep ==
  ASSUME RestInv, UNCHANGED <<sample, array_vars, list_vars, time_vars, msg_vars, faulty>>,
         \/ spc' = spc /\ conf' \cap Features = conf \cap Features
         \/ spc \in {"off", "wait"} /\ spc' \in {"off", "wait"}
  PROVE  RestInv'
<1> USE DEF array_vars, list_vars, time_vars, msg_vars
<1>1. TimeInv' /\ ListInv'
  BY DEF RestInv, TimeInv, ListInv, InstRead, OtherRead
<1>2. LoadInv'
  BY DEF RestInv, LoadInv, Fresh, Saved, Clean, Base, InstRead, OtherRead
<1>3. MessageInv'
  <2>1. \/ spc' = spc /\ \A f \in Features : f \in conf' <=> f \in conf
        \/ spc \notin Packing /\ spc' \notin Packing
    BY Zenon DEF Packing
  <2> QED
    BY <2>1 DEF RestInv, MessageInv, On, Packing, Features
<1>4. ReportsOnlyListed' /\ TimesSpan' /\ PackedFits'
  BY DEF RestInv, ReportsOnlyListed, TimesSpan, PackedFits, Filled
<1> QED
  BY <1>1, <1>2, <1>3, <1>4 DEF RestInv

\* A failed sample leaves no message, and its number counts as disturbed.
LEMMA FailStep ==
  ASSUME TimesOK', RestInv, FailExit, spc # "write", alloc \in Nat,
         sample' = sample, alloc' = alloc, packed' = packed,
         since' <= old_time', old_time' <= sample,
         \A p \in DOMAIN other_prochead' : ~other_prochead'[p].found
  PROVE  RestInv'
<1>1. spc' = "wait" /\ info' = NoInfo /\ packed' = 0 /\ sample \in faulty'
  BY DEF FailExit, RestInv, MessageInv
<1>2. TimeInv' /\ ListInv'
  BY <1>1 DEF TimeInv, ListInv, InstRead, OtherRead
<1>3. ~Clean(old_time)'
  <2>1. sample' \in (old_time..sample)'
    BY DEF TimesOK
  <2> QED
    BY <1>1, <2>1 DEF Clean
<1>4. LoadInv'
  BY <1>1, <1>3 DEF LoadInv, Saved, InstRead, OtherRead
<1>5. MessageInv'
  BY <1>1 DEF MessageInv, Packing
<1>6. ReportsOnlyListed' /\ TimesSpan' /\ PackedFits'
  BY <1>1 DEF ReportsOnlyListed, TimesSpan, PackedFits, Filled
<1> QED
  BY <1>2, <1>4, <1>5, <1>6 DEF RestInv

\* A sample that is still clean after a pass was clean before it, and the pass
\* read every process.
LEMMA BlameClean ==
  ASSUME TimesOK, NEW bad, faulty' = Blame(bad), NEW n \in 0..sample,
         faulty' \cap n..sample = {}
  PROVE  faulty \cap n..sample = {} /\ ~bad
<1>1. sample \in n..sample
  BY DEF TimesOK
<1> QED
  BY <1>1 DEF Blame

\* The stat pass brings a list from what the last fill saved to this sample.
LEMMA StatFresh ==
  ASSUME TimesOK, TimeInv,
         NEW list, list \in [DOMAIN list -> Node], NEW a, DOMAIN a \subseteq Nat,
         NEW out, faulty' = Blame(Disturbed(a, out)), Saved(list),
         NEW new, new = update_process_data(list, a, out, "stat")
  PROVE  /\ faulty' \cap sample..sample = {} =>
              \A p \in Elems(a) : p \in DOMAIN new /\ new[p].data.at = sample
         /\ faulty' \cap old_time..sample = {} =>
              \A p \in Elems(a) :
                 new[p].saved = new[p].data \/ new[p].saved.at = old_time
<1>1. sample \in 0..sample /\ old_time \in 0..sample
  BY DEF TimesOK, TimeInv
<1>2. ASSUME faulty' \cap sample..sample = {}, NEW p \in Elems(a)
      PROVE  p \in DOMAIN new /\ new[p].data.at = sample
  <2>1. ~Disturbed(a, out)
    BY <1>1, <1>2, BlameClean
  <2> QED
    BY <2>1, StatData
<1>3. ASSUME faulty' \cap old_time..sample = {}, NEW p \in Elems(a)
      PROVE  new[p].saved = new[p].data \/ new[p].saved.at = old_time
  <2>1. ~Disturbed(a, out) /\ Clean(old_time)
    BY <1>1, <1>3, BlameClean DEF Clean
  <2>2. \/ new[p].saved = new[p].data
        \/ p \in DOMAIN list /\ new[p].saved = list[p].saved
    BY <2>1, StatData
  <2> QED
    BY <2>1, <2>2 DEF Saved
<1> QED
  BY <1>2, <1>3

\* Every step keeps the times, the marks, the loads and the message.
LEMMA RestStep ==
  ASSUME TypeOK, ShapeInv, TypeOK', ShapeInv', ThreadInv, RestInv, [Next]_vars
  PROVE  RestInv'
<1> USE DEF vars, main_vars, list_vars, array_vars, time_vars, msg_vars
<1>a. /\ TimesOK /\ ArraysOK /\ ListsOK /\ MessageOK
      /\ TimesOK' /\ ArraysOK' /\ ListsOK' /\ MessageOK'
  BY TypeParts, TypePartsPrime
<1>b. TimeInv /\ ListInv /\ LoadInv /\ MessageInv /\ ReportsOnlyListed /\ TimesSpan /\ PackedFits
  BY DEF RestInv
<1>1. CASE UNCHANGED vars
  BY <1>1, QuietStep
<1>2. ASSUME NEW p \in Pids, ExitProcess(p)
      PROVE  RestInv'
  BY <1>2, QuietStep DEF ExitProcess
<1>3. ASSUME NEW p \in Pids, NEW inst \in BOOLEAN, StartProcess(p, inst)
      PROVE  RestInv'
  BY <1>3, QuietStep DEF StartProcess
<1>4. CASE TimerExpires
  BY <1>4, QuietStep DEF TimerExpires
<1>5. CASE TakeUsr1
  BY <1>5, QuietStep DEF TakeUsr1
<1>6. CASE StartSampling
  BY <1>6, QuietStep DEF StartSampling, ThreadInv
<1>7. CASE StopSampling
  BY <1>7, QuietStep DEF StopSampling
<1>8. CASE Stopped
  BY <1>8, QuietStep DEF Stopped
<1>9. CASE Reconfigured
  BY <1>9, QuietStep DEF Reconfigured
<1>10. ASSUME NEW c \in Confs, Reconfigure(c)
      PROVE  RestInv'
  <2>1. running => conf' \cap Features = conf \cap Features
    BY <1>10 DEF Reconfigure, reconfigure_recording, Features
  <2> QED
    BY <1>10, <2>1, QuietStep DEF Reconfigure, ThreadInv
<1> HIDE DEF vars
<1>11. CASE TakeAlarm
  <2>1. /\ spc = "wait" /\ spc' \in {"pids", "length"}
        /\ sample' = sample + 1 /\ info = NoInfo /\ packed = 0
        /\ UNCHANGED <<array_vars, list_vars, time_vars, msg_vars, faulty>>
    BY <1>11, <1>b DEF TakeAlarm, MessageInv, Packing
  <2>2. TimeInv' /\ ListInv'
    BY <1>a, <1>b, <2>1 DEF TimeInv, ListInv, InstRead, OtherRead, TimesOK
  <2>3. LoadInv'
    <3>1. Clean(old_time)' => Clean(old_time)
      BY <1>a, <2>1 DEF Clean, TimesOK
    <3>2. Saved(inst_prochead) /\ Saved(other_prochead)
      BY <1>b, <2>1 DEF LoadInv, InstRead, OtherRead
    <3>3. Saved(inst_prochead)' /\ Saved(other_prochead)'
      BY <2>1, <3>1, <3>2 DEF Saved
    <3> QED
      BY <2>1, <3>3 DEF LoadInv, InstRead, OtherRead
  <2>4. MessageInv'
    <3>1. ThreadsOf(inst_prochead, info.inst)' = 0
      BY <2>1, NoThreads, NoInfoOK
    <3> QED
      BY <2>1, <3>1, NoInfoOK DEF MessageInv, Packing
  <2>5. ReportsOnlyListed' /\ TimesSpan' /\ PackedFits'
    BY <1>b, <2>1 DEF ReportsOnlyListed, TimesSpan, PackedFits, Filled
  <2> QED
    BY <2>2, <2>3, <2>4, <2>5 DEF RestInv
<1>12. CASE get_inst_pid_array
  <2>1. /\ spc = "pids" /\ spc' = "other_pids" /\ info = NoInfo /\ packed = 0
        /\ UNCHANGED <<sample, other_pidarray, list_vars, time_vars, msg_vars, faulty>>
    BY <1>12, <1>b DEF get_inst_pid_array, MessageInv, Packing
  <2>2. TimeInv' /\ ListInv'
    BY <1>b, <2>1 DEF TimeInv, ListInv, InstRead, OtherRead
  <2>3. LoadInv'
    BY <1>b, <2>1 DEF LoadInv, Saved, Clean, InstRead, OtherRead
  <2>4. MessageInv'
    BY <1>b, <2>1 DEF MessageInv, Packing
  <2>5. ReportsOnlyListed' /\ TimesSpan' /\ PackedFits'
    BY <1>b, <2>1 DEF ReportsOnlyListed, TimesSpan, PackedFits, Filled
  <2> QED
    BY <2>2, <2>3, <2>4, <2>5 DEF RestInv
<1>13. CASE get_other_pid_array
  <2>1. /\ spc = "other_pids" /\ spc' = "stat_inst" /\ info = NoInfo /\ packed = 0
        /\ UNCHANGED <<sample, inst_pidarray, list_vars, time_vars, msg_vars, faulty>>
    BY <1>13, <1>b DEF get_other_pid_array, MessageInv, Packing
  <2>2. TimeInv' /\ ListInv'
    <3> DEFINE S == {p \in Pids : procs[p].up} \ Elems(inst_pidarray)
    <3>1. IsFiniteSet(S) /\ (other_pidarray' \in Orders(S) \/ other_pidarray' = <<>>)
      BY <1>13, SetAssumption, FS_Subset DEF get_other_pid_array
    <3>2. Elems(other_pidarray') \subseteq S
      BY <3>1, OrdersOK, EmptyArray
    <3>3. Elems(inst_pidarray') \cap Elems(other_pidarray') = {}
      BY <2>1, <3>2
    <3> QED
      BY <1>b, <2>1, <3>3 DEF TimeInv, ListInv, InstRead, OtherRead
  <2>3. LoadInv'
    BY <1>b, <2>1 DEF LoadInv, Saved, Clean, InstRead, OtherRead
  <2>4. MessageInv'
    BY <1>b, <2>1 DEF MessageInv, Packing
  <2>5. ReportsOnlyListed' /\ TimesSpan' /\ PackedFits'
    BY <1>b, <2>1 DEF ReportsOnlyListed, TimesSpan, PackedFits, Filled
  <2> QED
    BY <2>2, <2>3, <2>4, <2>5 DEF RestInv
<1>14. CASE StatInst
  <2>0. PICK out \in Outcomes(inst_pidarray) :
          /\ inst_prochead' = update_process_data(inst_prochead, inst_pidarray, out, "stat")
          /\ \/ FailExit
             \/ /\ spc' = "stat_other"
                /\ faulty' = Blame(Disturbed(inst_pidarray, out))
                /\ UNCHANGED <<array_vars, info>>
    BY <1>14 DEF StatInst
  <2>1. /\ spc = "stat_inst" /\ info = NoInfo /\ packed = 0
        /\ UNCHANGED <<sample, other_prochead, time_vars, alloc, packed>>
    BY <1>14, <1>b DEF StatInst, MessageInv, Packing
  <2>6. CASE FailExit
    BY <1>a, <1>b, <2>1, <2>6, FailStep DEF TimeInv, ListInv, MessageOK
  <2>7. CASE /\ spc' = "stat_other"
             /\ faulty' = Blame(Disturbed(inst_pidarray, out))
             /\ UNCHANGED <<array_vars, info>>
    <3>2. TimeInv' /\ ListInv'
      <4>1. \A p \in DOMAIN inst_prochead' : ~inst_prochead'[p].found
        BY <1>a, <2>0, UpdateShape DEF ListsOK, ArraysOK
      <4> QED
        BY <1>b, <2>1, <2>7, <4>1 DEF TimeInv, ListInv, InstRead, OtherRead
    <3>3. LoadInv'
      <4>1. Saved(inst_prochead) /\ Saved(other_prochead)
        BY <1>b, <2>1 DEF LoadInv, InstRead, OtherRead
      <4>2. /\ faulty' \cap sample..sample = {} =>
                 \A p \in Elems(inst_pidarray) :
                    p \in DOMAIN inst_prochead' /\ inst_prochead'[p].data.at = sample
            /\ faulty' \cap old_time..sample = {} =>
                 \A p \in Elems(inst_pidarray) :
                    \/ inst_prochead'[p].saved = inst_prochead'[p].data
                    \/ inst_prochead'[p].saved.at = old_time
        BY <1>a, <1>b, <2>0, <2>7, <4>1, StatFresh DEF ListsOK, ArraysOK
      <4>3. Fresh(inst_prochead, inst_pidarray)'
        BY <2>1, <2>7, <4>2 DEF Fresh, Clean, Base
      <4>4. Saved(other_prochead)'
        <5>1. Clean(old_time)' => Clean(old_time)
          BY <2>1, <2>7 DEF Clean, Blame
        <5> QED
          BY <2>1, <4>1, <5>1 DEF Saved
      <4> QED
        BY <2>7, <4>3, <4>4 DEF LoadInv, InstRead, OtherRead
    <3>4. MessageInv'
      BY <1>b, <2>1, <2>7 DEF MessageInv, Packing
    <3>5. ReportsOnlyListed' /\ TimesSpan' /\ PackedFits'
      BY <1>b, <2>1, <2>7 DEF ReportsOnlyListed, TimesSpan, PackedFits, Filled
    <3> QED
      BY <3>2, <3>3, <3>4, <3>5 DEF RestInv
  <2> QED
    BY <2>0, <2>6, <2>7
<1>15. CASE StatOther
  <2>0. PICK out \in Outcomes(other_pidarray) :
          /\ other_prochead' = update_process_data(other_prochead, other_pidarray, out, "stat")
          /\ \/ FailExit
             \/ /\ spc' = "elapsed"
                /\ faulty' = Blame(Disturbed(other_pidarray, out))
                /\ UNCHANGED <<array_vars, info>>
    BY <1>15 DEF StatOther
  <2>1. /\ spc = "stat_other" /\ info = NoInfo /\ packed = 0
        /\ UNCHANGED <<sample, inst_prochead, time_vars, alloc, packed>>
    BY <1>15, <1>b DEF StatOther, MessageInv, Packing
  <2>2. /\ \A p \in DOMAIN other_prochead' : ~other_prochead'[p].found
        /\ DOMAIN other_prochead' \subseteq Elems(other_pidarray)
    BY <1>a, <1>b, <2>0, UpdateShape DEF ListsOK, ArraysOK, ListInv
  <2>6. CASE FailExit
    BY <1>a, <1>b, <2>1, <2>2, <2>6, FailStep DEF TimeInv, MessageOK
  <2>7. CASE /\ spc' = "elapsed"
             /\ faulty' = Blame(Disturbed(other_pidarray, out))
             /\ UNCHANGED <<array_vars, info>>
    <3>2. TimeInv' /\ ListInv'
      BY <1>b, <2>1, <2>2, <2>7 DEF TimeInv, ListInv, InstRead, OtherRead
    <3>3. LoadInv'
      <4>1. Fresh(inst_prochead, inst_pidarray) /\ Saved(other_prochead)
        BY <1>b, <2>1 DEF LoadInv, InstRead, OtherRead
      <4>2. /\ faulty' \cap sample..sample = {} =>
                 \A p \in Elems(other_pidarray) :
                    p \in DOMAIN other_prochead' /\ other_prochead'[p].data.at = sample
            /\ faulty' \cap old_time..sample = {} =>
                 \A p \in Elems(other_pidarray) :
                    \/ other_prochead'[p].saved = other_prochead'[p].data
                    \/ other_prochead'[p].saved.at = old_time
        BY <1>a, <1>b, <2>0, <2>7, <4>1, StatFresh DEF ListsOK, ArraysOK
      <4>3. Fresh(other_prochead, other_pidarray)'
        BY <2>1, <2>7, <4>2 DEF Fresh, Clean, Base
      <4>4. Fresh(inst_prochead, inst_pidarray)'
        <5>1. faulty \subseteq faulty'
          BY <2>7 DEF Blame
        <5>2. /\ Clean(sample)' => Clean(sample)
              /\ Clean(old_time)' => Clean(old_time)
          BY <2>1, <5>1 DEF Clean
        <5>3. Base = old_time /\ Base' = old_time'
          BY <2>1, <2>7 DEF Base
        <5> QED
          BY <2>1, <2>7, <4>1, <5>2, <5>3 DEF Fresh, Clean
      <4> QED
        BY <2>7, <4>3, <4>4 DEF LoadInv, InstRead, OtherRead
    <3>4. MessageInv'
      BY <1>b, <2>1, <2>7 DEF MessageInv, Packing
    <3>5. ReportsOnlyListed' /\ TimesSpan' /\ PackedFits'
      BY <1>b, <2>1, <2>7 DEF ReportsOnlyListed, TimesSpan, PackedFits, Filled
    <3> QED
      BY <3>2, <3>3, <3>4, <3>5 DEF RestInv
  <2> QED
    BY <2>0, <2>6, <2>7
<1>16. CASE Elapsed
  <2>1. /\ spc = "elapsed" /\ info = NoInfo /\ packed = 0
        /\ since' = old_time /\ old_time' = sample
        /\ UNCHANGED <<sample, list_vars, alloc, packed>>
    BY <1>16, <1>b DEF Elapsed, get_elapsed, MessageInv, Packing
  <2>6. CASE FailExit
    BY <1>a, <1>b, <2>1, <2>6, FailStep DEF TimeInv, TimesOK, ListInv, MessageOK
  <2>7. CASE spc' = "smaps" /\ UNCHANGED <<array_vars, info, faulty>>
    <3>2. TimeInv' /\ ListInv'
      BY <1>a, <1>b, <2>1, <2>7 DEF TimeInv, TimesOK, ListInv, InstRead, OtherRead
    <3>3. LoadInv'
      <4>1. Base = old_time /\ Base' = old_time
        BY <2>1, <2>7 DEF Base
      <4> QED
        BY <1>b, <2>1, <2>7, <4>1 DEF LoadInv, Fresh, Clean, InstRead, OtherRead
    <3>4. MessageInv'
      BY <1>b, <2>1, <2>7 DEF MessageInv, Packing
    <3>5. ReportsOnlyListed' /\ TimesSpan' /\ PackedFits'
      BY <1>b, <2>1, <2>7 DEF ReportsOnlyListed, TimesSpan, PackedFits, Filled
    <3> QED
      BY <3>2, <3>3, <3>4, <3>5 DEF RestInv
  <2> QED
    BY <1>16, <2>6, <2>7 DEF Elapsed, update_system_cpu_frequency
<1>17. CASE Smaps
  <2>0. PICK out \in Outcomes(inst_pidarray) :
          /\ inst_prochead' = update_process_data(inst_prochead, inst_pidarray, out, "smaps")
          /\ \/ FailExit
             \/ /\ spc' = "threads"
                /\ faulty' = Blame(Disturbed(inst_pidarray, out))
                /\ UNCHANGED <<array_vars, info>>
    BY <1>17 DEF Smaps
  <2>1. /\ spc = "smaps" /\ info = NoInfo /\ packed = 0
        /\ UNCHANGED <<sample, other_prochead, time_vars, alloc, packed>>
    BY <1>17, <1>b DEF Smaps, MessageInv, Packing
  <2>6. CASE FailExit
    BY <1>a, <1>b, <2>1, <2>6, FailStep DEF TimeInv, ListInv, MessageOK
  <2>7. CASE /\ spc' = "threads"
             /\ faulty' = Blame(Disturbed(inst_pidarray, out))
             /\ UNCHANGED <<array_vars, info>>
    <3>2. TimeInv' /\ ListInv'
      <4>1. DOMAIN inst_prochead' \subseteq Elems(inst_pidarray)
        BY <1>a, <1>b, <2>0, <2>1, UpdateShape DEF ListsOK, ArraysOK, ListInv
      <4> QED
        BY <1>b, <2>1, <2>7, <4>1 DEF TimeInv, ListInv, InstRead, OtherRead
    <3>3. LoadInv'
      <4>1. Fresh(inst_prochead, inst_pidarray) /\ Fresh(other_prochead, other_pidarray)
        BY <1>b, <2>1 DEF LoadInv, InstRead, OtherRead
      <4>2. Base = since /\ Base' = since /\ since \in 0..sample /\ sample \in 0..sample
        BY <1>a, <1>b, <2>1, <2>7 DEF Base, TimeInv, TimesOK
      <4>3. /\ Clean(sample)' => Clean(sample) /\ ~Disturbed(inst_pidarray, out)
            /\ Clean(Base)' => /\ Clean(Base) /\ Clean(sample)
                              /\ ~Disturbed(inst_pidarray, out)
        <5>1. /\ Clean(sample)' = (faulty' \cap sample..sample = {})
              /\ Clean(Base)' = (faulty' \cap since..sample = {})
          BY <2>1, <4>2 DEF Clean
        <5>2. faulty \cap since..sample = {} => faulty \cap sample..sample = {}
          BY <4>2
        <5> QED
          BY <1>a, <2>7, <4>2, <5>1, <5>2, BlameClean DEF Clean
      <4>4. Fresh(other_prochead, other_pidarray)'
        BY <2>1, <2>7, <4>1, <4>2, <4>3 DEF Fresh
      <4>5. Fresh(inst_prochead, inst_pidarray)'
        <5>1. ASSUME ~Disturbed(inst_pidarray, out), Clean(sample), NEW p \in Elems(inst_pidarray)
              PROVE  /\ p \in DOMAIN inst_prochead'
                     /\ inst_prochead'[p].data = inst_prochead[p].data
                     /\ inst_prochead'[p].saved = inst_prochead[p].saved
          BY <1>a, <2>0, <4>1, <5>1, SmapsData DEF Fresh, ListsOK
        <5> QED
          BY <2>1, <2>7, <4>1, <4>2, <4>3, <5>1 DEF Fresh
      <4> QED
        BY <2>7, <4>4, <4>5 DEF LoadInv, InstRead, OtherRead
    <3>4. MessageInv'
      BY <1>b, <2>1, <2>7 DEF MessageInv, Packing
    <3>5. ReportsOnlyListed' /\ TimesSpan' /\ PackedFits'
      BY <1>b, <2>1, <2>7 DEF ReportsOnlyListed, TimesSpan, PackedFits, Filled
    <3> QED
      BY <3>2, <3>3, <3>4, <3>5 DEF RestInv
  <2> QED
    BY <2>0, <2>6, <2>7
<1>18. CASE update_thread_data
  <2>0. /\ DOMAIN inst_prochead' = DOMAIN inst_prochead
        /\ \A p \in DOMAIN inst_prochead :
             /\ inst_prochead'[p].data = inst_prochead[p].data
             /\ inst_prochead'[p].saved = inst_prochead[p].saved
        /\ FailExit \/ (spc' = "fill" /\ UNCHANGED <<array_vars, info, faulty>>)
    BY <1>18, <1>a, ThreadPass
  <2>1. /\ spc = "threads" /\ info = NoInfo /\ packed = 0
        /\ UNCHANGED <<sample, other_prochead, time_vars, alloc, packed>>
    BY <1>18, <1>b DEF update_thread_data, MessageInv, Packing
  <2>6. CASE FailExit
    BY <1>a, <1>b, <2>1, <2>6, FailStep DEF TimeInv, ListInv, MessageOK
  <2>7. CASE spc' = "fill" /\ UNCHANGED <<array_vars, info, faulty>>
    <3>2. TimeInv' /\ ListInv'
      BY <1>b, <2>0, <2>1, <2>7 DEF TimeInv, ListInv, InstRead, OtherRead
    <3>3. LoadInv'
      <4>1. Fresh(inst_prochead, inst_pidarray) /\ Fresh(other_prochead, other_pidarray)
        BY <1>b, <2>1 DEF LoadInv, InstRead, OtherRead
      <4>2. Base = since /\ Base' = since
        BY <2>1, <2>7 DEF Base
      <4>3. Clean(sample)' = Clean(sample) /\ Clean(Base)' = Clean(Base)
        BY <2>1, <2>7, <4>2 DEF Clean
      <4>4. Clean(Base) => Clean(sample)
        BY <1>a, <1>b, <4>2 DEF Clean, TimeInv, TimesOK
      <4>5. Fresh(inst_prochead, inst_pidarray)' /\ Fresh(other_prochead, other_pidarray)'
        BY <2>0, <2>1, <2>7, <4>1, <4>2, <4>3, <4>4 DEF Fresh
      <4> QED
        BY <2>7, <4>5 DEF LoadInv, InstRead, OtherRead
    <3>4. MessageInv'
      BY <1>b, <2>1, <2>7 DEF MessageInv, Packing
    <3>5. ReportsOnlyListed' /\ TimesSpan' /\ PackedFits'
      BY <1>b, <2>1, <2>7 DEF ReportsOnlyListed, TimesSpan, PackedFits, Filled
    <3> QED
      BY <3>2, <3>3, <3>4, <3>5 DEF RestInv
  <2> QED
    BY <2>0, <2>6, <2>7
<1>19. CASE Fill
  <2>1. /\ spc = "fill" /\ packed = 0
        /\ UNCHANGED <<sample, time_vars, alloc, packed>>
    BY <1>19, <1>b DEF Fill, MessageInv
  <2>6. CASE update_system_memory_data
    BY <1>a, <1>b, <2>1, <2>6, FailStep
    DEF update_system_memory_data, TimeInv, ListInv, MessageOK
  <2>7. CASE ~update_system_memory_data
    <3>0. /\ info' = [inst |-> DOMAIN inst_prochead,
                      other |-> DOMAIN other_prochead,
                      threads |-> ThreadsOf(inst_prochead, DOMAIN inst_prochead),
                      loads |-> [p \in DOMAIN inst_prochead \cup DOMAIN other_prochead |->
                                   Load(IF p \in DOMAIN inst_prochead
                                        THEN inst_prochead[p] ELSE other_prochead[p])]]
          /\ inst_prochead' = Save(inst_prochead)
          /\ other_prochead' = Save(other_prochead)
          /\ spc' = "length"
          /\ UNCHANGED <<array_vars, faulty>>
      BY <1>19, <2>7 DEF Fill
    <3>1. ASSUME NEW list, list \in [DOMAIN list -> Node]
          PROVE  /\ DOMAIN Save(list) = DOMAIN list
                 /\ \A p \in DOMAIN list : /\ Save(list)[p].saved = list[p].data
                                          /\ Save(list)[p].threads = list[p].threads
                                          /\ Save(list)[p].found = list[p].found
      BY <3>1 DEF Save, Node
    <3>2. TimeInv' /\ ListInv'
      <4>1. \A p \in DOMAIN other_prochead' : ~other_prochead'[p].found
        BY <1>a, <1>b, <3>0, <3>1 DEF ListsOK, ListInv
      <4> QED
        BY <1>b, <2>1, <3>0, <4>1 DEF TimeInv, ListInv, InstRead, OtherRead
    <3>3. /\ Fresh(inst_prochead, inst_pidarray) /\ Fresh(other_prochead, other_pidarray)
          /\ Base = since
          /\ DOMAIN inst_prochead \subseteq Elems(inst_pidarray)
          /\ DOMAIN other_prochead \subseteq Elems(other_pidarray)
          /\ old_time = sample /\ (Clean(since) => Clean(sample))
      BY <1>a, <1>b, <2>1
      DEF LoadInv, InstRead, OtherRead, Base, ListInv, TimeInv, TimesOK, Clean
    <3>4. LoadInv'
      <4>1. Clean(old_time)' = Clean(sample)
        BY <2>1, <3>0, <3>3 DEF Clean
      <4>2. Saved(inst_prochead)' /\ Saved(other_prochead)'
        BY <1>a, <2>1, <3>0, <3>1, <3>3, <4>1 DEF Saved, Fresh, ListsOK
      <4> QED
        BY <3>0, <4>2 DEF LoadInv, InstRead, OtherRead
    <3>5. MessageInv'
      <4>1. IsFiniteSet(DOMAIN inst_prochead)
        BY <1>a, SetAssumption, FS_Subset DEF ListsOK
      <4>2. ThreadsOf(inst_prochead, DOMAIN inst_prochead)
              = ThreadsOf(inst_prochead', DOMAIN inst_prochead)
        BY <1>a, <3>0, <3>1, <4>1, ThreadsSumSame DEF ListsOK
      <4> QED
        BY <2>1, <3>0, <4>2 DEF MessageInv, Packing
    <3>6. ReportsOnlyListed'
      BY <1>b, <2>1, <3>0, <3>3 DEF ReportsOnlyListed, ListInv, InstRead
    <3>7. TimesSpan'
      <4>1. SUFFICES ASSUME Clean(since), NEW p \in DOMAIN info'.loads
                     PROVE  /\ info'.loads[p].to.at = sample
                            /\ \/ info'.loads[p].from = info'.loads[p].to
                               \/ info'.loads[p].from.at = since
        BY <2>1, <3>0 DEF TimesSpan, Clean
      <4> DEFINE node == IF p \in DOMAIN inst_prochead
                         THEN inst_prochead[p] ELSE other_prochead[p]
      <4>2. info'.loads[p] = [from |-> node.saved, to |-> node.data, since |-> since]
        BY <3>0, <4>1 DEF Load
      <4>3. p \in DOMAIN inst_prochead \cup DOMAIN other_prochead
        BY <3>0, <4>1
      <4>4. node.data.at = sample /\ (node.saved = node.data \/ node.saved.at = since)
        BY <3>3, <4>1, <4>3 DEF Fresh
      <4> HIDE DEF node
      <4> QED
        BY <4>2, <4>4
    <3>8. PackedFits'
      BY <1>b, <2>1 DEF PackedFits
    <3> QED
      BY <3>2, <3>4, <3>5, <3>6, <3>7, <3>8 DEF RestInv
  <2> QED
    BY <2>6, <2>7
<1>c. /\ Cardinality(info.inst) \in Nat /\ Cardinality(info.other) \in Nat
      /\ info.threads \in Nat
  BY <1>a, SetAssumption, FS_Subset, FS_CardinalityType DEF MessageOK
<1>20. CASE msg_data_payload_length
  <2>1. /\ spc = "length" /\ packed = 0
        /\ alloc' = On("thread_load", info.threads)
                       + On("process", Cardinality(info.inst))
                       + On("processes_load", Cardinality(info.other))
        /\ UNCHANGED <<sample, list_vars, time_vars, packed, faulty, conf>>
    BY <1>20, <1>b DEF msg_data_payload_length, MessageInv
  <2>2. \/ spc' = "pack" /\ UNCHANGED <<array_vars, info>>
        \/ spc' = "wait" /\ info' = NoInfo
    BY <1>20 DEF msg_data_payload_length
  <2>3. TimeInv' /\ ListInv'
    BY <1>b, <2>1, <2>2 DEF TimeInv, ListInv, InstRead, OtherRead
  <2>4. LoadInv'
    BY <1>b, <2>1, <2>2 DEF LoadInv, Saved, Clean, InstRead, OtherRead
  <2>5. MessageInv'
    BY <1>b, <2>1, <2>2 DEF MessageInv, Packing, On
  <2>6. ReportsOnlyListed' /\ TimesSpan'
    BY <1>b, <2>1, <2>2 DEF ReportsOnlyListed, TimesSpan, Filled
  <2>7. PackedFits'
    BY <1>a, <2>1 DEF PackedFits, MessageOK
  <2> QED
    BY <2>3, <2>4, <2>5, <2>6, <2>7 DEF RestInv
<1>21. CASE pack_system_info
  <2>1. /\ spc = "pack" /\ spc' = "write"
        /\ UNCHANGED <<sample, array_vars, list_vars, time_vars, info, alloc, faulty, conf>>
    BY <1>21 DEF pack_system_info
  <2>3. TimeInv' /\ ListInv'
    BY <1>b, <2>1 DEF TimeInv, ListInv, InstRead, OtherRead
  <2>4. LoadInv'
    BY <1>b, <2>1 DEF LoadInv, Saved, Clean, InstRead, OtherRead
  <2>5. MessageInv'
    BY <1>b, <2>1 DEF MessageInv, Packing
  <2>6. ReportsOnlyListed' /\ TimesSpan'
    BY <1>b, <2>1 DEF ReportsOnlyListed, TimesSpan, Filled
  <2>7. PackedFits'
    <3>1. /\ alloc = On("thread_load", info.threads)
                       + On("process", Cardinality(info.inst))
                       + On("processes_load", Cardinality(info.other))
          /\ ThreadsOf(inst_prochead, info.inst) = info.threads
      BY <1>b, <2>1 DEF MessageInv
    <3>2. packed' = On("process", Cardinality(info.inst) + On("thread_load", info.threads))
                      + On("processes_load", Cardinality(info.other))
      BY <1>21, <3>1 DEF pack_system_info
    <3> QED
      BY <1>c, <2>1, <3>1, <3>2 DEF PackedFits, On
  <2> QED
    BY <2>3, <2>4, <2>5, <2>6, <2>7 DEF RestInv
<1>22. CASE WriteToBuf
  <2>1. /\ spc = "write" /\ spc' = "wait" /\ info' = NoInfo /\ alloc' = 0 /\ packed' = 0
        /\ UNCHANGED <<sample, list_vars, time_vars, faulty>>
    BY <1>22 DEF WriteToBuf
  <2>3. TimeInv' /\ ListInv'
    BY <1>b, <2>1 DEF TimeInv, ListInv, InstRead, OtherRead
  <2>4. LoadInv'
    BY <1>b, <2>1 DEF LoadInv, Saved, Clean, InstRead, OtherRead
  <2>5. MessageInv'
    BY <2>1 DEF MessageInv, Packing
  <2>6. ReportsOnlyListed' /\ TimesSpan' /\ PackedFits'
    BY <2>1 DEF ReportsOnlyListed, TimesSpan, PackedFits, Filled
  <2> QED
    BY <2>3, <2>4, <2>5, <2>6 DEF RestInv
<1> QED
  BY <1>1, <1>2, <1>3, <1>4, <1>5, <1>6, <1>7, <1>8, <1>9, <1>10, <1>11, <1>12, <1>13,
     <1>14, <1>15, <1>16, <1>17, <1>18, <1>19, <1>20, <1>21, <1>22, Zenon
  DEF Next, Environment, SamplingThread, MainLoop
-----------------------------------------------------------------------------
\* The session and its thread.

\* Every step keeps the thread inside its session.
LEMMA ThreadStep ==
  ASSUME SwitchOK, ThreadInv, [Next]_vars
  PROVE  ThreadInv'
<1> USE DEF vars, main_vars, list_vars, array_vars, time_vars, msg_vars
<1>1. CASE UNCHANGED vars \/ Environment
  BY <1>1 DEF ThreadInv, Environment, StartProcess, ExitProcess, TimerExpires
<1>2. CASE SamplingThread
  <2>1. spc # "off" /\ running' = running /\ main' = main
    BY <1>2
    DEF SamplingThread, TakeAlarm, TakeUsr1, get_inst_pid_array, get_other_pid_array,
        StatInst, StatOther, Elapsed, Smaps, update_thread_data, Fill,
        msg_data_payload_length, pack_system_info, WriteToBuf
  <2> QED
    BY <2>1 DEF ThreadInv
<1>3. CASE StartSampling
  <2>1. running' = TRUE
    BY <1>3 DEF StartSampling
  <2> QED
    BY <2>1 DEF ThreadInv
<1>4. CASE StopSampling
  BY <1>4 DEF ThreadInv, StopSampling
<1>5. CASE Stopped
  <2>1. spc' = "off" /\ main' = "idle"
    BY <1>5 DEF Stopped
  <2> QED
    BY <2>1 DEF ThreadInv
<1>6. CASE Reconfigured
  BY <1>6 DEF ThreadInv, Reconfigured
<1>7. ASSUME NEW c \in Confs, Reconfigure(c) PROVE ThreadInv'
  BY <1>7 DEF ThreadInv, Reconfigure
<1> QED
  BY <1>1, <1>2, <1>3, <1>4, <1>5, <1>6, <1>7 DEF Next, MainLoop

-----------------------------------------------------------------------------
\* Whose ticks are read.

\* Readings keep their owner while the watched system stands still.
LEMMA OwnSame ==
  ASSUME NEW list, OwnList(list), procs' = procs, sample \in Nat,
         sample' \in Nat, sample <= sample', list \in [DOMAIN list -> Node]
  PROVE  \A p \in DOMAIN list : Own(p, list[p].data)' /\ Own(p, list[p].saved)'
BY DEF OwnList, Own, Node, Reading

\* A pass leaves readings of the list, junk, and readings made now.
LEMMA UpdateOwn ==
  ASSUME TypeOK, ReuseInv,
         NEW list, DOMAIN list \subseteq Pids, list \in [DOMAIN list -> Node], OwnList(list),
         NEW a, Elems(a) \subseteq Pids, NEW out \in Outcomes(a), NEW datatype
  PROVE  OwnList(update_process_data(list, a, out, datatype))
<1> DEFINE kept == del_node(list, Elems(a) \ Present(a, out))
           touched == Touch(kept, Present(a, out))
           stat == [p \in DOMAIN touched |-> StatNode(list, a, out, p, touched[p])]
           parsed == IF datatype = "stat" THEN stat ELSE touched
           left == del_notfound_node(parsed)
           Good(p, node) == node \in Node /\ Own(p, node.data) /\ Own(p, node.saved)
<1>1. /\ DOMAIN kept \subseteq Pids
      /\ \A p \in DOMAIN kept : Good(p, kept[p])
  BY DEF del_node, OwnList
<1>2. \A p \in Pids : Own(p, Junk)
  BY DEF Own, Junk, TypeOK
<1>3. ASSUME NEW p \in DOMAIN touched
      PROVE  p \in Pids /\ Good(p, touched[p])
  <2> HIDE DEF kept
  <2>1. DOMAIN touched = DOMAIN kept \cup Present(a, out) /\ p \in Pids
    BY <1>1 DEF Touch, Present
  <2>2. CASE p \in DOMAIN kept
    <3>1. touched[p] = [kept[p] EXCEPT !.found = @ \/ p \in Present(a, out)]
      BY <2>2 DEF Touch
    <3>2. Good(p, kept[p])
      BY <1>1, <2>2
    <3>3. (kept[p].found \/ p \in Present(a, out)) \in BOOLEAN
      BY <3>2 DEF Node
    <3>4. /\ touched[p] \in Node
          /\ touched[p].data = kept[p].data /\ touched[p].saved = kept[p].saved
      BY <3>1, <3>2, <3>3 DEF Node
    <3> QED
      BY <2>1, <3>2, <3>4
  <2>3. CASE p \notin DOMAIN kept
    <3>1. touched[p] = [data |-> Junk, saved |-> Junk, found |-> TRUE, threads |-> 0]
      BY <2>1, <2>3 DEF Touch
    <3>2. Junk \in Reading /\ 0 \in 0..MaxThreads
      BY SizeAssumption DEF Junk, Reading
    <3> QED
      BY <1>2, <2>1, <3>1, <3>2 DEF Node
  <2> QED
    BY <2>2, <2>3
<1> HIDE DEF touched
<1>4. ASSUME NEW p \in DOMAIN touched
      PROVE  Good(p, StatNode(list, a, out, p, touched[p]))
  <2> DEFINE now == [inc |-> procs[p].inc, at |-> sample]
             node == touched[p]
  <2>1. p \in Pids /\ Good(p, node)
    BY <1>3
  <2>2. CASE p \in Elems(a) /\ out[p] = "ok"
    <3>1. procs[p].up /\ procs[p].inc # 0
      BY <2>1, <2>2 DEF Outcomes, ReuseInv
    <3>2. now \in Reading /\ Own(p, now)
      BY <2>1, <3>1 DEF TypeOK, Reading, Own
    <3>3. \/ StatNode(list, a, out, p, node) = [node EXCEPT !.data = now, !.saved = now]
          \/ StatNode(list, a, out, p, node) = [node EXCEPT !.data = now, !.saved = @]
      BY <2>2 DEF StatNode
    <3> HIDE DEF now, node
    <3>4. Good(p, StatNode(list, a, out, p, node))
      BY <2>1, <3>2, <3>3 DEF Node
    <3> QED
      BY <3>4 DEF node
  <2>3. CASE ~(p \in Elems(a) /\ out[p] = "ok")
    BY <2>1, <2>3 DEF StatNode
  <2> QED
    BY <2>2, <2>3
<1>5. DOMAIN parsed = DOMAIN touched /\ \A p \in DOMAIN parsed : Good(p, parsed[p])
  <2>1. DOMAIN stat = DOMAIN touched /\ \A p \in DOMAIN stat : Good(p, stat[p])
    BY <1>4
  <2> HIDE DEF stat, Good
  <2> QED
    BY <1>3, <2>1
<1> HIDE DEF parsed
<1>6. \A p \in DOMAIN left : Good(p, left[p])
  BY <1>5 DEF del_notfound_node
<1>7. update_process_data(list, a, out, datatype) = reset_found_node(left)
  BY DEF update_process_data, touched, parsed
<1> HIDE DEF left
<1>8. /\ DOMAIN reset_found_node(left) = DOMAIN left
      /\ \A p \in DOMAIN left : /\ reset_found_node(left)[p].data = left[p].data
                                /\ reset_found_node(left)[p].saved = left[p].saved
  BY <1>6 DEF reset_found_node, Node
<1> QED
  BY <1>6, <1>7, <1>8 DEF OwnList

\* Every step keeps the readings with their owners.
LEMMA ReuseStep ==
  ASSUME TypeOK, TypeOK', ShapeInv, MessageInv, ReuseInv, [Next]_vars
  PROVE  ReuseInv'
<1> USE DEF vars, main_vars, list_vars, array_vars, time_vars, msg_vars
<1>a. /\ ListsOK /\ ProcsOK /\ TimesOK /\ MessageOK /\ ArraysOK
  BY TypeParts
<1>b. /\ sample \in Nat /\ \A q \in Pids : procs[q].reused \in Nat /\ procs[q].inc \in Nat
  BY <1>a DEF TimesOK, ProcsOK
<1>1. ASSUME UNCHANGED <<procs, list_vars>>, info' = info \/ info' = NoInfo,
             sample' \in Nat, sample <= sample'
      PROVE  ReuseInv'
  <2>1. OwnList(inst_prochead)' /\ OwnList(other_prochead)'
    BY <1>1, <1>a, <1>b, OwnSame DEF ReuseInv, OwnList, ListsOK
  <2>2. OwnLoads'
    <3>1. CASE info' = info
      BY <1>1, <1>a, <1>b, <3>1 DEF ReuseInv, OwnLoads, Own, MessageOK, Loads, Reading
    <3>2. CASE info' = NoInfo
      BY <3>2 DEF OwnLoads, NoInfo
    <3> QED
      BY <1>1, <3>1, <3>2
  <2> QED
    BY <1>1, <2>1, <2>2 DEF ReuseInv
<1>2. CASE UNCHANGED vars
  BY <1>1, <1>2, <1>b
<1>3. CASE TakeAlarm
  BY <1>1, <1>3, <1>b DEF TakeAlarm
<1>4. ASSUME TimerExpires \/ TakeUsr1 \/ get_inst_pid_array \/ get_other_pid_array
             \/ pack_system_info \/ StartSampling \/ StopSampling \/ Stopped
             \/ Reconfigured \/ \E c \in Confs : Reconfigure(c)
      PROVE  ReuseInv'
  BY <1>1, <1>4, <1>b
  DEF TimerExpires, TakeUsr1, get_inst_pid_array, get_other_pid_array, pack_system_info,
      StartSampling, StopSampling, Stopped, Reconfigured, Reconfigure
<1>5. CASE Elapsed \/ msg_data_payload_length \/ WriteToBuf
  BY <1>1, <1>5, <1>b
  DEF Elapsed, update_system_cpu_frequency, FailExit, msg_data_payload_length, WriteToBuf
<1>6. ASSUME NEW p \in Pids, ExitProcess(p)
      PROVE  ReuseInv'
  <2>1. /\ sample' = sample /\ UNCHANGED <<list_vars, info>>
        /\ \A q \in Pids : /\ procs'[q].inc = procs[q].inc
                           /\ procs'[q].reused = procs[q].reused
                           /\ procs'[q].up => procs[q].up
    BY <1>6, <1>a DEF ExitProcess, ProcsOK
  <2>2. OwnList(inst_prochead)' /\ OwnList(other_prochead)'
    BY <2>1, <1>a DEF ReuseInv, OwnList, Own, ListsOK
  <2>3. OwnLoads'
    BY <2>1 DEF ReuseInv, OwnLoads, Own
  <2> QED
    BY <2>1, <2>2, <2>3 DEF ReuseInv
<1>7. ASSUME NEW p \in Pids, NEW inst \in BOOLEAN, StartProcess(p, inst)
      PROVE  ReuseInv'
  <2>1. /\ sample' = sample /\ UNCHANGED list_vars /\ info' = NoInfo
        /\ \A q \in Pids \ {p} : procs'[q] = procs[q]
        /\ procs'[p].inc = procs[p].inc + 1
        /\ procs'[p].reused = IF procs[p].inc = 0 THEN 0 ELSE sample
    BY <1>7, <1>a DEF StartProcess, ProcsOK, Observing, MessageInv, Packing
  <2>2. ASSUME NEW q \in Pids, NEW r \in Reading, Own(q, r)
        PROVE  Own(q, r)'
    <3>1. CASE q # p
      BY <2>1, <2>2, <3>1 DEF Own
    <3>2. CASE q = p
      BY <2>1, <2>2, <3>2, <1>b DEF Own, ReuseInv, Reading
    <3> QED
      BY <3>1, <3>2
  <2>3. OwnList(inst_prochead)' /\ OwnList(other_prochead)'
    BY <2>1, <2>2, <1>a DEF ReuseInv, OwnList, ListsOK, Node
  <2>4. OwnLoads'
    BY <2>1 DEF OwnLoads, NoInfo
  <2>5. \A q \in Pids : /\ procs'[q].up => procs'[q].inc # 0
                        /\ procs'[q].inc = 0 => procs'[q].reused = 0
    <3>1. procs'[p].inc # 0
      BY <2>1, <1>b
    <3> QED
      BY <2>1, <3>1 DEF ReuseInv
  <2> QED
    BY <2>3, <2>4, <2>5 DEF ReuseInv
<1>8. CASE StatInst \/ Smaps
  <2>1. PICK out \in Outcomes(inst_pidarray), t \in {"stat", "smaps"} :
          inst_prochead' = update_process_data(inst_prochead, inst_pidarray, out, t)
    BY <1>8 DEF StatInst, Smaps
  <2>2. UNCHANGED <<procs, sample, other_prochead>> /\ (info' = info \/ info' = NoInfo)
    BY <1>8 DEF StatInst, Smaps, FailExit
  <2>3. OwnList(inst_prochead')
    BY <2>1, <1>a, UpdateOwn DEF ListsOK, ArraysOK, ReuseInv
  <2>4. OwnList(inst_prochead)' /\ OwnList(other_prochead)'
    BY <2>2, <2>3 DEF OwnList, Own, ReuseInv
  <2>5. OwnLoads'
    BY <2>2 DEF OwnLoads, Own, ReuseInv, NoInfo
  <2> QED
    BY <2>2, <2>4, <2>5 DEF ReuseInv
<1>9. CASE StatOther
  <2>1. PICK out \in Outcomes(other_pidarray) :
          other_prochead' = update_process_data(other_prochead, other_pidarray, out, "stat")
    BY <1>9 DEF StatOther
  <2>2. UNCHANGED <<procs, sample, inst_prochead>> /\ (info' = info \/ info' = NoInfo)
    BY <1>9 DEF StatOther, FailExit
  <2>3. OwnList(other_prochead')
    BY <2>1, <1>a, UpdateOwn DEF ListsOK, ArraysOK, ReuseInv
  <2>4. OwnList(inst_prochead)' /\ OwnList(other_prochead)'
    BY <2>2, <2>3 DEF OwnList, Own, ReuseInv
  <2>5. OwnLoads'
    BY <2>2 DEF OwnLoads, Own, ReuseInv, NoInfo
  <2> QED
    BY <2>2, <2>4, <2>5 DEF ReuseInv
<1>10. CASE update_thread_data
  <2>1. /\ DOMAIN inst_prochead' = DOMAIN inst_prochead
        /\ \A p \in DOMAIN inst_prochead :
             /\ inst_prochead'[p].data = inst_prochead[p].data
             /\ inst_prochead'[p].saved = inst_prochead[p].saved
        /\ info' = info \/ info' = NoInfo
    BY <1>10, <1>a, ThreadPass, SMTT(30) DEF FailExit
  <2>2. UNCHANGED <<procs, sample, other_prochead>>
    BY <1>10 DEF update_thread_data
  <2>3. OwnList(inst_prochead)' /\ OwnList(other_prochead)'
    BY <2>1, <2>2 DEF OwnList, Own, ReuseInv
  <2>4. OwnLoads'
    BY <2>1, <2>2 DEF OwnLoads, Own, ReuseInv, NoInfo
  <2> QED
    BY <2>2, <2>3, <2>4 DEF ReuseInv
<1>11. CASE Fill
  <2>1. CASE update_system_memory_data
    BY <1>1, <1>11, <2>1, <1>b DEF Fill, update_system_memory_data, FailExit
  <2>2. CASE ~update_system_memory_data
    <3>1. /\ info'.loads = [p \in DOMAIN inst_prochead \cup DOMAIN other_prochead |->
                               Load(IF p \in DOMAIN inst_prochead
                                    THEN inst_prochead[p] ELSE other_prochead[p])]
          /\ inst_prochead' = Save(inst_prochead)
          /\ other_prochead' = Save(other_prochead)
          /\ UNCHANGED <<procs, sample>>
      BY <1>11, <2>2 DEF Fill
    <3>2. OwnLoads'
      <4>1. ASSUME NEW p \in DOMAIN inst_prochead \cup DOMAIN other_prochead
            PROVE  /\ p \in Pids
                   /\ Own(p, info'.loads[p].from)
                   /\ Own(p, info'.loads[p].to)
        <5> DEFINE node == IF p \in DOMAIN inst_prochead
                           THEN inst_prochead[p] ELSE other_prochead[p]
        <5>1. p \in Pids /\ Own(p, node.data) /\ Own(p, node.saved)
          BY <1>a DEF ReuseInv, OwnList, ListsOK
        <5>2. info'.loads[p] = [from |-> node.saved, to |-> node.data, since |-> since]
          BY <3>1 DEF Load
        <5> HIDE DEF node
        <5> QED
          BY <5>1, <5>2
      <4> QED
        BY <3>1, <4>1 DEF OwnLoads, Own
    <3>3. ASSUME NEW list, list \in [DOMAIN list -> Node], OwnList(list)
          PROVE  OwnList(Save(list))
      BY <3>3 DEF OwnList, Save, Node
    <3>4. OwnList(inst_prochead') /\ OwnList(other_prochead')
      BY <3>1, <3>3, <1>a DEF ReuseInv, ListsOK
    <3>5. OwnList(inst_prochead)' /\ OwnList(other_prochead)'
      BY <3>1, <3>4 DEF OwnList, Own
    <3> QED
      BY <3>1, <3>2, <3>5 DEF ReuseInv
  <2> QED
    BY <2>1, <2>2
<1> QED
  BY <1>2, <1>3, <1>4, <1>5, <1>6, <1>7, <1>8, <1>9, <1>10, <1>11
  DEF Next, Environment, SamplingThread, MainLoop

-----------------------------------------------------------------------------
\* The inductive invariant.

\* The invariant holds when the manager starts.
LEMMA InitIInv == Init => IInv
<1> SUFFICES ASSUME Init PROVE IInv
  OBVIOUS
<1>1. /\ spc = "off" /\ info = NoInfo /\ packed = 0 /\ alloc = 0 /\ sample = 0
      /\ old_time = 0 /\ since = 0 /\ faulty = {} /\ running = FALSE /\ main = "idle"
      /\ inst_prochead = <<>> /\ other_prochead = <<>>
      /\ inst_pidarray = <<>> /\ other_pidarray = <<>>
  BY DEF Init
<1>2. ProcsOK /\ SwitchOK
  <2>1. ProcsOK
    <3>1. [inc |-> 0, up |-> FALSE, inst |-> FALSE, reused |-> 0]
            \in [inc : 0..MaxStarts, up : BOOLEAN, inst : BOOLEAN,
                 reused : 0..MaxSamples]
      BY SizeAssumption
    <3> QED
      BY <3>1 DEF Init, ProcsOK
  <2>2. SwitchOK
    BY Zenon DEF Init, SwitchOK
  <2> QED
    BY <2>1, <2>2
<1>3. ControlOK /\ TimesOK /\ ArraysOK
  BY SizeAssumption, EmptyArray DEF Init, ControlOK, TimesOK, ArraysOK, Steps
<1>4. ListsOK /\ MessageOK
  BY <1>1, NoInfoOK DEF ListsOK, MessageOK
<1>5. TypeOK /\ ShapeInv
  BY <1>2, <1>3, <1>4, TypeParts
<1>6. ThreadInv /\ TimeInv /\ ListInv /\ MessageInv
  BY <1>1 DEF ThreadInv, TimeInv, ListInv, MessageInv, InstRead, OtherRead, Packing
<1>7. LoadInv
  BY <1>1 DEF LoadInv, Saved, InstRead, OtherRead
<1>8. ReportsOnlyListed /\ TimesSpan /\ PackedFits
  BY <1>1 DEF ReportsOnlyListed, TimesSpan, PackedFits, Filled
<1>9. ReuseInv
  <2>1. \A p \in Pids : ~procs[p].up /\ procs[p].inc = 0 /\ procs[p].reused = 0
    BY Zenon DEF Init
  <2> QED
    BY <1>1, <2>1 DEF ReuseInv, OwnList, OwnLoads, NoInfo
<1> QED
  BY <1>5, <1>6, <1>7, <1>8, <1>9 DEF IInv, RestInv

\* Every step keeps it.
LEMMA NextIInv == IInv /\ [Next]_vars => IInv'
<1> SUFFICES ASSUME IInv, [Next]_vars PROVE IInv'
  OBVIOUS
<1>1. /\ ProcsOK /\ SwitchOK /\ ControlOK /\ TimesOK /\ ArraysOK /\ ListsOK /\ MessageOK
      /\ TimeInv /\ MessageInv /\ ThreadInv /\ RestInv
  BY TypeParts DEF IInv, RestInv
<1>2. TypeOK' /\ ShapeInv'
  BY <1>1, TypeStep, TypePartsPrime
<1>3. ThreadInv'
  BY <1>1, ThreadStep
<1>4. RestInv'
  BY <1>2, RestStep DEF IInv
<1>5. ReuseInv'
  BY <1>1, <1>2, ReuseStep DEF IInv
<1> QED
  BY <1>2, <1>3, <1>4, <1>5 DEF IInv

\* The strengthened invariant holds in every state, for every finite set of
\* pids, every configuration and every bound.
THEOREM Invariance == Spec => []IInv
<1>1. Init => IInv
  BY InitIInv
<1>2. IInv /\ [Next]_vars => IInv'
  BY NextIInv
<1> QED
  BY <1>1, <1>2, PTL DEF Spec

\* Every variable of the sampling thread keeps its type; in particular the
\* incarnation read from /proc never exceeds the number of processes started.
THEOREM TypeCorrect == Spec => []TypeOK
<1>1. IInv => TypeOK
  BY DEF IInv
<1> QED
  BY <1>1, Invariance, PTL

\* What fill_system_processes_info reports are processes of this sample's
\* arrays, none in both lists: no node of an earlier sample survives.
THEOREM OnlyListedReported == Spec => []ReportsOnlyListed
<1>1. IInv => ReportsOnlyListed
  BY DEF IInv, RestInv
<1> QED
  BY <1>1, Invariance, PTL

\* A load is counted over the time get_elapsed returned, when no sample in
\* between was disturbed, and over one process unless the pid was reused
\* since then.
THEOREM LoadsSpanElapsed == Spec => []LoadSpansElapsed
<1>1. IInv => LoadSpansElapsed
  <2>1. SUFFICES ASSUME IInv, Filled, faulty \cap since..sample = {},
                        NEW p \in DOMAIN info.loads
                 PROVE  LET l == info.loads[p] IN
                        /\ l.to.at = sample
                        /\ \/ l.from = l.to
                           \/ /\ l.from.at = since
                              /\ l.from.inc = l.to.inc \/ procs[p].reused >= since
    BY DEF LoadSpansElapsed
  <2> DEFINE f == info.loads[p].from
             t == info.loads[p].to
  <2>2. t.at = sample /\ (f = t \/ f.at = since)
    BY <2>1 DEF IInv, RestInv, TimesSpan
  <2>3. Own(p, f) /\ Own(p, t)
    BY <2>1 DEF IInv, ReuseInv, OwnLoads
  <2>4. since <= sample /\ since \in Nat /\ sample \in Nat /\ p \in Pids
    BY <2>1 DEF IInv, RestInv, TimeInv, TypeOK, ReuseInv, OwnLoads
  <2>5. procs[p].reused \in Nat
    BY <2>1, <2>4 DEF IInv, TypeOK
  <2> HIDE DEF f, t
  <2>6. ASSUME f.at = since, f.inc # t.inc
        PROVE  procs[p].reused >= since
    BY <2>2, <2>3, <2>4, <2>5, <2>6 DEF Own
  <2>7. /\ t.at = sample
        /\ f = t \/ (f.at = since /\ (f.inc = t.inc \/ procs[p].reused >= since))
    BY <2>2, <2>6
  <2> QED
    BY <2>7 DEF f, t
<1> QED
  BY <1>1, Invariance, PTL

\* pack_system_info never writes more than msg_data_payload_length reserved.
THEOREM PackingFits == Spec => []PackedFits
<1>1. IInv => PackedFits
  BY DEF IInv, RestInv
<1> QED
  BY <1>1, Invariance, PTL

\* While there is a sampling thread no flag changes but FL_RECORDING, which
\* reconfigure_recording writes before samplingStop: the flags that
\* get_system_info and msg_data_payload_length tested are those that
\* pack_system_info tests.
FlagsStill ==
  [][spc # "off" => conf' \ {"recording"} = conf \ {"recording"}]_vars

\* reconfigure and samplingStop keep the flags a sample tests still during it.
THEOREM ConfStable == Spec => FlagsStill
<1>1. IInv /\ [Next]_vars
        => [spc # "off" => conf' \ {"recording"} = conf \ {"recording"}]_vars
  <2> SUFFICES ASSUME IInv, Next, conf' # conf, spc # "off"
               PROVE  conf' \ {"recording"} = conf \ {"recording"}
    BY Zenon
  <2> USE DEF vars, main_vars, list_vars, array_vars, time_vars, msg_vars
  <2>1. ~Environment
    BY DEF Environment, StartProcess, ExitProcess, TimerExpires
  <2>2. ~SamplingThread
    BY DEF SamplingThread, TakeAlarm, TakeUsr1, get_inst_pid_array, get_other_pid_array,
        StatInst, StatOther, Elapsed, Smaps, update_thread_data, Fill,
        msg_data_payload_length, pack_system_info, WriteToBuf
  <2>3. Reconfigured \/ \E c \in Confs : Reconfigure(c)
    BY <2>1, <2>2 DEF Next, MainLoop, StartSampling, StopSampling, Stopped
  <2> QED
    BY <2>3 DEF Reconfigured, Reconfigure, reconfigure_recording, IInv, ThreadInv
<1> QED
  BY <1>1, Invariance, PTL DEF Spec, FlagsStill

====
