-------------------------------- MODULE Probes -------------------------------
(***************************************************************************)
(* The lists of instrumented libraries and their probes (da_inst.c) and    *)
(* the messages that change them: SWAP_INST_ADD, SWAP_INST_REMOVE, START   *)
(* and STOP, parsed by da_protocol_inst.c.                                 *)
(*                                                                         *)
(* A list is a sequence with its head first.  A probe stands for what      *)
(* find_probe compares (length, address and arguments; not the return      *)
(* type).  size counts in units of one packed probe and leaves out the     *)
(* path and the counter, which no operation gets wrong.  All handlers run  *)
(* in the main loop under one mutex, so each is one step.                  *)
(***************************************************************************)
EXTENDS Integers, Sequences, SequencesExt

CONSTANTS
  Libs,      \* library paths; equal paths have equal hashes
  Probes,    \* probes of a library
  Host,      \* what the host may do: "repeats" libraries, "breaks" messages
  MaxNamed,  \* bound on the libraries of one message
  MaxFuncs,  \* bound on the probes of one of them
  MaxList,   \* bound on the libraries of the current list
  MaxLeft,   \* bound on the libraries a broken REMOVE leaves
  MaxProbes, \* bound on the probes of one listed library
  MaxDrift,  \* bound on the probes that the size of a library misses
  MaxApps    \* bound on the application list

ASSUME HostAssumption == Host \subseteq {"repeats", "breaks"}

\* Lists may be empty.
ASSUME BoundsAssumption ==
  /\ MaxNamed \in Nat /\ MaxFuncs \in Nat /\ MaxList \in Nat /\ MaxLeft \in Nat
  /\ MaxProbes \in Nat /\ MaxDrift \in Nat /\ MaxApps \in Nat

VARIABLES
  lib_inst_list,      \* prof_session.user_space_inst.lib_inst_list
  new_lib_inst_list,  \* the global of da_inst.c
  apps,               \* length of app_inst_list
  maps,               \* libraries in lib_maps_message
  running,            \* prof_session.running_status
  daemon,             \* "up", "crashed", "exited"
  last                \* history: the last message and what went to the device

vars == <<lib_inst_list, new_lib_inst_list, apps, maps, running, daemon, last>>

NoLibs == <<>>

\* What a message names: paths with their probes, any of them several times.
Requests ==
  LET entry == [lib : Libs, probes : SeqOf(Probes, MaxFuncs)]
  IN  SeqOf(entry, MaxNamed)

\* Library and probe, for every probe of a list.
Pairs(list) ==
  UNION {{<<list[i].lib, list[i].probes[j]>> : j \in DOMAIN list[i].probes} : i \in DOMAIN list}

\* A message packed for the device: its id and the probes it names.
Packed(id, list) == [id |-> id, probes |-> Pairs(list)]
Nothing == Packed("none", NoLibs)

Msg(op, libs, whole, sent) ==
  [op |-> op, probes |-> Pairs(libs), whole |-> whole, sent |-> sent]

Init ==
  /\ lib_inst_list = NoLibs /\ new_lib_inst_list = NoLibs
  /\ apps = 0 /\ maps = NoLibs /\ running = 0 /\ daemon = "up"
  /\ last = Msg("none", NoLibs, TRUE, Nothing)

-----------------------------------------------------------------------------
\* mutant: func_num is what probe_list_append summed up.
ParsedCounted(e) ==
  [lib |-> e.lib, probes |-> Reverse(e.probes), size |-> Len(e.probes),
   func_num |-> (Len(e.probes) * (Len(e.probes) + 1)) \div 2]

\* parse_inst_lib: probe_list_append inserts at the head and counts the whole
\* list each time, but parse_func_inst_list then assigns func_num.
parse_inst_lib(e) ==
  [lib |-> e.lib, probes |-> Reverse(e.probes),
   size |-> Len(e.probes), func_num |-> Len(e.probes)]

\* data_list_append inserts at the head.
data_list_append(to, e) == <<e>> \o to

\* data_list_unlink_data, data_list_rm_data
data_list_unlink_data(list, i) == RemoveAt(list, i)

\* parse_lib_inst_list inserts each library at the head of the list it is given.
parse_lib_inst_list(req, list) ==
  FoldLeft(data_list_append, list, [i \in DOMAIN req |-> parse_inst_lib(req[i])])

\* data_list_find_data: the first element with the path, 0 if there is none.
data_list_find_data(where, lib) == SelectInSeq(where, LAMBDA e : e.lib = lib)

\* find_probe
find_probe(where, p) == \E i \in DOMAIN where.probes : where.probes[i] = p

probe_list_rm_keeps_size(e, p) ==  \* mutant: list->size is not reduced
  [e EXCEPT !.probes = RemoveFirst(@, p), !.func_num = @ - 1]

\* probe_list_rm_element on the first occurrence
probe_list_rm_element(e, p) ==
  [e EXCEPT !.probes = RemoveFirst(@, p), !.size = @ - 1, !.func_num = @ - 1]

\* The walk over the probes of p, one by one: at its start p.probes is empty,
\* Keep goes past a probe, Drop takes the one under the cursor out of p
\* (probe_list_rm_element).
Walk(sch, p) == [sch |-> sch, p |-> [p EXCEPT !.probes = <<>>]]
Keep(p, x) == [p EXCEPT !.probes = Append(@, x)]
Drop(p) == [p EXCEPT !.size = @ - 1, !.func_num = @ - 1]

\* The probes of p that the listed library sch has leave p.
trim(acc, x) ==
  [acc EXCEPT !.p = IF find_probe(acc.sch, x) THEN Drop(@) ELSE Keep(@, x)]
trim_probes(sch, p) == FoldLeft(trim, Walk(sch, p), p.probes).p

(***************************************************************************)
(* resolve_collisions_for_add_msg: a probe the listed library has already  *)
(* goes from new, and so does a listed library that is left without any.   *)
(***************************************************************************)
resolve_add(acc, p) ==
  LET i == data_list_find_data(acc.cur, p.lib)
      left == trim_probes(acc.cur[i], p)
  IN  IF i = 0 THEN [acc EXCEPT !.new = Append(@, p)]
      ELSE IF left.probes = <<>> THEN acc
      ELSE [acc EXCEPT !.new = Append(@, left)]
resolve_collisions_for_add_msg(cur, new) ==
  FoldLeft(resolve_add, [cur |-> cur, new |-> NoLibs], new).new

\* data_list_append_probes_hash adds the size of the first probe only.
data_list_append_probes_hash(to, from) ==
  [to EXCEPT !.probes = from.probes \o @, !.size = @ + 1, !.func_num = @ + from.func_num]

(***************************************************************************)
(* data_list_move_with_hash: libraries that are not in the list go to its  *)
(* head, the probes of the others to theirs.  Merging dereferences the     *)
(* first probe of both lists.                                              *)
(***************************************************************************)
move(acc, p) ==
  LET i == data_list_find_data(acc.list, p.lib)
  IN  IF i = 0 THEN [acc EXCEPT !.list = data_list_append(@, p)]
      ELSE IF p.probes = <<>> \/ acc.list[i].probes = <<>>
      THEN [acc EXCEPT !.ok = FALSE]
      ELSE [acc EXCEPT !.list[i] = data_list_append_probes_hash(@, p)]
data_list_move_with_hash(cur, new) == FoldLeft(move, [list |-> cur, ok |-> TRUE], new)

rm_found(acc, x) ==  \* mutant: probes that were not found stay in p
  [sch |-> IF find_probe(acc.sch, x) THEN probe_list_rm_element(acc.sch, x) ELSE acc.sch,
   p |-> Keep(acc.p, x)]

(***************************************************************************)
(* The probes of p that the listed library sch has leave sch and stay in   *)
(* p; the others leave p.                                                  *)
(***************************************************************************)
rm(acc, x) ==
  IF find_probe(acc.sch, x)
  THEN [sch |-> probe_list_rm_element(acc.sch, x), p |-> Keep(acc.p, x)]
  ELSE [sch |-> acc.sch, p |-> Drop(acc.p)]
rm_probes(sch, p) == FoldLeft(rm, Walk(sch, p), p.probes)

\* mutant: a library that lost its last probe stays.
KeepsEmpty(cur, i, sch) == [cur EXCEPT ![i] = sch]

\* The listed library, removed when it has no probe left.
PutBack(cur, i, sch) ==
  IF sch.probes = <<>> THEN data_list_unlink_data(cur, i) ELSE [cur EXCEPT ![i] = sch]

(***************************************************************************)
(* resolve_collisions_for_rm_msg.  A library named without probes is moved *)
(* from cur to the head of new, and its own element of new is dropped.     *)
(***************************************************************************)
resolve_rm(acc, p) ==
  LET i == data_list_find_data(acc.cur, p.lib)
      left == rm_probes(acc.cur[i], p)
  IN  IF i = 0 THEN acc
      ELSE IF p.probes = <<>>
      THEN [cur |-> data_list_unlink_data(acc.cur, i),
            new |-> data_list_append(acc.new, acc.cur[i])]
      ELSE [cur |-> PutBack(acc.cur, i, left.sch), new |-> Append(acc.new, left.p)]
resolve_collisions_for_rm_msg(cur, new) ==
  FoldLeft(resolve_rm, [cur |-> cur, new |-> NoLibs], new)

MapsCached(list) ==  \* mutant: a message that exists is kept
  maps' = IF maps = NoLibs THEN [i \in DOMAIN list |-> list[i].lib] ELSE maps

\* generate_maps_inst_msg: the path of every listed library.  The paths of the
\* applications are left out.
generate_maps_inst_msg(list) == maps' = [i \in DOMAIN list |-> list[i].lib]

\* generate_msg, only if applications are listed; then ioctl_send_msg.  ADD and
\* REMOVE both pack the id of ADD.
Sent(list) == IF apps > 0 THEN Packed("NMSG_SWAP_INST_ADD", list) ELSE Nothing

reset_first_app == apps' = apps - 1  \* mutant: only the head is released

\* reset_app_inst
reset_app_inst == apps' = 0

Bounded(list, n) ==
  Len(list) <= n /\ \A i \in DOMAIN list : Len(list[i].probes) <= MaxProbes

\* Each merge of several probes makes the size fall behind.
Drift(list) == \A i \in DOMAIN list : Len(list[i].probes) - list[i].size <= MaxDrift

\* A host that does not repeat itself names no library twice in a message, no
\* probe twice in a library, and adds no library that is listed.  The parser
\* checks none of this.
Unrepeated(req) ==
  /\ \A i, j \in DOMAIN req : req[i].lib = req[j].lib => i = j
  /\ \A i \in DOMAIN req : IsInjective(req[i].probes)

Removable(req) == "repeats" \in Host \/ Unrepeated(req)

Addable(req) ==
  \/ "repeats" \in Host
  \/ /\ Unrepeated(req)
     /\ \A i \in DOMAIN req : data_list_find_data(lib_inst_list, req[i].lib) = 0
-----------------------------------------------------------------------------
(***************************************************************************)
(* SWAP_INST_ADD.  The message is parsed into the current list itself, and *)
(* what goes to the device and is moved to the current list afterwards is  *)
(* new_lib_inst_list.                                                      *)
(***************************************************************************)
msg_swap_inst_add(req) ==
  /\ daemon = "up" /\ Addable(req)
  /\ LET cur == parse_lib_inst_list(req, lib_inst_list)
         new == resolve_collisions_for_add_msg(cur, new_lib_inst_list)
         moved == data_list_move_with_hash(cur, new)
     IN  \/ /\ moved.ok /\ Bounded(moved.list, MaxList) /\ Drift(moved.list)
            /\ lib_inst_list' = moved.list
            /\ new_lib_inst_list' = NoLibs
            /\ generate_maps_inst_msg(moved.list)
            /\ last' = Msg("add", req, TRUE, Sent(new))
            /\ UNCHANGED <<apps, running, daemon>>
         \/ /\ ~ moved.ok
            /\ daemon' = "crashed"
            /\ UNCHANGED <<lib_inst_list, new_lib_inst_list, apps, maps, running, last>>

\* The message breaks off after the libraries req.
AddBroken(req) ==
  /\ daemon = "up" /\ "breaks" \in Host /\ Addable(req)
  /\ lib_inst_list' = parse_lib_inst_list(req, lib_inst_list)
  /\ Bounded(lib_inst_list', MaxList)
  /\ last' = Msg("add", NoLibs, FALSE, Nothing)
  /\ UNCHANGED <<new_lib_inst_list, apps, maps, running, daemon>>

(***************************************************************************)
(* SWAP_INST_REMOVE.  The message for the device carries the probes that   *)
(* leave the list, under the id of ADD: NMSG_SWAP_INST_REMOVE is sent to   *)
(* no one.                                                                 *)
(***************************************************************************)
msg_swap_inst_remove(req) ==
  /\ daemon = "up" /\ Removable(req)
  /\ LET new == parse_lib_inst_list(req, new_lib_inst_list)
         res == resolve_collisions_for_rm_msg(lib_inst_list, new)
     IN  /\ lib_inst_list' = res.cur
         /\ new_lib_inst_list' = NoLibs
         /\ generate_maps_inst_msg(res.cur)
         /\ last' = Msg("remove", req, TRUE, Sent(res.new))
  /\ UNCHANGED <<apps, running, daemon>>

\* The message breaks off after the libraries req, which stay in the global.
RemoveBroken(req) ==
  /\ daemon = "up" /\ "breaks" \in Host /\ Removable(req)
  /\ new_lib_inst_list' = parse_lib_inst_list(req, new_lib_inst_list)
  /\ Bounded(new_lib_inst_list', MaxLeft)
  /\ last' = Msg("remove", NoLibs, FALSE, Nothing)
  /\ UNCHANGED <<lib_inst_list, apps, maps, running, daemon>>

(***************************************************************************)
(* START: msg_start lists the applications, packs every listed library for *)
(* the device and makes the maps message.  A message that breaks off       *)
(* leaves the applications parsed; a later failure leaves the maps message *)
(* as well, and one after the ioctl stops the session at once.             *)
(***************************************************************************)
StartBroken ==
  /\ daemon = "up" /\ running = 0
  /\ apps' \in apps .. MaxApps
  /\ last' = Msg("start", NoLibs, FALSE, Nothing)
  /\ UNCHANGED <<lib_inst_list, new_lib_inst_list, maps, running, daemon>>

msg_start ==
  /\ daemon = "up" /\ running = 0
  /\ generate_maps_inst_msg(lib_inst_list)
  /\ \E n \in apps .. MaxApps :
       \/ apps' = n /\ running' = 0 /\ last' = Msg("start", NoLibs, FALSE, Nothing)
       \/ /\ \/ apps' = n /\ running' = 1
             \/ reset_app_inst /\ running' = 0
          /\ last' = Msg("start", NoLibs, TRUE,
                         IF n > 0 THEN Packed("NMSG_START", lib_inst_list) ELSE Nothing)
  /\ UNCHANGED <<lib_inst_list, new_lib_inst_list, daemon>>

\* stop_all: "we reset only app inst no lib no confing reset"
stop_all ==
  /\ daemon = "up" /\ running = 1
  /\ reset_app_inst /\ running' = 0
  /\ last' = Msg("stop", NoLibs, TRUE, Nothing)
  /\ UNCHANGED <<lib_inst_list, new_lib_inst_list, maps, daemon>>

\* msg_swap_free_all_data, when the main loop has returned.
msg_swap_free_all_data ==
  /\ daemon = "up" /\ daemon' = "exited"
  /\ lib_inst_list' = NoLibs /\ new_lib_inst_list' = NoLibs /\ apps' = 0
  /\ UNCHANGED <<maps, running, last>>

Next ==
  \/ \E req \in Requests :
       \/ msg_swap_inst_add(req) \/ AddBroken(req)
       \/ msg_swap_inst_remove(req) \/ RemoveBroken(req)
  \/ StartBroken \/ msg_start \/ stop_all \/ msg_swap_free_all_data

Spec == Init /\ [][Next]_vars
-----------------------------------------------------------------------------
\* The state is well formed.
TypeOK ==
  /\ Bounded(lib_inst_list, MaxList) /\ Bounded(new_lib_inst_list, MaxLeft)
  /\ \A list \in {lib_inst_list, new_lib_inst_list} :
       /\ Pairs(list) \subseteq Libs \X Probes
       /\ \A i \in DOMAIN list : list[i].lib \in Libs /\ list[i].size \in Int
  /\ apps \in 0..MaxApps /\ running \in 0..1
  /\ ToSet(maps) \subseteq Libs
  /\ daemon \in {"up", "crashed", "exited"}

\* func_num, which pack_data_to_array writes in front of the probes, is the
\* number of probes that follow, after any parse, merge and removal.
FuncNumExact ==
  \A list \in {lib_inst_list, new_lib_inst_list} :
    \A i \in DOMAIN list : list[i].func_num = Len(list[i].probes)

\* The maps message is what is left of the list without the libraries that
\* broken ADDs put in front of it since it was generated: it never names a
\* library that is no longer listed, and loses none that an ADD completed.
MapsAreSuffix ==
  daemon = "up" =>
    IsSuffix(maps, [i \in DOMAIN lib_inst_list |-> lib_inst_list[i].lib])

\* The size that pack_data_list_to_array allocates is the size that
\* pack_data_to_array fills ("for message generate", da_inst.h).
SizesAgree ==
  \A list \in {lib_inst_list, new_lib_inst_list} :
    \A i \in DOMAIN list : list[i].size = Len(list[i].probes)

\* REMOVE tells the device to add the probes it takes from the list, neither
\* more nor fewer: the list that resolve_collisions_for_rm_msg leaves is exact,
\* and the id packed in front of it (da_inst.c:796) is the one of ADD.
RemovedAreSentAsAdd ==
  [][daemon' = "up" /\ last'.op = "remove" /\ last'.whole /\ apps > 0 =>
       last'.sent = [id |-> "NMSG_SWAP_INST_ADD",
                     probes |-> Pairs(lib_inst_list) \ Pairs(lib_inst_list')]]_vars

\* ADD tells the device the probes it received that were not listed before
\* ("new - additional probes which were received with MSG_SWAP_INST_ADD msg").
AddedAreSent ==
  [][daemon' = "up" /\ last'.op = "add" /\ last'.whole /\ apps > 0 =>
       last'.sent.probes = last'.probes \ Pairs(lib_inst_list)]_vars

\* The libraries listed and the probes each has in any of its elements.
Installed ==
  [l \in {lib_inst_list[i].lib : i \in DOMAIN lib_inst_list} |->
     {x \in Probes : <<l, x>> \in Pairs(lib_inst_list)}]

Promise == INSTANCE ProbeSet WITH installed <- Installed

\* For a host that does not repeat or break its messages, the list, with its
\* order, counters and leftovers, implements a map from libraries to probes.
ImplementsProbeSet == Promise!Spec
=============================================================================
