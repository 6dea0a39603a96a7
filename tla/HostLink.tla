------------------------------- MODULE HostLink -------------------------------
(***************************************************************************)
(* Both connections of the host: the control connection, its framing and   *)
(* its requests (daemon.c, da_protocol.c), and the data connection of      *)
(* Transfer, which START and STOP open and drain.                          *)
(*                                                                         *)
(* A control message is a header of two words, id and length, and length   *)
(* words of payload.  The stream delivers it in pieces.  What START, STOP  *)
(* and the other requests do to the session is the subject of Session and  *)
(* Probes; here a request fails or succeeds by choice and counts for what  *)
(* it does to the transfer, for its reply and for the main loop.           *)
(***************************************************************************)
EXTENDS Transfer, Sequences

CONSTANTS
  Requests,  \* messages of the host: [id |-> ..., len |-> ...]
  MaxLen,    \* longest payload accepted (HOST_CTL_MSG_MAX_LEN)
  LongLen,   \* a length beyond it
  MaxAhead,  \* bound: words that wait when the host sends the next message
  MaxUnits,  \* bound: units on their way to the data socket
  MaxStray   \* bound: messages written outside a session

(***************************************************************************)
(* "OTHER" stands for the requests that leave transfer and main loop as    *)
(* they are: keep alive, configuration, target, process and binary info,   *)
(* adding and removing probes.  "SCREENSHOT" never has a reply, nor a      *)
(* reply id.                                                               *)
(***************************************************************************)
Ids == {"START", "STOP", "OTHER", "SCREENSHOT", "UNKNOWN"}

ASSUME RequestAssumption ==
  /\ MaxLen \in Nat /\ LongLen \in Nat /\ LongLen > MaxLen
  /\ Requests \subseteq [id : Ids, len : 0..LongLen]
  /\ MaxAhead \in Nat /\ MaxUnits \in Nat /\ MaxStray \in Nat

VARIABLES
  order,     \* hostserverorder: connections accepted
  ctl_peer,  \* the host's end of the control connection
  ctl,       \* words that arrived and are not read
  unsent,    \* the rest of the message the host is sending
  head,      \* msg_head
  torn,      \* history: a header was read that had arrived in part
  timer,     \* connect_timeout_timerfd is armed
  running,   \* prof_session.running_status
  stray      \* messages written outside a session

cvars == <<order, ctl_peer, ctl, unsent, head, torn, timer, running, stray>>
vars == <<tvars, main, after, cvars>>

\* The main loop is inside stop_transfer.
Stopping == {"flush", "flag", "wake", "join"}

\* msg_head between two messages.
NoHead == [id |-> "OTHER", len |-> 0]

Init ==
  /\ TransferInit
  /\ main = "loop"
  /\ order = 0 /\ ctl_peer = "none" /\ ctl = <<>> /\ unsent = <<>>
  /\ head = NoHead /\ torn = FALSE /\ timer = TRUE
  /\ running = FALSE /\ stray = 0 /\ after = "loop"

-----------------------------------------------------------------------------
\* The host.

\* Words of which nothing is known: once a header was torn, any may be read
\* as a header.
Blur(s) == [i \in 1..Len(s) |-> <<"payload", NoHead>>]

\* The words of a message: id, length, payload.
Words(m) ==
  LET w == <<<<"id", m>>, <<"len", m>>>>
             \o [i \in 1..m.len |-> <<"payload", m>>]
  IN IF torn THEN Blur(w) ELSE w

\* It sends a message at once or in two pieces.
HostSends(m, n) ==
  /\ ctl_peer = "open" /\ unsent = <<>> /\ Len(ctl) <= MaxAhead
  /\ n \in 1..Len(Words(m))
  /\ ctl' = ctl \o SubSeq(Words(m), 1, n)
  /\ unsent' = SubSeq(Words(m), n + 1, Len(Words(m)))
  /\ UNCHANGED <<tvars, main, after, order, ctl_peer, head, torn, timer,
                 running, stray>>

HostSendsRest ==
  /\ unsent # <<>>
  /\ ctl' = ctl \o unsent /\ unsent' = <<>>
  /\ UNCHANGED <<tvars, main, after, order, ctl_peer, head, torn, timer,
                 running, stray>>

HostClosesControl ==
  /\ ctl_peer = "open" /\ ctl_peer' = "closed" /\ unsent' = <<>>
  /\ UNCHANGED <<tvars, main, after, order, ctl, head, torn, timer, running,
                 stray>>

\* A message goes into the buffer and may complete a sub-buffer, or be
\* flushed as the sampling thread does.
write_to_buf ==
  /\ partial + buf + pipe < MaxUnits
  /\ \/ partial' = partial + 1 /\ UNCHANGED buf
     \/ partial' = 0 /\ buf' = buf + partial + 1
  /\ UNCHANGED <<nonblock, transfer_thread, tpc, nrd, pipe, data_socket, sock,
                 peer, fault, main, after, order, ctl_peer, ctl, unsent, head,
                 torn, timer, running>>

\* Device, targets, sampling and input write while a session runs.
SessionWrites ==
  /\ running /\ main \in {"loop", "body"}
  /\ write_to_buf /\ UNCHANGED stray

(***************************************************************************)
(* So do, outside a session, the receiving threads of targets that connect *)
(* then, and terminate_error when one cannot; stop_all has joined all      *)
(* receiving threads before it stops the transfer.                         *)
(***************************************************************************)
StrayWrites ==
  /\ ~running
  /\ main \in Stopping => after = "start"
  /\ stray < MaxStray /\ stray' = stray + 1
  /\ write_to_buf

-----------------------------------------------------------------------------
\* hostServerHandler: control first, data second, no third connection.  An
\* accept that fails, and a control socket without a handler, change nothing.
hostServerHandler ==
  /\ main = "loop"
  /\ \/ /\ order = 0
        /\ order' = 1 /\ ctl_peer' = "open"
        /\ UNCHANGED <<data_socket, peer>>
     \/ /\ order = 1
        /\ order' = 2 /\ data_socket' = "open" /\ peer' = "open"
        /\ UNCHANGED ctl_peer
     \/ /\ order = 1   \* no handler: the socket is closed, the field stays
        /\ data_socket' = "stale"
        /\ UNCHANGED <<order, peer, ctl_peer>>
  /\ UNCHANGED <<partial, buf, nonblock, transfer_thread, tpc, nrd, pipe, sock,
                 fault, main, ctl, unsent, head, torn, timer, running, stray,
                 after>>

\* connect_timer_cb: an error message, and the main loop quits.
connect_timer_cb ==
  /\ main = "loop" /\ timer
  /\ timer' = FALSE /\ main' = "ended"
  /\ partial' = partial + 1
  /\ UNCHANGED <<buf, nonblock, transfer_thread, tpc, nrd, pipe, data_socket,
                 sock, peer, fault, order, ctl_peer, ctl, unsent, head, torn,
                 running, stray, after>>

(***************************************************************************)
(* controlSocketHandler takes the header without MSG_WAITALL: a header     *)
(* that has arrived in part, and words that are no header, give it an id   *)
(* or a length that is whatever the stack or the payload held.             *)
(***************************************************************************)
HeaderIds == IF ctl[1][1] = "id" THEN {ctl[1][2].id} ELSE Ids
HeaderLens ==
  IF Len(ctl) > 1 /\ ctl[2][1] = "len" THEN {ctl[2][2].len} ELSE 0..LongLen

ReadHeader ==
  /\ main = "loop" /\ ctl # <<>>
  /\ timer' = FALSE
  /\ \E i \in HeaderIds, n \in HeaderLens : head' = [id |-> i, len |-> n]
  /\ ctl' = SubSeq(ctl, 3, Len(ctl))
  /\ IF Len(ctl) = 1 THEN torn' = TRUE /\ unsent' = Blur(unsent)
                     ELSE UNCHANGED <<torn, unsent>>
  /\ main' = "body"
  /\ UNCHANGED <<tvars, order, ctl_peer, running, stray, after>>

BodyOnce(n) ==  \* mutant: one block of the tail of a long message is read
  ctl' = SubSeq(ctl, Smaller(n, MaxLen) + 1, Len(ctl))

(***************************************************************************)
(* The payload, or the tail of a message that is too long, with            *)
(* MSG_WAITALL.  If the host is gone less arrives, and is not noticed.     *)
(***************************************************************************)
Body(n) == ctl' = SubSeq(ctl, n + 1, Len(ctl))

BodyThere == main = "body" /\ (Len(ctl) >= head.len \/ ctl_peer = "closed")
Received(id) ==
  /\ BodyThere /\ head.len <= MaxLen /\ head.id = id
  /\ Body(head.len) /\ head' = NoHead
  /\ UNCHANGED <<order, ctl_peer, unsent, torn, timer, stray>>

\* get_ack_msg_id: exit(EXIT_FAILURE) for an id that has no reply.
HasReply(id) == id \notin {"SCREENSHOT", "UNKNOWN"}

\* sendACKToHost
Acked(id) ==
  main' = IF HasReply(id) THEN "loop" ELSE "exited"

\* Too long, or no memory for it: read to the end and refused.
RefuseMessage ==
  /\ BodyThere /\ Body(head.len) /\ head' = NoHead
  /\ Acked(head.id)
  /\ UNCHANGED <<tvars, after, order, ctl_peer, unsent, torn, timer, running,
                 stray>>

-----------------------------------------------------------------------------
\* host_message_handler

\* Whether a reply is sent or, as by CONFIG when reconfigure fails and by
\* BINARY_INFO when a name is missing, none.
Other ==
  /\ Received("OTHER")
  /\ Acked("OTHER")
  /\ UNCHANGED <<tvars, running, after>>

Screenshot ==
  /\ Received("SCREENSHOT")
  /\ main' = "loop"
  /\ UNCHANGED <<tvars, running, after>>

Unknown ==
  /\ Received("UNKNOWN")
  /\ Acked("UNKNOWN")
  /\ UNCHANGED <<tvars, running, after>>

\* Already running, no configuration, parse error, prepare_profiling failed.
StartRefused ==
  /\ Received("START")
  /\ Acked("START")
  /\ UNCHANGED <<tvars, running, after>>

\* start_transfer: no socket is no error; a thread that still runs is stopped.
StartBegins ==
  /\ Received("START") /\ ~running
  /\ IF data_socket = "none"
       THEN /\ main' = "device" /\ fault' = Worse(LOSS)
            /\ UNCHANGED after
       ELSE stop_transfer("start") /\ UNCHANGED fault
  /\ UNCHANGED <<partial, buf, nonblock, transfer_thread, tpc, nrd, pipe,
                 data_socket, sock, peer, running>>

StartThread ==
  /\ main = "start"
  /\ \/ main' = "device" /\ CreateThread
     \/ /\ main' = "loop"   \* fcntl fails
        /\ UNCHANGED <<nonblock, transfer_thread, tpc, fault>>
  /\ UNCHANGED <<partial, buf, nrd, pipe, data_socket, sock, peer, order,
                 ctl_peer, ctl, unsent, head, torn, timer, running, stray, after>>

\* stop_all_no_lock in a session: the device refuses, or stop_transfer.  What
\* comes before is assumed to return: terminate_all (Targets) and stop_replay
\* (Replay), each under conditions of its own.
StopSession(back) ==
  \/ main' = back /\ running' = TRUE /\ UNCHANGED after
  \/ stop_transfer(back) /\ running' = transfer_thread

\* ioctl_send_msg, running_status_on and start_profiling.
StartDevice ==
  /\ main = "device"
  /\ \/ main' = "loop" /\ UNCHANGED <<running, after>>
     \/ main' = "loop" /\ running' = TRUE /\ UNCHANGED after
     \/ StopSession("loop")
  /\ UNCHANGED <<tvars, order, ctl_peer, ctl, unsent, head, torn, timer, stray>>

\* NMSG_STOP: the reply is sent first.
Stop ==
  /\ Received("STOP")
  /\ IF running THEN StopSession("loop")
                ELSE main' = "loop" /\ UNCHANGED <<running, after>>
  /\ UNCHANGED tvars

\* stop_transfer returns: to start_transfer, to stop_all, to the end of main.
StopTransferReturns ==
  /\ Joined
  /\ running' = FALSE
  /\ UNCHANGED <<order, ctl_peer, ctl, unsent, head, torn, timer, stray>>

StopTransferStep ==
  /\ flush_buf \/ SetNonblock \/ wake_up_buf
  /\ UNCHANGED cvars

(***************************************************************************)
(* The control connection is closed: end of file or an error at a header,  *)
(* an error at a payload.  The data socket is given up, the main loop      *)
(* quits and main() calls stop_all.                                        *)
(***************************************************************************)
host_ctrl_closed ==
  /\ ctl_peer = "closed"
  /\ \/ main = "loop" /\ ctl = <<>>
     \/ main = "body" /\ head.len \in 1..MaxLen /\ Len(ctl) < head.len
  /\ data_socket' = "none"
  /\ IF running THEN StopSession("ended")
                ELSE main' = "ended" /\ UNCHANGED <<running, after>>
  /\ timer' = FALSE /\ ctl' = <<>> /\ head' = NoHead
  /\ UNCHANGED <<partial, buf, nonblock, transfer_thread, tpc, nrd, pipe, sock,
                 peer, fault, order, ctl_peer, unsent, torn, stray>>

-----------------------------------------------------------------------------
Thread == ThreadStep /\ UNCHANGED cvars

MainStep ==
  \/ ReadHeader \/ RefuseMessage
  \/ Other \/ Screenshot \/ Unknown
  \/ StartRefused \/ StartBegins \/ StartThread \/ StartDevice
  \/ Stop \/ StopTransferStep \/ StopTransferReturns
  \/ host_ctrl_closed

DataEnd == (HostReads \/ HostClosesData \/ host_data_cb) /\ UNCHANGED cvars

Next ==
  /\ main \notin {"ended", "exited"}
  /\ \/ MainStep \/ Thread \/ DataEnd
     \/ hostServerHandler \/ connect_timer_cb
     \/ \E m \in Requests, n \in 1..(2 + LongLen) : HostSends(m, n)
     \/ HostSendsRest \/ HostClosesControl
     \/ SessionWrites \/ StrayWrites

Spec == Init /\ [][Next]_vars

(***************************************************************************)
(* The main loop and the transfer thread are scheduled; the host goes on   *)
(* reading its data connection while that is open.                         *)
(***************************************************************************)
FairSpec ==
  /\ Spec
  /\ WF_vars(MainStep) /\ WF_vars(Thread)
  /\ WF_vars(HostReads /\ UNCHANGED cvars)

-----------------------------------------------------------------------------
\* Types, and where the main loop is while the transfer thread is stopped.
TypeOK ==
  /\ TransferTypeOK
  /\ main \in {"loop", "body", "start", "device", "ended", "exited"} \cup Stopping
  /\ order \in 0..2 /\ ctl_peer \in {"none", "open", "closed"}
  /\ Len(ctl) <= MaxAhead + 2 + LongLen /\ Len(unsent) <= 1 + LongLen
  /\ head \in [id : Ids, len : 0..LongLen]
  /\ torn \in BOOLEAN /\ timer \in BOOLEAN /\ running \in BOOLEAN
  /\ stray \in 0..MaxStray
  /\ after \in {"loop", "start", "ended"}
  /\ main \in Stopping => transfer_thread

(***************************************************************************)
(* When a session's stop_transfer returns, everything that was written is  *)
(* in the host's socket, however the thread's last rounds interleaved with *)
(* the flush, the flag and the wake-up: nothing is left for the next       *)
(* session to begin with, unless a call failed or the host was gone        *)
(* (transfer_thread.c 144-171).                                            *)
(***************************************************************************)
StopDrains ==
  [][main = "join" /\ main' \in {"loop", "ended"} /\ fault = 0
       => partial' = 0 /\ buf' = 0 /\ pipe' = 0]_vars

(***************************************************************************)
(* While a session runs that met no fault, its transfer thread lives and   *)
(* waits for data rather than end at the first empty buffer: what the      *)
(* previous stop_transfer did to the descriptor is undone                  *)
(* (transfer_thread.c 126-139, da_protocol.c 963-978).                     *)
(***************************************************************************)
RunningMeansTransferring ==
  running /\ main \in {"loop", "body"} /\ fault = 0
    => transfer_thread /\ tpc \in LivePCs /\ ~nonblock

(***************************************************************************)
(* Unless a header arrived in part, the main loop reads every message from *)
(* its first word: payloads, refused messages and silent errors leave the  *)
(* stream in step (daemon.c 791-830).                                      *)
(***************************************************************************)
InStep ==
  ~torn /\ main = "loop" /\ ctl # <<>> => ctl[1][1] = "id"

(***************************************************************************)
(* If the host closes its control connection the manager ends, wherever    *)
(* stop_transfer and the transfer thread were, provided the calls of       *)
(* stop_transfer worked and no short write has filled the pipe (daemon.c   *)
(* 836-853, transfer_thread.c 144-171).  terminate_all and stop_replay are *)
(* taken to return: see StopAllReturns and StopReplayReturns.              *)
(***************************************************************************)
CloseEnds ==
  ctl_peer = "closed" ~>
    (main \in {"ended", "exited"} \/ fault = STUCK)

=============================================================================
