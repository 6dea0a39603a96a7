------------------------------- MODULE Transfer -------------------------------
(***************************************************************************)
(* The way of the trace data to the host: the kernel buffer that the       *)
(* device and write_to_buf fill, the transfer thread that splices it       *)
(* through a pipe into the data socket (transfer_thread.c), and            *)
(* start_transfer and stop_transfer, which the main loop calls.            *)
(*                                                                         *)
(* Data is counted in units; a queue is the number of units in it.  The    *)
(* buffer driver is modelled from its use: full sub-buffers can be read,   *)
(* the one being filled only after SWAP_DRIVER_FLUSH_BUFFER; a reader      *)
(* without data sleeps, or gets EAGAIN under O_NONBLOCK; a wake-up makes a *)
(* sleeping reader look again and is forgotten if nobody sleeps.           *)
(***************************************************************************)
EXTENDS Integers, FiniteSets

CONSTANTS
  BufSize,   \* units one splice may move (BUF_SIZE)
  PipeCap,   \* units the pipe holds
  SockCap    \* units the data socket holds for a host that does not read

ASSUME CapAssumption ==
  /\ BufSize \in Nat \ {0} /\ PipeCap \in Nat \ {0} /\ SockCap \in Nat \ {0}

VARIABLES
  partial,          \* units in the sub-buffer being filled
  buf,              \* units in readable sub-buffers
  nonblock,         \* O_NONBLOCK of manager.buf_fd
  transfer_thread,  \* manager.transfer_thread # -1
  tpc,              \* where the transfer thread is
  nrd,              \* what its last splice moved into the pipe
  pipe,             \* units in fd_pipe
  data_socket,      \* manager.host.data_socket: "none" is -1, "stale" a closed fd
  sock,             \* units the host has not read yet
  peer,             \* the host's end of the data connection
  fault,            \* history: the worst that went wrong so far
  main,             \* where the main loop is
  after             \* what stop_transfer returns to

tvars == <<partial, buf, nonblock, transfer_thread, tpc, nrd, pipe,
           data_socket, sock, peer, fault>>

(***************************************************************************)
(* How much has gone wrong.  LOSS: no socket, thread or pipe, a failed     *)
(* flush, read or write.  STUCK: the call failed that makes the thread     *)
(* leave its loop, or a write moved less than was asked and the rest       *)
(* stays in the pipe.                                                      *)
(***************************************************************************)
LOSS == 1
STUCK == 2
Worse(f) == IF fault < f THEN f ELSE fault

\* A thread that may still move data.
LivePCs == {"init", "read", "sleep", "write", "send"}

TransferInit ==
  /\ partial = 0 /\ buf = 0 /\ nonblock = FALSE
  /\ transfer_thread = FALSE /\ tpc = "none" /\ nrd = 0 /\ pipe = 0
  /\ data_socket = "none" /\ sock = 0 /\ peer = "none"
  /\ fault = 0

Smaller(m, n) == IF m < n THEN m ELSE n

-----------------------------------------------------------------------------
\* The transfer thread.

ThreadOwn == UNCHANGED <<partial, nonblock, transfer_thread, data_socket, peer,
                         main, after>>

\* transfer_thread_cleanup: the pipe is closed with what is left in it.
ThreadEnds == tpc' = "done" /\ pipe' = 0 /\ nrd' = 0

PipeOpens ==
  /\ tpc = "init"
  /\ \/ tpc' = "read" /\ UNCHANGED <<pipe, nrd, fault>>
     \/ ThreadEnds /\ fault' = Worse(LOSS)
  /\ UNCHANGED <<buf, sock>> /\ ThreadOwn

\* splice from the buffer; a full pipe blocks it, and nobody else empties it.
SpliceRead ==
  /\ tpc = "read" /\ buf > 0
  /\ \E n \in 1..Smaller(BufSize, Smaller(buf, PipeCap - pipe)) :
       buf' = buf - n /\ pipe' = pipe + n /\ nrd' = n
  /\ tpc' = "write"
  /\ UNCHANGED <<sock, fault>> /\ ThreadOwn

\* splice returns EAGAIN: "No more data to read".
NoMoreData == buf = 0 /\ nonblock

SpliceReadAgain ==
  /\ tpc = "read" /\ NoMoreData
  /\ ThreadEnds
  /\ UNCHANGED <<buf, sock, fault>> /\ ThreadOwn

\* Any other error of the device ends the thread as well.
SpliceReadFails ==
  /\ tpc = "read"
  /\ ThreadEnds
  /\ fault' = Worse(LOSS)
  /\ UNCHANGED <<buf, sock>> /\ ThreadOwn

SpliceReadSleeps ==
  /\ tpc = "read" /\ buf = 0 /\ ~nonblock
  /\ tpc' = "sleep"
  /\ UNCHANGED <<buf, pipe, nrd, sock, fault>> /\ ThreadOwn

\* The driver wakes a reader when a sub-buffer becomes readable.
DataArrives ==
  /\ tpc = "sleep" /\ buf > 0
  /\ tpc' = "read"
  /\ UNCHANGED <<buf, pipe, nrd, sock, fault>> /\ ThreadOwn

\* The descriptor is fetched for the second splice: -1 or a closed one fails.
SpliceWrite ==
  /\ tpc = "write"
  /\ IF data_socket = "open"
       THEN tpc' = "send" /\ UNCHANGED <<pipe, nrd, fault>>
       ELSE ThreadEnds /\ fault' = Worse(LOSS)
  /\ UNCHANGED <<buf, sock>> /\ ThreadOwn

(***************************************************************************)
(* The second splice moves a unit whenever the socket has room for it.  It *)
(* may return early; the rest stays in the pipe and the next round asks    *)
(* only for what it reads itself.                                          *)
(***************************************************************************)
Sends ==
  /\ tpc = "send" /\ peer = "open" /\ sock < SockCap
  /\ pipe' = pipe - 1 /\ sock' = sock + 1
  /\ \/ /\ nrd' = nrd - 1 /\ tpc' = (IF nrd = 1 THEN "read" ELSE "send")
        /\ UNCHANGED fault
     \/ /\ nrd > 1 /\ nrd' = 0 /\ tpc' = "read"
        /\ fault' = Worse(STUCK)
  /\ UNCHANGED buf /\ ThreadOwn

\* SIGPIPE is ignored: this splice, or the next one if this has moved
\* something, fails with EPIPE.
SendFails ==
  /\ tpc = "send" /\ peer # "open"
  /\ ThreadEnds
  /\ fault' = Worse(LOSS)
  /\ UNCHANGED <<buf, sock>> /\ ThreadOwn

ThreadStep ==
  \/ PipeOpens \/ SpliceRead \/ SpliceReadAgain \/ SpliceReadFails
  \/ SpliceReadSleeps \/ DataArrives \/ SpliceWrite \/ Sends \/ SendFails

-----------------------------------------------------------------------------
\* stop_transfer, one step per call, in the main loop.

FlushSkipped ==  \* mutant: flush_buf is not called
  /\ main = "flush" /\ main' = "flag"
  /\ UNCHANGED <<tvars, after>>

flush_buf ==
  /\ main = "flush" /\ main' = "flag"
  /\ \/ buf' = buf + partial /\ partial' = 0 /\ UNCHANGED fault
     \/ fault' = Worse(LOSS) /\ UNCHANGED <<buf, partial>>
  /\ UNCHANGED <<nonblock, transfer_thread, tpc, nrd, pipe, data_socket, sock,
                 peer, after>>

\* "TODO do something on error": a failure is only logged.
SetNonblock ==
  /\ main = "flag" /\ main' = "wake"
  /\ \/ nonblock' = TRUE /\ UNCHANGED fault
     \/ fault' = Worse(STUCK) /\ UNCHANGED nonblock
  /\ UNCHANGED <<partial, buf, transfer_thread, tpc, nrd, pipe, data_socket,
                 sock, peer, after>>

wake_up_forgotten ==  \* mutant: wake_up_buf is not called
  /\ main = "wake" /\ main' = "join"
  /\ UNCHANGED <<tvars, after>>

wake_up_buf ==
  /\ main = "wake" /\ main' = "join"
  /\ \/ tpc' = (IF tpc = "sleep" THEN "read" ELSE tpc) /\ UNCHANGED fault
     \/ fault' = Worse(STUCK) /\ UNCHANGED tpc
  /\ UNCHANGED <<partial, buf, nonblock, transfer_thread, nrd, pipe,
                 data_socket, sock, peer, after>>

JoinedKeepsId ==  \* mutant: manager.transfer_thread is not reset
  /\ main = "join" /\ tpc = "done"
  /\ tpc' = "none" /\ main' = after /\ after' = "loop"
  /\ UNCHANGED <<partial, buf, nonblock, transfer_thread, nrd, pipe,
                 data_socket, sock, peer, fault>>

\* pthread_join and manager.transfer_thread = -1.
Joined ==
  /\ main = "join" /\ tpc = "done"
  /\ tpc' = "none" /\ transfer_thread' = FALSE
  /\ main' = after /\ after' = "loop"
  /\ UNCHANGED <<partial, buf, nonblock, nrd, pipe, data_socket, sock, peer,
                 fault>>

\* Where stop_transfer takes its caller: to the flush, or straight back.
stop_transfer(back) ==
  IF transfer_thread THEN main' = "flush" /\ after' = back
                     ELSE main' = back /\ UNCHANGED after

StaysNonblock ==  \* mutant: O_NONBLOCK of the last stop is not cleared
  /\ UNCHANGED nonblock
  /\ \/ transfer_thread' = TRUE /\ tpc' = "init" /\ UNCHANGED fault
     \/ fault' = Worse(LOSS) /\ UNCHANGED <<transfer_thread, tpc>>

(***************************************************************************)
(* The rest of start_transfer after "already running" is dealt with.       *)
(* pthread_create reports failure by a positive number, which the test for *)
(* a negative one takes for success: no thread, and no error either.       *)
(***************************************************************************)
CreateThread ==
  /\ nonblock' = FALSE
  /\ \/ transfer_thread' = TRUE /\ tpc' = "init" /\ UNCHANGED fault
     \/ fault' = Worse(LOSS) /\ UNCHANGED <<transfer_thread, tpc>>

-----------------------------------------------------------------------------
\* The host's end of the data connection.

HostReads ==
  /\ sock > 0 /\ peer = "open" /\ sock' = 0
  /\ UNCHANGED <<partial, buf, nonblock, transfer_thread, tpc, nrd, pipe,
                 data_socket, peer, fault, main, after>>

HostClosesData ==
  /\ peer = "open" /\ peer' = "closed" /\ sock' = 0
  /\ UNCHANGED <<partial, buf, nonblock, transfer_thread, tpc, nrd, pipe,
                 data_socket, fault, main, after>>

\* host_data_cb with recv = 0: "TODO: finish transfer thread".
host_data_cb ==
  /\ main = "loop" /\ peer = "closed" /\ data_socket = "open"
  /\ data_socket' = "none"
  /\ UNCHANGED <<partial, buf, nonblock, transfer_thread, tpc, nrd, pipe, sock,
                 peer, fault, main, after>>

TransferTypeOK ==
  /\ partial \in Nat /\ buf \in Nat /\ sock \in 0..SockCap
  /\ nonblock \in BOOLEAN /\ transfer_thread \in BOOLEAN
  /\ tpc \in LivePCs \cup {"none", "done"}
  /\ pipe \in 0..PipeCap /\ nrd \in 0..pipe
  /\ nrd > 0 <=> tpc \in {"write", "send"}
  /\ transfer_thread <=> tpc # "none"
  /\ data_socket \in {"none", "open", "stale"}
  /\ peer \in {"none", "open", "closed"}
  /\ fault \in 0..STUCK
=============================================================================
