---------------------------- MODULE HostLinkProofs ----------------------------
(***************************************************************************)
(* Proofs about HostLink and Transfer, for any sizes of messages, pipe,    *)
(* socket and buffer.                                                      *)
(***************************************************************************)
EXTENDS HostLink, SequenceTheorems, TLAPS

Word == {"id", "len", "payload"} \X [id : Ids, len : 0..LongLen]

\* What the host has sent and the manager has not read.
Stream == ctl \o unsent

\* After the first word of a message come its length, and, behind as many
\* words as that says, the first word of the next message.
Framed(s) ==
  \A i \in 1..Len(s) : s[i][1] = "id" =>
    /\ i < Len(s) => s[i + 1] = <<"len", s[i][2]>>
    /\ i + 2 + s[i][2].len <= Len(s) => s[i + 2 + s[i][2].len][1] = "id"

\* The last message is not cut off.
Complete(s) ==
  \A i \in 1..Len(s) : s[i][1] = "id" => i + 1 + s[i][2].len <= Len(s)

\* Words to read before the next header.
Pending == IF main = "body" THEN head.len ELSE 0

\* The next header is where the manager will look for it.
Aligned(s, n) == n < Len(s) => s[n + 1][1] = "id"

\* The words of the control connection, their number, and who may send.
WordInv ==
  /\ ctl \in Seq(Word) /\ unsent \in Seq(Word)
  /\ Len(ctl) + Len(unsent) <= MaxAhead + 2 + LongLen
  /\ Len(unsent) <= 1 + LongLen
  /\ ctl_peer # "open" => unsent = <<>>
  /\ ctl_peer = "none" => ctl = <<>>
  /\ order = 0 => ctl_peer = "none"

StreamInv ==
  ~torn =>
    /\ Framed(Stream) /\ Aligned(Stream, Pending)
    /\ ctl_peer = "open" => Complete(Stream) /\ Pending <= Len(Stream)

\* The main loop, the session and the transfer thread.
ThreadInv ==
  /\ main = "start" => ~transfer_thread /\ ~running
  /\ transfer_thread /\ nonblock => main \in {"wake", "join"}
  /\ fault < STUCK => pipe = nrd
  /\ tpc \in {"none", "done"} => pipe = 0

\* The transfer thread serves a session, or one that is about to begin.
LiveInv ==
  fault = 0 /\ (main = "device" \/ (running /\ main \in {"loop", "body"}))
    => transfer_thread /\ tpc \in LivePCs /\ ~nonblock

\* What the steps of a session's stop_transfer have achieved so far.
DrainInv ==
  fault = 0 =>
    /\ main \in {"flag", "wake", "join"} /\ after # "start" => partial = 0
    /\ tpc = "done" => nonblock /\ (after # "start" => buf = 0)

\* What the transfer thread, the session and the stop keep together.
CoreInv == ThreadInv /\ LiveInv /\ DrainInv

IInv == TypeOK /\ WordInv /\ StreamInv /\ CoreInv

-----------------------------------------------------------------------------
\* The data connection.

\* A step of the transfer thread.
LEMMA ThreadKeeps ==
  ASSUME TypeOK, CoreInv, Thread
  PROVE  TypeOK' /\ CoreInv'
<1> USE CapAssumption
    DEF TypeOK, TransferTypeOK, CoreInv, ThreadInv, LiveInv, DrainInv, Stopping,
        LivePCs, ThreadOwn, ThreadEnds, Worse, LOSS, STUCK, cvars
<1>1. CASE PipeOpens
  BY <1>1 DEF PipeOpens, Thread
<1>2. CASE SpliceRead
  BY <1>2 DEF SpliceRead, Thread, Smaller
<1>3. CASE SpliceReadAgain
  BY <1>3 DEF SpliceReadAgain, NoMoreData, Thread
<1>4. CASE SpliceReadFails
  BY <1>4 DEF SpliceReadFails, Thread
<1>5. CASE SpliceReadSleeps
  BY <1>5 DEF SpliceReadSleeps, Thread
<1>6. CASE DataArrives
  BY <1>6 DEF DataArrives, Thread
<1>7. CASE SpliceWrite
  BY <1>7 DEF SpliceWrite, Thread
<1>8. CASE Sends
  BY <1>8 DEF Sends, Thread
<1>9. CASE SendFails
  BY <1>9 DEF SendFails, Thread
<1> QED
  BY <1>1, <1>2, <1>3, <1>4, <1>5, <1>6, <1>7, <1>8, <1>9
     DEF Thread, ThreadStep

\* Steps of the host on the data connection, and the writers of the buffer.
LEMMA DataKeeps ==
  ASSUME TypeOK, CoreInv,
         DataEnd \/ SessionWrites \/ StrayWrites
  PROVE  TypeOK' /\ CoreInv'
<1> USE CapAssumption, RequestAssumption
    DEF TypeOK, TransferTypeOK, CoreInv, ThreadInv, LiveInv, DrainInv, Stopping,
        LivePCs, STUCK, cvars
<1>1. CASE HostReads /\ UNCHANGED cvars
  BY <1>1 DEF HostReads
<1>2. CASE HostClosesData /\ UNCHANGED cvars
  BY <1>2 DEF HostClosesData
<1>3. CASE host_data_cb /\ UNCHANGED cvars
  BY <1>3 DEF host_data_cb
<1>4. CASE SessionWrites
  BY <1>4 DEF SessionWrites, write_to_buf
<1>5. CASE StrayWrites
  BY <1>5 DEF StrayWrites, write_to_buf
<1> QED
  BY <1>1, <1>2, <1>3, <1>4, <1>5 DEF DataEnd

\* stop_transfer and start_transfer, step by step.
LEMMA TransferCallsKeep ==
  ASSUME TypeOK, CoreInv,
         StopTransferStep \/ StopTransferReturns \/ StartThread \/ StartDevice
  PROVE  TypeOK' /\ CoreInv'
<1> USE CapAssumption, RequestAssumption
    DEF TypeOK, TransferTypeOK, CoreInv, ThreadInv, LiveInv, DrainInv, Stopping,
        LivePCs, Worse, LOSS, STUCK, cvars
<1>1. CASE flush_buf /\ UNCHANGED cvars
  BY <1>1 DEF flush_buf
<1>2. CASE SetNonblock /\ UNCHANGED cvars
  <2>1. CASE nonblock' = TRUE /\ UNCHANGED fault
    BY <1>2, <2>1 DEF SetNonblock
  <2>2. CASE fault' = Worse(STUCK) /\ UNCHANGED nonblock
    BY <1>2, <2>2 DEF SetNonblock
  <2> QED
    BY <1>2, <2>1, <2>2 DEF SetNonblock
<1>3. CASE wake_up_buf /\ UNCHANGED cvars
  BY <1>3 DEF wake_up_buf
<1>4. CASE StopTransferReturns
  <2>1. /\ tpc' = "none" /\ main' = after /\ after' = "loop" /\ nrd = 0
        /\ UNCHANGED <<partial, buf, nonblock, nrd, pipe, data_socket, sock, peer,
                       fault, order, ctl_peer, ctl, unsent, head, torn, timer,
                       stray>>
    BY <1>4 DEF StopTransferReturns, Joined
  <2>2. transfer_thread' = FALSE /\ running' = FALSE
    BY <1>4 DEF StopTransferReturns, Joined
  <2>3. /\ transfer_thread' \in BOOLEAN /\ running' \in BOOLEAN
        /\ ~transfer_thread' /\ ~running'
    BY <2>2
  <2>4. pipe = 0
    BY <1>4 DEF StopTransferReturns, Joined
  <2>5. TypeOK'
    BY <2>1, <2>3
  <2>6. CoreInv'
    BY <2>1, <2>3, <2>4
  <2> QED
    BY <2>5, <2>6
<1>5. CASE StartThread
  <2>1. nonblock' \in BOOLEAN /\ transfer_thread' \in BOOLEAN
    BY <1>5 DEF StartThread, CreateThread
  <2>2. TypeOK'
    BY <1>5, <2>1 DEF StartThread, CreateThread
  <2>3. ThreadInv'
    BY <1>5, <2>1 DEF StartThread, CreateThread
  <2>4. LiveInv'
    BY <1>5, <2>1 DEF StartThread, CreateThread
  <2>5. DrainInv'
    BY <1>5, <2>1 DEF StartThread, CreateThread
  <2> QED
    BY <2>2, <2>3, <2>4, <2>5
<1>6. CASE StartDevice
  <2>1. running' \in BOOLEAN
    BY <1>6 DEF StartDevice, StopSession, stop_transfer, tvars
  <2>2. TypeOK'
    BY <1>6, <2>1 DEF StartDevice, StopSession, stop_transfer, tvars
  <2>3. ThreadInv'
    BY <1>6, <2>1 DEF StartDevice, StopSession, stop_transfer, tvars
  <2>4. LiveInv'
    BY <1>6, <2>1 DEF StartDevice, StopSession, stop_transfer, tvars
  <2>5. DrainInv'
    BY <1>6, <2>1 DEF StartDevice, StopSession, stop_transfer, tvars
  <2> QED
    BY <2>2, <2>3, <2>4, <2>5
<1> QED
  BY <1>1, <1>2, <1>3, <1>4, <1>5, <1>6 DEF StopTransferStep

\* A word carries the message it belongs to.
LEMMA WordFields ==
  ASSUME NEW x \in Word
  PROVE  x[2].len \in 0..LongLen /\ x[2].len \in Nat /\ x[2].id \in Ids
BY RequestAssumption DEF Word

\* The requests of the host and the end of its control connection.
LEMMA RequestsKeep ==
  ASSUME TypeOK, CoreInv, WordInv, WordInv',
         \/ ReadHeader \/ RefuseMessage \/ Other \/ Screenshot \/ Unknown
         \/ StartRefused \/ StartBegins \/ Stop \/ host_ctrl_closed
  PROVE  TypeOK' /\ CoreInv'
<1> USE CapAssumption, RequestAssumption
    DEF TypeOK, TransferTypeOK, CoreInv, ThreadInv, LiveInv, DrainInv, Stopping,
        LivePCs, Worse, LOSS, STUCK, tvars, Acked, HasReply, NoHead, Ids,
        Received, BodyThere
<1>0. Len(ctl') <= MaxAhead + 2 + LongLen /\ Len(unsent') <= 1 + LongLen
  BY LenProperties DEF WordInv
<1>1. CASE ReadHeader
  <2>1. HeaderLens \subseteq 0..LongLen /\ HeaderIds \subseteq Ids
    <3>1. \A i \in 1..Len(ctl) : ctl[i] \in Word
      BY ElementOfSeq DEF WordInv
    <3>2. Len(ctl) \in Nat \ {0}
      BY <1>1, EmptySeq DEF WordInv, ReadHeader
    <3>3. HeaderIds \subseteq Ids
      BY <3>1, <3>2, WordFields DEF HeaderIds
    <3>4. HeaderLens \subseteq 0..LongLen
      BY <3>1, <3>2, WordFields DEF HeaderLens
    <3> QED
      BY <3>3, <3>4
  <2>2. head' \in [id : Ids, len : 0..LongLen]
    BY <1>1, <2>1 DEF ReadHeader
  <2>3. torn' \in BOOLEAN /\ timer' \in BOOLEAN
    BY <1>1 DEF ReadHeader
  <2>4. TypeOK'
    BY <1>0, <1>1, <2>2, <2>3 DEF ReadHeader
  <2>5. CoreInv'
    BY <1>1 DEF ReadHeader
  <2> QED
    BY <2>4, <2>5
<1>2. CASE RefuseMessage
  BY <1>0, <1>2 DEF RefuseMessage
<1>3. CASE Other \/ Screenshot \/ Unknown \/ StartRefused
  <2>1. /\ main = "body" /\ main' \in {"loop", "exited"}
        /\ head' \in [id : Ids, len : 0..LongLen]
        /\ UNCHANGED <<tvars, running, after, order, ctl_peer, unsent, torn,
                       timer, stray>>
    BY <1>3 DEF Other, Screenshot, Unknown, StartRefused
  <2>2. TypeOK'
    BY <1>0, <2>1
  <2>3. CoreInv'
    BY <2>1
  <2> QED
    BY <2>2, <2>3
<1>4. CASE StartBegins
  BY <1>0, <1>4 DEF StartBegins, stop_transfer
<1>5. CASE Stop
  <2>1. running' = running \/ running' = TRUE \/ running' = transfer_thread
    BY <1>5 DEF Stop, StopSession, stop_transfer
  <2>2. running' \in BOOLEAN
    BY <2>1
  <2>3. head' \in [id : Ids, len : 0..LongLen]
    BY <1>5 DEF Stop
  <2>4. TypeOK'
    BY <1>0, <1>5, <2>2, <2>3 DEF Stop, StopSession, stop_transfer
  <2>5. CoreInv'
    BY <1>5, <2>2 DEF Stop, StopSession, stop_transfer
  <2> QED
    BY <2>4, <2>5
<1>6. CASE host_ctrl_closed
  <2>1. running' = running \/ running' = TRUE \/ running' = transfer_thread
    BY <1>6 DEF host_ctrl_closed, StopSession, stop_transfer
  <2>2. running' \in BOOLEAN
    BY <2>1
  <2>3. timer' = FALSE /\ head' = NoHead
    BY <1>6 DEF host_ctrl_closed
  <2>4. timer' \in BOOLEAN
    BY <2>3
  <2>5. head' \in [id : Ids, len : 0..LongLen]
    BY <2>3
  <2>6. TypeOK'
    BY <1>0, <1>6, <2>2, <2>4, <2>5
       DEF host_ctrl_closed, StopSession, stop_transfer
  <2>7. CoreInv'
    BY <1>6, <2>2 DEF host_ctrl_closed, StopSession, stop_transfer
  <2> QED
    BY <2>6, <2>7
<1> QED
  BY <1>1, <1>2, <1>3, <1>4, <1>5, <1>6

\* The words the host sends.
LEMMA WordsKeep ==
  ASSUME TypeOK, CoreInv, WordInv',
         UNCHANGED <<tvars, main, after, order, head, torn, timer, running, stray>>,
         ctl_peer' \in {ctl_peer, "closed"}
  PROVE  TypeOK' /\ CoreInv'
<1> USE DEF TypeOK, TransferTypeOK, CoreInv, ThreadInv, LiveInv, DrainInv, tvars
<1>1. Len(ctl') <= MaxAhead + 2 + LongLen /\ Len(unsent') <= 1 + LongLen
  BY RequestAssumption, LenProperties DEF WordInv
<1>2. TypeOK'
  BY <1>1
<1>3. CoreInv'
  OBVIOUS
<1> QED
  BY <1>2, <1>3

\* New connections and the timer that waits for them.
LEMMA ConnectionsKeep ==
  ASSUME TypeOK, CoreInv, hostServerHandler \/ connect_timer_cb
  PROVE  TypeOK' /\ CoreInv'
<1> USE DEF TypeOK, TransferTypeOK, CoreInv, ThreadInv, LiveInv, DrainInv,
            Stopping, tvars
<1>1. CASE hostServerHandler
  BY <1>1 DEF hostServerHandler
<1>2. CASE connect_timer_cb
  <2>1. timer' \in BOOLEAN
    BY <1>2 DEF connect_timer_cb
  <2>2. TypeOK'
    BY <1>2, <2>1 DEF connect_timer_cb
  <2>3. CoreInv'
    BY <1>2, <2>1 DEF connect_timer_cb
  <2> QED
    BY <2>2, <2>3
<1> QED
  BY <1>1, <1>2

-----------------------------------------------------------------------------
\* The control connection: what the operators on sequences of words do.

\* The rest of a sequence after its first n elements, few or many.
LEMMA SuffixSeq ==
  ASSUME NEW S, NEW s \in Seq(S), NEW n \in Nat
  PROVE  /\ SubSeq(s, n + 1, Len(s)) \in Seq(S)
         /\ n <= Len(s) => Len(SubSeq(s, n + 1, Len(s))) = Len(s) - n
         /\ n >= Len(s) => SubSeq(s, n + 1, Len(s)) = <<>>
         /\ Len(SubSeq(s, n + 1, Len(s))) <= Len(s)
         /\ \A i \in 1..(Len(s) - n) : SubSeq(s, n + 1, Len(s))[i] = s[n + i]
<1>1. Len(s) \in Nat /\ \A i \in (n + 1)..Len(s) : s[i] \in S
  BY LenProperties, ElementOfSeq
<1>2. /\ SubSeq(s, n + 1, Len(s)) \in Seq(S)
      /\ Len(SubSeq(s, n + 1, Len(s)))
           = IF n + 1 <= Len(s) THEN Len(s) - (n + 1) + 1 ELSE 0
      /\ \A i \in 1..(Len(s) - (n + 1) + 1) :
            SubSeq(s, n + 1, Len(s))[i] = s[(n + 1) + i - 1]
  BY <1>1, SubSeqProperties
<1>3. n >= Len(s) => SubSeq(s, n + 1, Len(s)) = <<>>
  BY <1>1, SubSeqEmpty
<1>4. \A i \in 1..(Len(s) - n) : SubSeq(s, n + 1, Len(s))[i] = s[n + i]
  BY <1>1, <1>2
<1> QED
  BY <1>1, <1>2, <1>3, <1>4

\* Reading n words of a stream whose first part has arrived.
LEMMA SuffixOfConcat ==
  ASSUME NEW S, NEW s \in Seq(S), NEW t \in Seq(S), NEW n \in 0..Len(s)
  PROVE  SubSeq(s, n + 1, Len(s)) \o t
           = SubSeq(s \o t, n + 1, Len(s \o t))
<1> DEFINE a == SubSeq(s, n + 1, Len(s))
           st == s \o t
           b == SubSeq(st, n + 1, Len(st))
<1>1. Len(s) \in Nat /\ Len(t) \in Nat /\ n \in Nat /\ n <= Len(s)
  BY LenProperties
<1>2. /\ a \in Seq(S) /\ Len(a) = Len(s) - n
      /\ \A i \in 1..(Len(s) - n) : a[i] = s[n + i]
  BY <1>1, SuffixSeq, Zenon
<1>3. /\ st \in Seq(S) /\ Len(st) = Len(s) + Len(t)
      /\ \A i \in 1..(Len(s) + Len(t)) :
           st[i] = IF i <= Len(s) THEN s[i] ELSE t[i - Len(s)]
  BY ConcatProperties
<1>4. /\ b \in Seq(S) /\ Len(b) = Len(st) - n
      /\ \A i \in 1..(Len(st) - n) : b[i] = st[n + i]
  <2> HIDE DEF st
  <2>1. \A q \in Seq(S) : n <= Len(q) =>
          /\ SubSeq(q, n + 1, Len(q)) \in Seq(S)
          /\ Len(SubSeq(q, n + 1, Len(q))) = Len(q) - n
          /\ \A i \in 1..(Len(q) - n) : SubSeq(q, n + 1, Len(q))[i] = q[n + i]
    BY <1>1, SuffixSeq
  <2>2. n <= Len(st)
    BY <1>1, <1>3
  <2> QED
    BY <1>3, <2>1, <2>2, Zenon
<1>5. /\ a \o t \in Seq(S) /\ Len(a \o t) = Len(a) + Len(t)
      /\ \A i \in 1..(Len(a) + Len(t)) :
           (a \o t)[i] = IF i <= Len(a) THEN a[i] ELSE t[i - Len(a)]
  <2> HIDE DEF a
  <2> QED
    BY <1>2, ConcatProperties
<1> HIDE DEF a, b, st
<1>6. Len(a \o t) = Len(b)
  BY <1>1, <1>2, <1>3, <1>4, <1>5
<1>7. ASSUME NEW i \in 1..Len(b) PROVE (a \o t)[i] = b[i]
  <2>1. i \in 1..(Len(st) - n) /\ n + i \in 1..(Len(s) + Len(t))
    BY <1>1, <1>3, <1>4
  <2>2. b[i] = IF n + i <= Len(s) THEN s[n + i] ELSE t[n + i - Len(s)]
    BY <2>1, <1>3, <1>4
  <2>3. i \in 1..(Len(a) + Len(t))
    BY <2>1, <1>1, <1>2, <1>3
  <2>4. CASE n + i <= Len(s)
    BY <1>1, <1>2, <1>5, <2>1, <2>2, <2>3, <2>4
  <2>5. CASE n + i > Len(s)
    <3>1. (a \o t)[i] = t[i - Len(a)] /\ i - Len(a) = n + i - Len(s)
      BY <1>1, <1>2, <1>5, <2>1, <2>3, <2>5
    <3> QED
      BY <1>1, <2>1, <2>2, <2>5, <3>1
  <2>6. n + i <= Len(s) \/ n + i > Len(s)
    BY <1>1, <2>1
  <2> QED
    BY <2>4, <2>5, <2>6, Zenon
<1>8. a \o t = b
  BY <1>4, <1>5, <1>6, <1>7, SeqEqual
<1> QED
  BY <1>8 DEF a, b, st

\* Blur keeps the number of words.
LEMMA BlurShape ==
  ASSUME NEW s \in Seq(Word)
  PROVE  Blur(s) \in Seq(Word) /\ Len(Blur(s)) = Len(s)
<1>1. Len(s) \in Nat
  BY LenProperties
<1>2. <<"payload", NoHead>> \in Word
  BY RequestAssumption DEF Word, NoHead, Ids
<1>3. Blur(s) \in [1..Len(s) -> Word]
  BY <1>2 DEF Blur
<1> QED
  BY <1>1, <1>3

\* A message has its header and its payload.
LEMMA WordsShape ==
  ASSUME NEW m \in Requests
  PROVE  /\ Words(m) \in Seq(Word) /\ Len(Words(m)) = 2 + m.len
         /\ m.len \in 0..LongLen
         /\ ~torn => /\ Words(m)[1] = <<"id", m>>
                     /\ Words(m)[2] = <<"len", m>>
                     /\ \A i \in 3..(2 + m.len) : Words(m)[i] = <<"payload", m>>
<1> DEFINE h == <<<<"id", m>>, <<"len", m>>>>
           b == [i \in 1..m.len |-> <<"payload", m>>]
           w == h \o b
<1>1. m.len \in 0..LongLen /\ m.len \in Nat
      /\ \A k \in {"id", "len", "payload"} : <<k, m>> \in Word
  BY RequestAssumption DEF Word
<1>2. h \in Seq(Word) /\ Len(h) = 2
  BY <1>1
<1>3. b \in [1..m.len -> Word]
  BY <1>1
<1>4. b \in Seq(Word) /\ Len(b) = m.len
  <2> HIDE DEF b
  <2> QED
    BY <1>1, <1>3
<1>5. /\ w \in Seq(Word) /\ Len(w) = 2 + m.len
      /\ \A i \in 1..(2 + m.len) : w[i] = IF i <= 2 THEN h[i] ELSE b[i - 2]
  <2> HIDE DEF h, b
  <2>1. /\ w \in Seq(Word) /\ Len(w) = Len(h) + Len(b)
        /\ \A i \in 1..(Len(h) + Len(b)) :
             w[i] = IF i <= Len(h) THEN h[i] ELSE b[i - Len(h)]
    BY <1>2, <1>4, ConcatProperties, Zenon
  <2> HIDE DEF w
  <2> QED
    BY <1>1, <1>2, <1>4, <2>1
<1>6. w[1] = <<"id", m>> /\ w[2] = <<"len", m>>
  BY <1>1, <1>5
<1>7. \A i \in 3..(2 + m.len) : w[i] = <<"payload", m>>
  <2> TAKE i \in 3..(2 + m.len)
  <2>1. w[i] = b[i - 2] /\ i - 2 \in 1..m.len
    BY <1>1, <1>5
  <2> QED
    BY <2>1
<1>8. Words(m) = IF torn THEN Blur(w) ELSE w
  BY DEF Words
<1> HIDE DEF w
<1>9. Words(m) \in Seq(Word) /\ Len(Words(m)) = 2 + m.len
  BY <1>5, <1>8, BlurShape
<1> QED
  BY <1>1, <1>6, <1>7, <1>8, <1>9

-----------------------------------------------------------------------------
\* The words of the control connection, and who may send them.

LEMMA WordStep ==
  ASSUME TypeOK, WordInv, Next
  PROVE  WordInv'
<1> USE RequestAssumption DEF WordInv
<1>0. Len(ctl) \in Nat /\ Len(unsent) \in Nat
  BY LenProperties
<1>1. ASSUME NEW k \in Nat, ctl' = SubSeq(ctl, k + 1, Len(ctl)),
             UNCHANGED <<unsent, ctl_peer, order>>
      PROVE  WordInv'
  <2>1. /\ ctl' \in Seq(Word) /\ Len(ctl') <= Len(ctl)
        /\ k >= Len(ctl) => ctl' = <<>>
    <3>1. ctl \in Seq(Word)
      OBVIOUS
    <3>2. ctl' = SubSeq(ctl, k + 1, Len(ctl))
      BY <1>1
    <3> HIDE DEF WordInv
    <3>3. SubSeq(ctl, k + 1, Len(ctl)) \in Seq(Word)
      BY <3>1, SuffixSeq, Zenon
    <3>4. Len(SubSeq(ctl, k + 1, Len(ctl))) <= Len(ctl)
      BY <3>1, SuffixSeq, Zenon
    <3>5. k >= Len(ctl) => SubSeq(ctl, k + 1, Len(ctl)) = <<>>
      BY <3>1, SuffixSeq, Zenon
    <3> QED
      BY <3>2, <3>3, <3>4, <3>5, Zenon
  <2>2. Len(ctl') \in Nat /\ (ctl = <<>> => k >= Len(ctl))
    BY <2>1, LenProperties, EmptySeq
  <2> QED
    BY <1>0, <1>1, <2>1, <2>2
<1>2. CASE ReadHeader
  <2>0. ctl # <<>> /\ ctl' = SubSeq(ctl, 2 + 1, Len(ctl)) /\ 2 \in Nat
    BY <1>2 DEF ReadHeader
  <2>1. ctl' \in Seq(Word) /\ Len(ctl') <= Len(ctl)
    BY <2>0, SuffixSeq, Zenon
  <2>2. /\ unsent' \in Seq(Word) /\ Len(unsent') = Len(unsent)
        /\ unsent = <<>> => unsent' = <<>>
    <3>1. Blur(unsent) \in Seq(Word) /\ Len(Blur(unsent)) = Len(unsent)
      BY BlurShape
    <3>2. unsent = <<>> => Blur(unsent) = <<>>
      BY <3>1, EmptySeq
    <3> QED
      BY <1>2, <3>1, <3>2 DEF ReadHeader
  <2>3. Len(ctl') \in Nat
    BY <2>1, LenProperties
  <2> QED
    BY <1>0, <1>2, <2>0, <2>1, <2>2, <2>3 DEF ReadHeader
<1>3. CASE \/ RefuseMessage \/ Other \/ Screenshot \/ Unknown \/ StartRefused
           \/ StartBegins \/ Stop
  <2>1. /\ head.len \in Nat /\ ctl' = SubSeq(ctl, head.len + 1, Len(ctl))
        /\ UNCHANGED <<unsent, ctl_peer, order>>
    BY <1>3 DEF RefuseMessage, Other, Screenshot, Unknown, StartRefused,
                StartBegins, Stop, Received, Body, TypeOK
  <2> QED
    BY <1>1, <2>1
<1>4. CASE host_ctrl_closed
  BY <1>0, <1>4, EmptySeq DEF host_ctrl_closed
<1>5. CASE hostServerHandler
  BY <1>0, <1>5 DEF hostServerHandler
<1>6. ASSUME NEW m \in Requests, NEW n \in Nat, HostSends(m, n)
      PROVE  WordInv'
  <2> DEFINE w == Words(m)
  <2>1. /\ w \in Seq(Word) /\ Len(w) = 2 + m.len /\ m.len \in 0..LongLen
        /\ n \in 1..Len(w)
    BY <1>6, WordsShape DEF HostSends
  <2>2. ctl' = ctl \o SubSeq(w, 1, n) /\ unsent' = SubSeq(w, n + 1, Len(w))
    BY <1>6 DEF HostSends
  <2> HIDE DEF w
  <2>3. SubSeq(w, 1, n) \in Seq(Word) /\ Len(SubSeq(w, 1, n)) = n
    BY <2>1, SubSeqProperties, ElementOfSeq
  <2>4. unsent' \in Seq(Word) /\ Len(unsent') = Len(w) - n
    <3>1. n <= Len(w)
      BY <2>1
    <3> QED
      BY <2>1, <2>2, <3>1, SuffixSeq, Zenon
  <2>5. ctl' \in Seq(Word) /\ Len(ctl') = Len(ctl) + n
    BY <2>2, <2>3, ConcatProperties
  <2>6. /\ ctl_peer = "open" /\ ctl_peer' = "open" /\ order' = order
        /\ Len(ctl) <= MaxAhead
    BY <1>6 DEF HostSends
  <2>7. Len(ctl') + Len(unsent') <= MaxAhead + 2 + LongLen
        /\ Len(unsent') <= 1 + LongLen
    <3>1. \A c, l, u, v, x \in Int :
             /\ c <= MaxAhead /\ l \in 0..LongLen /\ x = 2 + l /\ n \in 1..x
             /\ u = c + n /\ v = x - n
             => u + v <= MaxAhead + 2 + LongLen /\ v <= 1 + LongLen
      OBVIOUS
    <3>2. Len(ctl') \in Int /\ Len(unsent') \in Int /\ Len(w) \in Int
          /\ m.len \in Int /\ Len(ctl) \in Int
      BY <1>0, <2>1, <2>4, <2>5
    <3> QED
      BY <1>0, <2>1, <2>4, <2>5, <2>6, <3>1, <3>2, Zenon
  <2> QED
    BY <2>4, <2>5, <2>6, <2>7
<1>7. CASE HostSendsRest
  <2>1. ctl' \in Seq(Word) /\ Len(ctl') = Len(ctl) + Len(unsent)
    BY <1>7, ConcatProperties DEF HostSendsRest
  <2> QED
    BY <1>0, <1>7, <2>1, EmptySeq DEF HostSendsRest
<1>8. CASE HostClosesControl
  BY <1>0, <1>8, EmptySeq DEF HostClosesControl
<1>9. CASE UNCHANGED <<ctl, unsent, ctl_peer, order>>
  BY <1>9
<1>10. \/ ReadHeader
       \/ \/ RefuseMessage \/ Other \/ Screenshot \/ Unknown \/ StartRefused
          \/ StartBegins \/ Stop
       \/ host_ctrl_closed \/ hostServerHandler
       \/ \E m \in Requests, n \in 1..(2 + LongLen) : HostSends(m, n)
       \/ HostSendsRest \/ HostClosesControl
       \/ UNCHANGED <<ctl, unsent, ctl_peer, order>>
  BY DEF Next, MainStep, Thread, DataEnd, cvars, StartThread, StartDevice,
         StopTransferStep, StopTransferReturns, connect_timer_cb,
         SessionWrites, StrayWrites, write_to_buf
<1> QED
  BY <1>2, <1>3, <1>4, <1>5, <1>6, <1>7, <1>8, <1>9, <1>10

-----------------------------------------------------------------------------
\* Framing.

\* What is left after some words is framed as it was before.
LEMMA SuffixFramed ==
  ASSUME NEW s \in Seq(Word), NEW t \in Seq(Word), NEW k \in Nat,
         Len(s) \in Nat, k <= Len(s), Len(t) = Len(s) - k,
         \A i \in 1..Len(t) : t[i] = s[k + i]
  PROVE  /\ Framed(s) => Framed(t)
         /\ Complete(s) => Complete(t)
         /\ \A p \in Nat : Aligned(s, k + p) => Aligned(t, p)
<1>0. \A i \in 1..Len(s) : s[i] \in Word
  BY ElementOfSeq
<1>1. ASSUME NEW i \in 1..Len(t), t[i][1] = "id"
      PROVE  /\ k + i \in 1..Len(s) /\ s[k + i] = t[i]
             /\ t[i][2].len \in Nat
  <2>1. k + i \in 1..Len(s) /\ s[k + i] = t[i]
    OBVIOUS
  <2> QED
    BY <1>0, <2>1, WordFields
<1>2. ASSUME Framed(s) PROVE Framed(t)
  <2> SUFFICES ASSUME NEW i \in 1..Len(t), t[i][1] = "id"
               PROVE  /\ i < Len(t) => t[i + 1] = <<"len", t[i][2]>>
                      /\ i + 2 + t[i][2].len <= Len(t)
                           => t[i + 2 + t[i][2].len][1] = "id"
    BY DEF Framed
  <2> DEFINE l == t[i][2].len
  <2>1. /\ k + i \in 1..Len(s) /\ s[k + i] = t[i] /\ l \in Nat
    BY <1>1
  <2>2. /\ k + i < Len(s) => s[k + i + 1] = <<"len", t[i][2]>>
        /\ k + i + 2 + l <= Len(s) => s[k + i + 2 + l][1] = "id"
    BY <1>2, <2>1 DEF Framed
  <2> HIDE DEF l
  <2>3. ASSUME i < Len(t) PROVE t[i + 1] = <<"len", t[i][2]>>
    <3>1. i + 1 \in 1..Len(t) /\ k + (i + 1) = k + i + 1 /\ k + i < Len(s)
      BY <2>3
    <3> QED
      BY <2>2, <3>1
  <2>4. ASSUME i + 2 + l <= Len(t) PROVE t[i + 2 + l][1] = "id"
    <3>1. i + 2 + l \in 1..Len(t) /\ k + (i + 2 + l) = k + i + 2 + l
          /\ k + i + 2 + l <= Len(s)
      BY <2>1, <2>4
    <3>2. t[i + 2 + l] = s[k + i + 2 + l]
      BY <3>1
    <3> QED
      BY <2>2, <3>1, <3>2
  <2> QED
    BY <2>3, <2>4 DEF l
<1>3. ASSUME Complete(s) PROVE Complete(t)
  <2> SUFFICES ASSUME NEW i \in 1..Len(t), t[i][1] = "id"
               PROVE  i + 1 + t[i][2].len <= Len(t)
    BY DEF Complete
  <2> DEFINE l == t[i][2].len
  <2>1. k + i \in 1..Len(s) /\ s[k + i] = t[i] /\ l \in Nat
    BY <1>1
  <2>2. k + i + 1 + l <= Len(s)
    BY <1>3, <2>1 DEF Complete
  <2> HIDE DEF l
  <2>3. i + 1 + l <= Len(t)
    BY <2>1, <2>2
  <2> QED
    BY <2>3 DEF l
<1>4. ASSUME NEW p \in Nat, Aligned(s, k + p) PROVE Aligned(t, p)
  <2>1. ASSUME p < Len(t) PROVE t[p + 1][1] = "id"
    <3>1. p + 1 \in 1..Len(t) /\ k + (p + 1) = k + p + 1 /\ k + p < Len(s)
      BY <2>1
    <3> QED
      BY <1>4, <3>1 DEF Aligned
  <2> QED
    BY <2>1 DEF Aligned
<1> QED
  BY <1>2, <1>3, <1>4

\* A whole message behind a stream of whole messages.
LEMMA AppendFramed ==
  ASSUME NEW s \in Seq(Word), NEW u \in Seq(Word), NEW m \in Requests,
         m.len \in Nat, Len(s) \in Nat, Len(u) = Len(s) + 2 + m.len,
         \A i \in 1..Len(s) : u[i] = s[i],
         u[Len(s) + 1] = <<"id", m>>, u[Len(s) + 2] = <<"len", m>>,
         \A i \in (Len(s) + 3)..Len(u) : u[i] = <<"payload", m>>,
         Framed(s), Complete(s)
  PROVE  /\ Framed(u) /\ Complete(u)
         /\ \A p \in 0..Len(s) : Aligned(s, p) => Aligned(u, p)
<1>0. \A i \in 1..Len(s) : s[i] \in Word
  BY ElementOfSeq
<1>1. ASSUME NEW i \in 1..Len(u), u[i][1] = "id"
      PROVE  \/ i <= Len(s) /\ u[i] = s[i] /\ s[i][2].len \in Nat
             \/ i = Len(s) + 1 /\ u[i][2] = m
  <2>1. i \in 1..Len(s) \/ i = Len(s) + 1 \/ i = Len(s) + 2
        \/ i \in (Len(s) + 3)..Len(u)
    OBVIOUS
  <2>2. CASE i \in 1..Len(s)
    <3>1. s[i][2].len \in Nat
      BY <1>0, <2>2, WordFields
    <3>2. i <= Len(s) /\ u[i] = s[i]
      BY <2>2
    <3> QED
      BY <3>1, <3>2, Zenon
  <2>3. CASE i = Len(s) + 1
    BY <2>3
  <2>4. CASE i = Len(s) + 2
    BY <1>1, <2>4
  <2>5. CASE i \in (Len(s) + 3)..Len(u)
    BY <1>1, <2>5
  <2> QED
    BY <2>1, <2>2, <2>3, <2>4, <2>5
<1>2. ASSUME NEW i \in 1..Len(u), u[i][1] = "id"
      PROVE  /\ i < Len(u) => u[i + 1] = <<"len", u[i][2]>>
             /\ i + 2 + u[i][2].len <= Len(u)
                  => u[i + 2 + u[i][2].len][1] = "id"
             /\ i + 1 + u[i][2].len <= Len(u)
  <2>1. CASE i <= Len(s) /\ u[i] = s[i] /\ s[i][2].len \in Nat
    <3> DEFINE l == s[i][2].len
    <3>1. l \in Nat /\ i \in 1..Len(s) /\ i + 1 + l <= Len(s)
      BY <1>2, <2>1 DEF Complete
    <3>2. /\ i < Len(s) => s[i + 1] = <<"len", s[i][2]>>
          /\ i + 2 + l <= Len(s) => s[i + 2 + l][1] = "id"
      BY <1>2, <2>1 DEF Framed
    <3> HIDE DEF l
    <3>3. u[i + 1] = <<"len", s[i][2]>>
      <4>1. i < Len(s) /\ i + 1 \in 1..Len(s)
        BY <3>1
      <4> QED
        BY <3>2, <4>1
    <3>4. i + 2 + l \in 1..Len(s) => u[i + 2 + l][1] = "id"
      BY <3>1, <3>2
    <3>5. i + 2 + l = Len(s) + 1 => u[i + 2 + l][1] = "id"
      OBVIOUS
    <3>6. i + 2 + l <= Len(u) => u[i + 2 + l][1] = "id"
      <4>1. \A a, b, c \in Nat : a >= 1 /\ a + 1 + b <= c =>
               a + 2 + b \in 1..c \/ a + 2 + b = c + 1
        OBVIOUS
      <4>2. i \in Nat /\ i >= 1
        BY <3>1
      <4>3. i + 2 + l \in 1..Len(s) \/ i + 2 + l = Len(s) + 1
        BY <3>1, <4>1, <4>2, Zenon
      <4> QED
        BY <3>4, <3>5, <4>3
    <3>7. u[i][2].len = l
      BY <2>1 DEF l
    <3> QED
      BY <2>1, <3>1, <3>3, <3>6, <3>7
  <2>2. CASE i = Len(s) + 1 /\ u[i][2] = m
    BY <2>2
  <2> QED
    BY <1>1, <1>2, <2>1, <2>2
<1>3. ASSUME NEW p \in 0..Len(s), Aligned(s, p) PROVE Aligned(u, p)
  <2>1. CASE p < Len(s)
    <3>1. p + 1 \in 1..Len(s) /\ s[p + 1][1] = "id"
      BY <1>3, <2>1 DEF Aligned
    <3> QED
      BY <3>1 DEF Aligned
  <2>2. CASE p = Len(s)
    BY <2>2 DEF Aligned
  <2> QED
    BY <2>1, <2>2
<1> QED
  BY <1>2, <1>3 DEF Framed, Complete

\* What is left of a stream that is cut off.
LEMMA PrefixFramed ==
  ASSUME NEW s \in Seq(Word), NEW t \in Seq(Word), NEW p \in Nat,
         Len(s) \in Nat, Len(t) \in Nat, Len(t) <= Len(s),
         \A i \in 1..Len(t) : t[i] = s[i], Framed(s), Aligned(s, p)
  PROVE  Framed(t) /\ Aligned(t, p)
<1>1. ASSUME NEW i \in 1..Len(t), t[i][1] = "id"
      PROVE  /\ i < Len(t) => t[i + 1] = <<"len", t[i][2]>>
             /\ i + 2 + t[i][2].len <= Len(t)
                  => t[i + 2 + t[i][2].len][1] = "id"
  <2> DEFINE l == t[i][2].len
  <2>1. l \in Nat
    BY ElementOfSeq, RequestAssumption DEF Word
  <2>2. /\ i < Len(s) => s[i + 1] = <<"len", t[i][2]>>
        /\ i + 2 + l <= Len(s) => s[i + 2 + l][1] = "id"
    BY <1>1 DEF Framed
  <2> HIDE DEF l
  <2>3. i < Len(t) => t[i + 1] = <<"len", t[i][2]>>
    BY <2>2
  <2>4. i + 2 + l <= Len(t) => t[i + 2 + l][1] = "id"
    BY <2>1, <2>2
  <2> QED
    BY <2>3, <2>4 DEF l
<1>2. Aligned(t, p)
  BY DEF Aligned
<1> QED
  BY <1>1, <1>2 DEF Framed

\* The same, with the message given by itself.
LEMMA MessageBehind ==
  ASSUME NEW s \in Seq(Word), NEW w \in Seq(Word), NEW m \in Requests,
         m.len \in Nat, Len(w) = 2 + m.len,
         w[1] = <<"id", m>>, w[2] = <<"len", m>>,
         \A i \in 3..(2 + m.len) : w[i] = <<"payload", m>>,
         Framed(s), Complete(s), NEW p \in 0..Len(s), Aligned(s, p)
  PROVE  /\ Framed(s \o w) /\ Complete(s \o w) /\ Aligned(s \o w, p)
         /\ p <= Len(s \o w)
<1> DEFINE u == s \o w
<1>1. Len(s) \in Nat
  BY LenProperties
<1>2. /\ u \in Seq(Word) /\ Len(u) = Len(s) + Len(w)
      /\ \A i \in 1..(Len(s) + Len(w)) :
           u[i] = IF i <= Len(s) THEN s[i] ELSE w[i - Len(s)]
  BY ConcatProperties, Zenon
<1> HIDE DEF u
<1>3. Len(u) = Len(s) + 2 + m.len
  BY <1>1, <1>2
<1>4. \A i \in 1..Len(s) : u[i] = s[i]
  <2> TAKE i \in 1..Len(s)
  <2>1. i \in 1..(Len(s) + Len(w)) /\ i <= Len(s)
    BY <1>1
  <2> QED
    BY <1>2, <2>1
<1>5. \A i \in 1..(2 + m.len) : u[Len(s) + i] = w[i]
  <2> TAKE i \in 1..(2 + m.len)
  <2>1. /\ Len(s) + i \in 1..(Len(s) + Len(w)) /\ ~(Len(s) + i <= Len(s))
        /\ Len(s) + i - Len(s) = i
    BY <1>1
  <2> QED
    BY <1>2, <2>1
<1>6. u[Len(s) + 1] = <<"id", m>> /\ u[Len(s) + 2] = <<"len", m>>
  <2>1. 1 \in 1..(2 + m.len) /\ 2 \in 1..(2 + m.len)
    OBVIOUS
  <2> QED
    BY <1>5, <2>1, Zenon
<1>7. \A i \in (Len(s) + 3)..Len(u) : u[i] = <<"payload", m>>
  <2> TAKE i \in (Len(s) + 3)..Len(u)
  <2>1. /\ i - Len(s) \in 3..(2 + m.len) /\ i - Len(s) \in 1..(2 + m.len)
        /\ Len(s) + (i - Len(s)) = i
    BY <1>1, <1>3
  <2>2. u[i] = w[i - Len(s)]
    BY <1>5, <2>1
  <2> QED
    BY <2>1, <2>2
<1>8. Framed(u) /\ Complete(u) /\ Aligned(u, p)
  BY <1>1, <1>2, <1>3, <1>4, <1>6, <1>7, AppendFramed
<1>9. p <= Len(u)
  BY <1>1, <1>3
<1> QED
  BY <1>8, <1>9 DEF u

\* What is appended in two parts is appended.
LEMMA Regroup ==
  ASSUME NEW S, NEW x \in Seq(S), NEW y \in Seq(S), NEW z \in Seq(S), NEW w,
         w = y \o z
  PROVE  (x \o y) \o z = x \o w
<1>1. (x \o y) \o z = x \o (y \o z)
  BY ConcatAssociative
<1> QED
  BY <1>1

\* A message sent in two pieces.
LEMMA TwoPieces ==
  ASSUME NEW S, NEW s \in Seq(S), NEW w \in Seq(S), NEW n \in 1..Len(w)
  PROVE  (s \o SubSeq(w, 1, n)) \o SubSeq(w, n + 1, Len(w)) = s \o w
<1>1. Len(w) \in Nat
  BY LenProperties
<1>2. SubSeq(w, 1, n) \in Seq(S)
  <2>1. \A i \in 1..n : w[i] \in S
    BY <1>1, ElementOfSeq
  <2> QED
    BY <1>1, <2>1, SubSeqProperties
<1>3. SubSeq(w, n + 1, Len(w)) \in Seq(S)
  <2>1. n \in Nat
    BY <1>1
  <2> QED
    BY <2>1, SuffixSeq, Zenon
<1>4. SubSeq(w, 1, n) \o SubSeq(w, n + 1, Len(w)) = SubSeq(w, 1, Len(w))
  <2>1. 1 \in 1..(Len(w) + 1) /\ n \in (1 - 1)..Len(w) /\ Len(w) \in n..Len(w)
    BY <1>1
  <2> QED
    BY <2>1, ConcatAdjacentSubSeq, Zenon
<1>5. SubSeq(w, 1, Len(w)) = w
  BY SubSeqFull, Zenon
<1> DEFINE a == SubSeq(w, 1, n)
           b == SubSeq(w, n + 1, Len(w))
<1>6. a \in Seq(S) /\ b \in Seq(S) /\ w = a \o b
  BY <1>2, <1>3, <1>4, <1>5, Zenon
<1> HIDE DEF a, b
<1>7. (s \o a) \o b = s \o w
  BY <1>6, Regroup
<1> QED
  BY <1>7 DEF a, b

\* The first message of a stream, and where the next one begins.
LEMMA FirstMessage ==
  ASSUME NEW s \in Seq(Word), Len(s) \in Nat, Len(s) >= 2,
         Framed(s), Aligned(s, 0)
  PROVE  \E m \in [id : Ids, len : 0..LongLen] :
            /\ s[1] = <<"id", m>> /\ s[2] = <<"len", m>> /\ m.len \in Nat
            /\ Aligned(s, 2 + m.len)
            /\ Complete(s) => 2 + m.len <= Len(s)
<1>1. s[1][1] = "id" /\ s[1] \in Word
  BY ElementOfSeq DEF Aligned
<1>2. PICK m \in [id : Ids, len : 0..LongLen] : s[1] = <<"id", m>>
  BY <1>1 DEF Word
<1>3. m.len \in Nat
  BY RequestAssumption
<1>4. /\ s[1 + 1] = <<"len", s[1][2]>>
      /\ 1 + 2 + s[1][2].len <= Len(s) => s[1 + 2 + s[1][2].len][1] = "id"
  <2>1. 1 \in 1..Len(s) /\ 1 < Len(s)
    OBVIOUS
  <2> QED
    BY <1>1, <2>1, Zenon DEF Framed
<1>5. s[2] = <<"len", m>>
  BY <1>2, <1>4
<1>6. 3 + m.len <= Len(s) => s[3 + m.len][1] = "id"
  BY <1>2, <1>3, <1>4
<1>7. Aligned(s, 2 + m.len)
  BY <1>3, <1>6 DEF Aligned
<1>8. Complete(s) => 2 + m.len <= Len(s)
  <2>1. 1 \in 1..Len(s)
    OBVIOUS
  <2>2. Complete(s) => 1 + 1 + s[1][2].len <= Len(s)
    BY <1>1, <2>1, Zenon DEF Complete
  <2> QED
    BY <1>2, <1>3, <2>2
<1> QED
  BY <1>2, <1>3, <1>5, <1>7, <1>8

\* A step that reads k words, and the manager's next header is p words on.
LEMMA ReadKeepsStream ==
  ASSUME WordInv, WordInv', StreamInv, NEW k \in Nat, NEW p \in Nat,
         ~torn, k <= Len(Stream), Stream' = SubSeq(Stream, k + 1, Len(Stream)),
         Aligned(Stream, k + p), Pending' = p,
         ctl_peer' = ctl_peer,
         ctl_peer = "open" => k + p <= Len(Stream)
  PROVE  StreamInv'
<1> DEFINE s == Stream
           t == Stream'
<1>1. s \in Seq(Word) /\ t \in Seq(Word)
  BY ConcatProperties DEF WordInv, Stream
<1> HIDE DEF s, t
<1>2. Len(s) \in Nat
  BY <1>1, LenProperties
<1>3. t = SubSeq(s, k + 1, Len(s)) /\ k <= Len(s)
  BY DEF s, t
<1>4. Len(t) = Len(s) - k
  BY <1>1, <1>3, SuffixSeq, Zenon
<1>5. \A i \in 1..(Len(s) - k) : t[i] = s[k + i]
  BY <1>1, <1>3, SuffixSeq, Zenon
<1>6. Framed(s) /\ Aligned(s, k + p)
      /\ (ctl_peer = "open" => Complete(s) /\ k + p <= Len(s))
  BY DEF StreamInv, s
<1>7. /\ Framed(t) /\ Aligned(t, p)
      /\ ctl_peer = "open" => Complete(t)
  BY <1>1, <1>2, <1>3, <1>4, <1>5, <1>6, SuffixFramed
<1>8. ctl_peer = "open" => p <= Len(t)
  BY <1>2, <1>4, <1>6
<1> QED
  BY <1>7, <1>8 DEF StreamInv, t

\* The stream stays in step with the main loop.
LEMMA StreamStep ==
  ASSUME TypeOK, WordInv, WordInv', StreamInv, Next
  PROVE  StreamInv'
<1>0. /\ ctl \in Seq(Word) /\ unsent \in Seq(Word)
      /\ Len(ctl) \in Nat /\ Len(unsent) \in Nat
      /\ Stream \in Seq(Word) /\ Len(Stream) = Len(ctl) + Len(unsent)
      /\ \A i \in 1..Len(ctl) : Stream[i] = ctl[i]
  <2>1. ctl \in Seq(Word) /\ unsent \in Seq(Word)
    BY DEF WordInv
  <2>2. Len(ctl) \in Nat /\ Len(unsent) \in Nat
    BY <2>1, LenProperties
  <2>3. /\ ctl \o unsent \in Seq(Word)
        /\ Len(ctl \o unsent) = Len(ctl) + Len(unsent)
        /\ \A i \in 1..(Len(ctl) + Len(unsent)) :
             (ctl \o unsent)[i] = IF i <= Len(ctl) THEN ctl[i] ELSE unsent[i - Len(ctl)]
    BY <2>1, ConcatProperties, Zenon
  <2>4. \A i \in 1..Len(ctl) : (ctl \o unsent)[i] = ctl[i]
    BY <2>2, <2>3
  <2> QED
    BY <2>1, <2>2, <2>3, <2>4 DEF Stream
<1>1. CASE UNCHANGED <<ctl, unsent, torn, ctl_peer>> /\ Pending' = Pending
  BY <1>1 DEF StreamInv, Stream
<1>2. CASE torn'
  BY <1>2 DEF StreamInv
\* The payload is read, or what there is of it.
<1>3. ASSUME ~torn, BodyThere, Body(head.len), main' # "body",
             UNCHANGED <<unsent, ctl_peer>>
      PROVE  StreamInv'
  <2>1. head.len \in Nat /\ Pending = head.len /\ Pending' = 0
    BY <1>3 DEF BodyThere, Pending, TypeOK
  <2>2. CASE head.len <= Len(ctl)
    <3>1. Stream' = SubSeq(Stream, head.len + 1, Len(Stream))
      <4>1. head.len \in 0..Len(ctl)
        BY <1>0, <2>1, <2>2
      <4> QED
        BY <1>0, <1>3, <4>1, SuffixOfConcat, Zenon DEF Stream, Body
    <3>2. head.len <= Len(Stream) /\ head.len + 0 = head.len
      BY <1>0, <2>1, <2>2
    <3>3. Aligned(Stream, head.len + 0)
      BY <1>3, <2>1, <3>2 DEF StreamInv
    <3> QED
      BY <1>3, <2>1, <3>1, <3>2, <3>3, ReadKeepsStream
  <2>3. CASE head.len > Len(ctl)
    <3>1. ctl_peer # "open" /\ unsent' = <<>>
      BY <1>0, <1>3, <2>1, <2>3 DEF BodyThere, WordInv
    <3>2. ctl' = <<>>
      <4>1. head.len >= Len(ctl)
        BY <1>0, <2>1, <2>3
      <4> QED
        BY <1>0, <1>3, <2>1, <4>1, SuffixSeq, Zenon DEF Body
    <3>3. Len(Stream') = 0
      BY <3>1, <3>2, EmptySeq, ConcatProperties DEF Stream
    <3> QED
      BY <1>3, <2>1, <3>1, <3>3 DEF StreamInv, Framed, Aligned
  <2> QED
    BY <1>0, <2>1, <2>2, <2>3
<1>4. ASSUME ~torn', ReadHeader PROVE StreamInv'
  <2>1. /\ ~torn /\ Len(ctl) >= 2 /\ UNCHANGED <<unsent, ctl_peer>>
        /\ main = "loop" /\ main' = "body"
        /\ ctl' = SubSeq(ctl, 3, Len(ctl))
    <3>1. Len(ctl) # 0 /\ Len(ctl) # 1
      BY <1>0, <1>4, EmptySeq DEF ReadHeader
    <3>2. UNCHANGED <<torn, unsent>>
      BY <1>4, <3>1 DEF ReadHeader
    <3>3. ~torn
      BY <1>4, <3>2
    <3>4. Len(ctl) >= 2
      <4>1. \A k \in Nat : k # 0 /\ k # 1 => k >= 2
        OBVIOUS
      <4> QED
        BY <1>0, <3>1, <4>1, Zenon
    <3> QED
      BY <1>4, <3>2, <3>3, <3>4 DEF ReadHeader
  <2>2. Stream[1] = ctl[1] /\ Stream[2] = ctl[2] /\ Len(Stream) >= 2
        /\ Len(Stream) \in Nat
    BY <1>0, <2>1
  <2>3. /\ Framed(Stream) /\ Aligned(Stream, 0)
        /\ ctl_peer = "open" => Complete(Stream)
    BY <2>1 DEF StreamInv, Pending
  <2>4. PICK m \in [id : Ids, len : 0..LongLen] :
            /\ Stream[1] = <<"id", m>> /\ Stream[2] = <<"len", m>>
            /\ m.len \in Nat /\ Aligned(Stream, 2 + m.len)
            /\ Complete(Stream) => 2 + m.len <= Len(Stream)
    BY <1>0, <2>2, <2>3, FirstMessage
  <2>5. head'.len = m.len /\ Pending' = m.len
    BY <1>4, <2>1, <2>2, <2>4 DEF ReadHeader, HeaderLens, Pending
  <2>6. Stream' = SubSeq(Stream, 2 + 1, Len(Stream))
    <3>1. 2 \in 0..Len(ctl) /\ ctl' = SubSeq(ctl, 2 + 1, Len(ctl))
      BY <1>0, <2>1
    <3>2. unsent' = unsent
      BY <2>1
    <3> QED
      BY <1>0, <3>1, <3>2, SuffixOfConcat, Zenon DEF Stream
  <2> QED
    BY <2>1, <2>2, <2>3, <2>4, <2>5, <2>6, ReadKeepsStream
<1>5. CASE host_ctrl_closed
  <2>1. ctl' = <<>> /\ unsent' = <<>> /\ ctl_peer' # "open" /\ main' # "body"
    BY <1>5 DEF host_ctrl_closed, WordInv, StopSession, stop_transfer
  <2>2. Len(Stream') = 0
    BY <2>1, EmptySeq, ConcatProperties DEF Stream
  <2>3. Pending' = 0
    BY <2>1 DEF Pending
  <2> QED
    BY <2>1, <2>2, <2>3 DEF StreamInv, Framed, Aligned
<1>6. CASE hostServerHandler
  <2>1. CASE ctl_peer' = ctl_peer
    BY <1>1, <1>6, <2>1 DEF hostServerHandler, Pending
  <2>2. CASE ctl_peer' # ctl_peer
    <3>1. /\ ctl = <<>> /\ unsent = <<>> /\ main' = "loop"
          /\ UNCHANGED <<ctl, unsent>>
      BY <1>6, <2>2 DEF hostServerHandler, WordInv
    <3>2. Len(Stream') = 0
      BY <3>1, EmptySeq, ConcatProperties DEF Stream
    <3>3. Pending' = 0
      BY <3>1 DEF Pending
    <3> QED
      BY <3>2, <3>3 DEF StreamInv, Framed, Aligned, Complete
  <2> QED
    BY <2>1, <2>2
<1>7. ASSUME NEW m \in Requests, NEW n \in Nat, HostSends(m, n), ~torn
      PROVE  StreamInv'
  <2> DEFINE w == Words(m)
  <2>1. /\ w \in Seq(Word) /\ Len(w) = 2 + m.len /\ m.len \in Nat
        /\ n \in 1..Len(w) /\ w[1] = <<"id", m>> /\ w[2] = <<"len", m>>
        /\ \A i \in 3..(2 + m.len) : w[i] = <<"payload", m>>
    BY <1>7, WordsShape DEF HostSends
  <2>2. /\ ctl' = ctl \o SubSeq(w, 1, n)
        /\ unsent' = SubSeq(w, n + 1, Len(w)) /\ unsent = <<>>
        /\ ctl_peer = "open" /\ UNCHANGED <<ctl_peer, torn>>
        /\ Pending' = Pending
    BY <1>7 DEF HostSends, Pending
  <2> HIDE DEF w
  <2>3. Stream = ctl
    BY <1>0, <2>2, ConcatEmptySeq DEF Stream
  <2>4. Stream' = ctl \o w
    BY <1>0, <2>1, <2>2, TwoPieces, Zenon DEF Stream
  <2>5. /\ Framed(ctl) /\ Complete(ctl) /\ Aligned(ctl, Pending)
        /\ Pending \in 0..Len(ctl)
    <3>1. Pending \in Nat
      BY DEF Pending, TypeOK
    <3> QED
      BY <1>0, <1>7, <2>2, <2>3, <3>1 DEF StreamInv
  <2>6. /\ Framed(ctl \o w) /\ Complete(ctl \o w) /\ Aligned(ctl \o w, Pending)
        /\ Pending <= Len(ctl \o w)
    BY <1>0, <2>1, <2>5, MessageBehind
  <2> QED
    BY <2>2, <2>4, <2>6 DEF StreamInv
<1>8. CASE HostSendsRest
  <2>1. ctl' = ctl \o unsent /\ unsent' = <<>> /\ ctl' \in Seq(Word)
    BY <1>8 DEF HostSendsRest, WordInv
  <2>2. ctl' \o <<>> = ctl'
    BY <2>1, ConcatEmptySeq, Zenon
  <2>3. Stream' = Stream
    BY <2>1, <2>2 DEF Stream
  <2>4. Pending' = Pending /\ UNCHANGED <<torn, ctl_peer>>
    BY <1>8 DEF HostSendsRest, Pending
  <2> QED
    BY <2>3, <2>4 DEF StreamInv
<1>9. CASE \/ RefuseMessage \/ Other \/ Screenshot \/ Unknown \/ StartRefused
           \/ StartBegins \/ Stop
  <2>1. /\ BodyThere /\ Body(head.len) /\ main' # "body"
        /\ UNCHANGED <<torn, unsent, ctl_peer>>
    BY <1>9 DEF RefuseMessage, Other, Screenshot, Unknown, StartRefused,
                StartBegins, Stop, Received, Acked, stop_transfer, StopSession
  <2>2. CASE ~torn
    BY <1>3, <2>1, <2>2
  <2>3. CASE torn
    BY <1>2, <2>1, <2>3
  <2> QED
    BY <2>2, <2>3
<1>10. ASSUME NEW m \in Requests, NEW n \in Nat, HostSends(m, n)
       PROVE  StreamInv'
  <2>1. torn' = torn
    BY <1>10 DEF HostSends
  <2> QED
    BY <1>2, <1>7, <1>10, <2>1
<1>11. CASE HostClosesControl
  <2>1. /\ ctl' = ctl /\ unsent' = <<>> /\ torn' = torn /\ ctl_peer' = "closed"
        /\ Pending' = Pending
    BY <1>11 DEF HostClosesControl, Pending
  <2>2. CASE torn
    BY <1>2, <2>1, <2>2
  <2>3. CASE ~torn
    <3>1. Framed(Stream) /\ Aligned(Stream, Pending) /\ Pending \in Nat
      BY <2>3 DEF StreamInv, Pending, TypeOK
    <3>2. Stream' = ctl
      BY <1>0, <2>1, ConcatEmptySeq DEF Stream
    <3>3. \A i \in 1..Len(ctl) : i \in 1..Len(Stream) /\ ctl[i] = Stream[i]
      BY <1>0
    <3>4. Len(ctl) <= Len(Stream) /\ Len(Stream) \in Nat
      BY <1>0
    <3>5. Framed(ctl) /\ Aligned(ctl, Pending)
      BY <1>0, <3>1, <3>3, <3>4, PrefixFramed
    <3> QED
      BY <2>1, <3>2, <3>5 DEF StreamInv
  <2> QED
    BY <2>2, <2>3
<1>12. CASE \/ Thread \/ DataEnd \/ StartThread \/ StartDevice
            \/ StopTransferStep \/ StopTransferReturns \/ connect_timer_cb
            \/ SessionWrites \/ StrayWrites
  <2>1. UNCHANGED <<ctl, unsent, torn, ctl_peer, head>>
    BY <1>12 DEF Thread, DataEnd, cvars, StartThread, StartDevice,
                 StopTransferStep, StopTransferReturns, connect_timer_cb,
                 SessionWrites, StrayWrites, write_to_buf
  <2>2. main' = main \/ (main # "body" /\ main' # "body")
    <3>1. CASE Thread
      BY <3>1 DEF Thread, ThreadStep, ThreadOwn, PipeOpens, SpliceRead,
                  SpliceReadAgain, SpliceReadFails, SpliceReadSleeps,
                  DataArrives, SpliceWrite, Sends, SendFails
    <3>2. CASE DataEnd \/ SessionWrites \/ StrayWrites \/ connect_timer_cb
      BY <3>2 DEF DataEnd, HostReads, HostClosesData, host_data_cb,
                  SessionWrites, StrayWrites, write_to_buf, connect_timer_cb
    <3>3. CASE StartThread \/ StartDevice
      BY <3>3 DEF StartThread, StartDevice, StopSession, stop_transfer
    <3>4. CASE StopTransferStep \/ StopTransferReturns
      BY <3>4 DEF StopTransferStep, StopTransferReturns, flush_buf,
                  SetNonblock, wake_up_buf, Joined, TypeOK
    <3> QED
      BY <1>12, <3>1, <3>2, <3>3, <3>4
  <2>3. Pending' = Pending
    BY <2>1, <2>2 DEF Pending
  <2> QED
    BY <1>1, <2>1, <2>3
<1>13. CASE ReadHeader
  BY <1>2, <1>4, <1>13
<1> QED
  BY <1>5, <1>6, <1>8, <1>9, <1>10, <1>11, <1>12, <1>13 DEF Next, MainStep

-----------------------------------------------------------------------------
\* The theorems.

LEMMA InitKeeps == Init => IInv
<1> SUFFICES ASSUME Init PROVE IInv
  OBVIOUS
<1> USE CapAssumption, RequestAssumption DEF Init, TransferInit
<1>1. TypeOK
  <2>1. TransferTypeOK
    <3>1. nonblock \in BOOLEAN /\ transfer_thread \in BOOLEAN /\ ~transfer_thread
      OBVIOUS
    <3> QED
      BY <3>1 DEF TransferTypeOK, LivePCs, STUCK
  <2>2. head \in [id : Ids, len : 0..LongLen]
    BY DEF NoHead, Ids
  <2>3. Len(ctl) = 0 /\ Len(unsent) = 0
    BY EmptySeq
  <2>4. torn \in BOOLEAN /\ timer \in BOOLEAN /\ running \in BOOLEAN
    OBVIOUS
  <2>5. main \notin Stopping
    BY DEF Stopping
  <2> QED
    BY <2>1, <2>2, <2>3, <2>4, <2>5 DEF TypeOK
<1>2. WordInv
  BY EmptySeq DEF WordInv
<1>3. StreamInv
  <2>1. Len(Stream) = 0
    BY EmptySeq, ConcatProperties DEF Stream
  <2>2. Pending = 0
    BY DEF Pending
  <2> QED
    BY <2>1, <2>2 DEF StreamInv, Framed, Aligned
<1>4. ThreadInv /\ LiveInv /\ DrainInv
  BY DEF ThreadInv, LiveInv, DrainInv, STUCK
<1> QED
  BY <1>1, <1>2, <1>3, <1>4 DEF IInv, CoreInv

LEMMA StepKeeps == IInv /\ [Next]_vars => IInv'
<1> SUFFICES ASSUME IInv, [Next]_vars PROVE IInv'
  OBVIOUS
<1>1. CASE Next
  <2>1. TypeOK /\ WordInv /\ StreamInv /\ CoreInv
    BY DEF IInv, CoreInv
  <2>2. WordInv'
    BY <1>1, <2>1, WordStep
  <2>3. StreamInv'
    BY <1>1, <2>1, <2>2, StreamStep
  <2>4. TypeOK' /\ CoreInv'
    <3>1. CASE Thread
      BY <2>1, <3>1, ThreadKeeps
    <3>2. CASE DataEnd \/ SessionWrites \/ StrayWrites
      BY <2>1, <3>2, DataKeeps
    <3>3. CASE \/ StopTransferStep \/ StopTransferReturns
               \/ StartThread \/ StartDevice
      BY <2>1, <3>3, TransferCallsKeep
    <3>4. CASE \/ ReadHeader \/ RefuseMessage \/ Other \/ Screenshot \/ Unknown
               \/ StartRefused \/ StartBegins \/ Stop \/ host_ctrl_closed
      BY <2>1, <2>2, <3>4, RequestsKeep
    <3>5. CASE hostServerHandler \/ connect_timer_cb
      BY <2>1, <3>5, ConnectionsKeep
    <3>0. CASE HostSendsRest \/ HostClosesControl
      BY <2>1, <2>2, <3>0, WordsKeep DEF HostSendsRest, HostClosesControl
    <3>6. ASSUME NEW m \in Requests, NEW n \in 1..(2 + LongLen), HostSends(m, n)
          PROVE  TypeOK' /\ CoreInv'
      BY <2>1, <2>2, <3>6, WordsKeep DEF HostSends
    <3> QED
      BY <1>1, <3>1, <3>2, <3>3, <3>4, <3>0, <3>5, <3>6 DEF Next, MainStep
  <2> QED
    BY <2>2, <2>3, <2>4 DEF IInv, CoreInv
<1>2. CASE UNCHANGED vars
  <2>1. UNCHANGED <<tvars, main, after, cvars>>
    BY <1>2 DEF vars
  <2>2. TypeOK'
    BY <2>1 DEF IInv, CoreInv, TypeOK, TransferTypeOK, tvars, cvars
  <2>3. WordInv' /\ StreamInv'
    BY <2>1 DEF IInv, CoreInv, WordInv, StreamInv, Stream, Pending, cvars
  <2>4. ThreadInv' /\ LiveInv' /\ DrainInv'
    BY <2>1 DEF IInv, CoreInv, ThreadInv, LiveInv, DrainInv, tvars, cvars
  <2> QED
    BY <2>2, <2>3, <2>4 DEF IInv, CoreInv
<1> QED
  BY <1>1, <1>2

\* The inductive invariant of both connections.
THEOREM Invariance == Spec => []IInv
BY InitKeeps, StepKeeps, PTL DEF Spec

\* Every variable has its type; stop_transfer runs only while there is a
\* thread, and no more words wait than were let in.
THEOREM TypeCorrect == Spec => []TypeOK
<1>1. IInv => TypeOK
  BY DEF IInv, CoreInv
<1> QED
  BY <1>1, Invariance, PTL

\* However the stream is cut into pieces and whatever the lengths are, the
\* manager looks for a header where the host has put one, unless it read one
\* that had arrived in part.
THEOREM StaysInStep == Spec => []InStep
<1>1. IInv => InStep
  <2> SUFFICES ASSUME IInv, ~torn, main = "loop", ctl # <<>>
               PROVE  ctl[1][1] = "id"
    BY DEF InStep
  <2>1. ctl \in Seq(Word) /\ unsent \in Seq(Word)
    BY DEF IInv, CoreInv, WordInv
  <2>2. Len(ctl) \in Nat \ {0} /\ Len(unsent) \in Nat
    BY <2>1, EmptySeq, LenProperties
  <2>3. /\ Len(ctl \o unsent) = Len(ctl) + Len(unsent)
        /\ \A i \in 1..(Len(ctl) + Len(unsent)) :
             (ctl \o unsent)[i] = IF i <= Len(ctl) THEN ctl[i] ELSE unsent[i - Len(ctl)]
    BY <2>1, ConcatProperties, Zenon
  <2>4. 0 < Len(Stream) /\ Stream[1] = ctl[1]
    BY <2>2, <2>3 DEF Stream
  <2>5. Aligned(Stream, 0)
    BY DEF IInv, CoreInv, StreamInv, Pending
  <2> QED
    BY <2>4, <2>5 DEF Aligned
<1> QED
  BY <1>1, Invariance, PTL

\* A session that met no fault has a live transfer thread that waits for data.
THEOREM RunningTransfers == Spec => []RunningMeansTransferring
<1>1. IInv => RunningMeansTransferring
  BY DEF IInv, CoreInv, LiveInv, RunningMeansTransferring
<1> QED
  BY <1>1, Invariance, PTL

\* stop_transfer of a session returns with buffer and pipe empty.
THEOREM StopDrainsAll == Spec => StopDrains
<1>1. IInv /\ [Next]_vars
        => [main = "join" /\ main' \in {"loop", "ended"} /\ fault = 0
              => partial' = 0 /\ buf' = 0 /\ pipe' = 0]_vars
  <2> SUFFICES ASSUME IInv, [Next]_vars, main = "join",
                      main' \in {"loop", "ended"}, fault = 0
               PROVE  partial' = 0 /\ buf' = 0 /\ pipe' = 0
    OBVIOUS
  <2>1. Next
    BY DEF vars
  <2>2. StopTransferReturns
    <3>1. ~Thread
      BY DEF Thread, ThreadStep, ThreadOwn, PipeOpens, SpliceRead,
             SpliceReadAgain, SpliceReadFails, SpliceReadSleeps,
             DataArrives, SpliceWrite, Sends, SendFails
    <3>2. ~(DataEnd \/ SessionWrites \/ StrayWrites \/ connect_timer_cb
            \/ hostServerHandler \/ HostSendsRest \/ HostClosesControl)
      BY DEF DataEnd, HostReads, HostClosesData, host_data_cb, SessionWrites,
             StrayWrites, write_to_buf, connect_timer_cb, hostServerHandler,
             HostSendsRest, HostClosesControl
    <3>3. ASSUME NEW m \in Requests, NEW n \in 1..(2 + LongLen) PROVE ~HostSends(m, n)
      BY DEF HostSends
    <3>4. ~(ReadHeader \/ RefuseMessage \/ Other \/ Screenshot \/ Unknown
            \/ StartRefused \/ StartBegins \/ StartThread \/ StartDevice \/ Stop
            \/ StopTransferStep \/ host_ctrl_closed)
      BY DEF ReadHeader, RefuseMessage, Other, Screenshot, Unknown, StartRefused,
             StartBegins, StartThread, StartDevice, Stop, StopTransferStep,
             flush_buf, SetNonblock, wake_up_buf, host_ctrl_closed, Received,
             BodyThere
    <3> QED
      BY <2>1, <3>1, <3>2, <3>3, <3>4 DEF Next, MainStep
  <2>3. tpc = "done" /\ after = main' /\ UNCHANGED <<partial, buf, pipe>>
    BY <2>2 DEF StopTransferReturns, Joined
  <2> QED
    BY <2>3 DEF IInv, CoreInv, DrainInv, ThreadInv
<1> QED
  BY <1>1, Invariance, PTL DEF Spec, StopDrains

(***************************************************************************)
(* The thread throws nothing away: when transfer_thread_cleanup closes the *)
(* pipe after a round that met no fault, the pipe is empty.                *)
(***************************************************************************)
EndsWithEmptyPipe ==
  [][tpc # "done" /\ tpc' = "done" /\ fault' = 0 => pipe = 0]_vars

\* transfer_thread_cleanup loses data only if the thread met a fault.
THEOREM CleanupLosesNothing == Spec => EndsWithEmptyPipe
<1>1. IInv /\ [Next]_vars
        => [tpc # "done" /\ tpc' = "done" /\ fault' = 0 => pipe = 0]_vars
  <2> SUFFICES ASSUME IInv, [Next]_vars, tpc # "done", tpc' = "done", fault' = 0
               PROVE  pipe = 0
    OBVIOUS
  <2>1. Next
    BY DEF vars, tvars
  <2>2. Thread
    <3>1. ~(DataEnd \/ SessionWrites \/ StrayWrites \/ connect_timer_cb
            \/ hostServerHandler \/ HostSendsRest \/ HostClosesControl)
      BY DEF DataEnd, HostReads, HostClosesData, host_data_cb, SessionWrites,
             StrayWrites, write_to_buf, connect_timer_cb, hostServerHandler,
             HostSendsRest, HostClosesControl, tvars
    <3>2. ASSUME NEW m \in Requests, NEW n \in 1..(2 + LongLen) PROVE ~HostSends(m, n)
      BY DEF HostSends, tvars
    <3>3. ~(ReadHeader \/ RefuseMessage \/ Other \/ Screenshot \/ Unknown
            \/ StartRefused \/ StartBegins \/ StartThread \/ StartDevice \/ Stop
            \/ StopTransferStep \/ StopTransferReturns \/ host_ctrl_closed)
      BY DEF ReadHeader, RefuseMessage, Other, Screenshot, Unknown, StartRefused,
             StartBegins, StartThread, StartDevice, Stop, StopTransferStep,
             StopTransferReturns, Joined, flush_buf, SetNonblock, wake_up_buf,
             host_ctrl_closed, CreateThread, tvars
    <3> QED
      BY <2>1, <3>1, <3>2, <3>3 DEF Next, MainStep
  <2>3. fault \in 0..STUCK /\ (nrd > 0 <=> tpc \in {"write", "send"})
        /\ nrd \in Nat /\ (fault < STUCK => pipe = nrd)
    BY CapAssumption DEF IInv, CoreInv, TypeOK, TransferTypeOK, ThreadInv
  <2>4. tpc = "read" /\ fault' = fault
    BY <2>2, <2>3 DEF Thread, ThreadStep, ThreadEnds, PipeOpens, SpliceRead,
         SpliceReadAgain, SpliceReadFails, SpliceReadSleeps, DataArrives,
         SpliceWrite, Sends, SendFails, Worse, LOSS, STUCK
  <2> QED
    BY <2>3, <2>4 DEF STUCK
<1> QED
  BY <1>1, Invariance, PTL DEF Spec, EndsWithEmptyPipe

=============================================================================
