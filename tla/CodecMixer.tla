------------------------------ MODULE CodecMixer ------------------------------
(***************************************************************************)
(* The Common Multiplexing Transport Proxy of cmtp/cmtp.go: the frame      *)
(* pool, the session tables and the goroutines of one CodecMixer.          *)
(*                                                                         *)
(* A mixerFrame circulates: ReadFrom and readLoop take one from ioFreeCh,  *)
(* encodeLoop moves it from encodeCh to one of the two assemble channels,  *)
(* writeLoop writes it to an underlay link and puts it back to ioFreeCh.   *)
(* Nobody sends to decodeCh, so decodeLoop blocks in its first receive and *)
(* the channel a WriteTo waits on only ever gets closed.                   *)
(***************************************************************************)
EXTENDS Integers, Sequences, FiniteSets

CONSTANTS
  Frames,      \* the mixerFrames newCodecMixer makes (cpus of them)
  Clients,     \* callers of ReadFrom
  Encoders,    \* encodeLoop goroutines (cpus of them)
  Links,       \* underlay connections given to addMixerIO
  Waiters,     \* callers of WriteTo
  NoFrame,     \* a goroutine that holds no frame
  WireSsids,   \* session ids in the headers a peer sends
  Lengths,     \* block lengths: iobuf[:ioptr] of a ReadFrom, bodylen of a header
  Codec,       \* the codec newCodecMixer is given: NoopCodec or SnappyCodec
  MaxSsid,     \* bound: highest session id handed out
  MaxIndex,    \* bound: highest frame index of a session
  MaxEmptyIO,  \* CMTP_MAX_EMPTY_IO
  ChanSize     \* chansize of newCodecMixer

ASSUME FramesAssumption == IsFiniteSet(Frames) /\ NoFrame \notin Frames
\* cpus frames are made, and chansize is cpus*5 + 2048.
ASSUME ChanSizeAssumption == ChanSize \in Nat /\ Cardinality(Frames) <= ChanSize
ASSUME BoundsAssumption == MaxSsid \in Nat /\ MaxIndex \in Nat /\ MaxEmptyIO \in Nat
\* Any 64-bit value is accepted in a header, 0 included.
ASSUME WireAssumption == WireSsids \subseteq Nat
ASSUME LengthsAssumption == Lengths \subseteq Nat \ {0}
ASSUME CodecAssumption == Codec \in {"noop", "snappy"}

INIT_SSID == 1
INIT_INDEX == 1

\* What a new framebuf of hdrlen*10 bytes leaves behind its header of 44.
Room == 396
CMTP_SMALL_PKG_SIZE == 1024

MaxEncodedLen(n) == IF Codec = "noop" THEN n ELSE 32 + n + n \div 6

\* NoopCodec's ByteRWCloser takes an exact fit for a short write; snappy.Encode
\* allocates when its destination is short, and never fails.
EncodeOK(n, room) == Codec = "noop" => n < room

\* Where the payload of n bytes may go: snappy's is anything up to MaxEncodedLen.
Assembled(n) ==
  {a \in {"assembleFastCh", "assembleCh"} :
     IF a = "assembleCh" THEN MaxEncodedLen(n) >= CMTP_SMALL_PKG_SIZE
     ELSE Codec = "snappy" \/ n < CMTP_SMALL_PKG_SIZE}

Chans == {"ioFreeCh", "encodeCh", "assembleFastCh", "assembleCh"}
CapOfOne(a) == IF a = "ioFreeCh" THEN 2 * ChanSize ELSE 1
Cap(a) == IF a = "ioFreeCh" THEN 2 * ChanSize ELSE ChanSize

ReadFrom(c)   == <<"ReadFrom", c>>
EncodeLoop(e) == <<"encodeLoop", e>>
WriteLoop(l)  == <<"writeLoop", l>>
ReadLoop(l)   == <<"readLoop", l>>
WriteTo(w)    == <<"WriteTo", w>>

Readers == {"ReadFrom"} \X Clients
Waiting == {"WriteTo"} \X Waiters
Procs == Readers \cup Waiting \cup ({"encodeLoop"} \X Encoders)
           \cup ({"writeLoop", "readLoop"} \X Links)

VARIABLES
  ssid,      \* tf.ssid, the session counter
  ssindex,   \* tf.ssindex; its domain is that of the four session maps
  ch,        \* the frame channels
  mixerCh,   \* tf.mixerCh
  open,      \* links whose rw is not closed
  frame,     \* contents of each mixerFrame
  pc,        \* where each goroutine is
  mf,        \* the frame each goroutine holds
  sess,      \* the ssid local to each ReadFrom and WriteTo
  emptyio,   \* empty reads counted by each ReadFrom
  crash,     \* the panic that ended the process, "none" while it runs
  delivered  \* history: <<ssid, index>> of ReadFrom's frames written whole

vars == <<ssid, ssindex, ch, mixerCh, open, frame, pc, mf, sess, emptyio,
          crash, delivered>>
sessions == <<ssid, ssindex, sess>>
links == <<mixerCh, open>>

\* The labels each goroutine goes through.
Labels ==
  [ReadFrom   |-> {"idle", "take", "read", "send", "sendlast", "clear"},
   WriteTo    |-> {"idle", "nilCh", "wait", "closed"},
   encodeLoop |-> {"take", "encode"},
   writeLoop  |-> {"idle", "select", "bulk", "write", "exit"},
   readLoop   |-> {"idle", "take", "header", "payload", "exit"}]
AllLabels == UNION {Labels[k] : k \in DOMAIN Labels}
Holding == {"read", "send", "sendlast", "encode", "write", "header", "payload"}

Panics == {"nilMutex", "nilCodec", "encode", "header", "payload"}
Live == DOMAIN ssindex

FrameType == [ssid : Nat, index : Nat, origin : {"new", "client", "wire"},
              size : Nat, bodylen : Nat, cap : Nat]

LabelsOK == pc \in [Procs -> AllLabels] /\ \A p \in Procs : pc[p] \in Labels[p[1]]

\* A queued link has no goroutines yet; then it gets both.
LinksOK ==
  /\ \A l \in Links : pc[WriteLoop(l)] = "idle" <=> pc[ReadLoop(l)] = "idle"
  /\ \A i, j \in DOMAIN mixerCh : mixerCh[i] = mixerCh[j] => i = j
  /\ \A i \in DOMAIN mixerCh : pc[WriteLoop(mixerCh[i])] = "idle"

\* A goroutine holds a frame exactly between its receive and its send.
HoldsOK ==
  /\ mf \in [Procs -> Frames \cup {NoFrame}]
  /\ \A p \in Procs : mf[p] # NoFrame <=> pc[p] \in Holding

\* Types, and what ties labels, links and held frames together.
TypeOK ==
  /\ ssid \in Nat
  /\ Live \subseteq Nat /\ ssindex \in [Live -> Nat]
  /\ ch \in [Chans -> Seq(Frames)]
  /\ mixerCh \in Seq(Links) /\ open \subseteq Links
  /\ frame \in [Frames -> FrameType]
  /\ LabelsOK /\ LinksOK /\ HoldsOK
  /\ sess \in [Readers \cup Waiting -> Nat]
  /\ emptyio \in [Clients -> 0..MaxEmptyIO]
  /\ crash \in Panics \cup {"none"}
  /\ delivered \subseteq Nat \X Nat

Init ==
  /\ ssid = INIT_SSID
  /\ ssindex = [s \in {INIT_SSID} |-> INIT_INDEX]
  /\ \E q \in [1..Cardinality(Frames) -> Frames] :
       /\ \A i, j \in DOMAIN q : q[i] = q[j] => i = j
       /\ ch = [a \in Chans |-> IF a = "ioFreeCh" THEN q ELSE <<>>]
  /\ mixerCh = <<>> /\ open = {}
  /\ frame = [f \in Frames |-> [ssid |-> INIT_SSID, index |-> 0, origin |-> "new",
                                size |-> 0, bodylen |-> 0, cap |-> Room]]
  /\ pc = [p \in Procs |-> IF p[1] = "encodeLoop" THEN "take" ELSE "idle"]
  /\ mf = [p \in Procs |-> NoFrame]
  /\ sess = [p \in Readers \cup Waiting |-> 0]
  /\ emptyio = [c \in Clients |-> 0]
  /\ crash = "none"
  /\ delivered = {}

-----------------------------------------------------------------------------
(* Channel operations.                                                     *)

\* A panic in one goroutine ends them all.
At(p, label) == crash = "none" /\ pc[p] = label
Goto(p, label) == pc' = [pc EXCEPT ![p] = label]

Recv(p, a) ==
  /\ ch[a] # <<>>
  /\ mf' = [mf EXCEPT ![p] = Head(ch[a])]
  /\ ch' = [ch EXCEPT ![a] = Tail(@)]

CanSend(a) == Len(ch[a]) < Cap(a)

Send(p, a) ==
  /\ CanSend(a)
  /\ ch' = [ch EXCEPT ![a] = Append(@, mf[p])]
  /\ mf' = [mf EXCEPT ![p] = NoFrame]

Drop(p) == mf' = [mf EXCEPT ![p] = NoFrame] /\ UNCHANGED ch

(* The session tables: initssid and clearssid run under tf.mutex.          *)

Registered(s) ==
  [t \in Live \cup {s} |-> IF t \in Live THEN ssindex[t] ELSE INIT_INDEX]

\* clearssid, called by p as it returns: closing ssWriteCh[s] wakes every
\* WriteTo that blocks on it.
ClearSsid(p, s) ==
  /\ ssindex' = [t \in Live \ {s} |-> ssindex[t]]
  /\ pc' = [q \in Procs |->
              IF q = p THEN "idle"
              ELSE IF s \in Live /\ q \in Waiting /\ pc[q] = "wait" /\ sess[q] = s
                   THEN "closed" ELSE pc[q]]

-----------------------------------------------------------------------------
(* Plausible faults of the operations below, to measure the properties     *)
(* with; Next uses none of them.                                           *)

\* The number of a session is handed out again once it is free.
StartReadFromReuse(c) ==
  LET p == ReadFrom(c) IN
  /\ At(p, "idle")
  /\ \E s \in (1..MaxSsid) \ Live :
       /\ \A t \in 1..(s - 1) : t \in Live
       /\ ssindex' = Registered(s)
       /\ sess' = [sess EXCEPT ![p] = s]
       /\ ssid' = s
  /\ emptyio' = [emptyio EXCEPT ![c] = 0]
  /\ Goto(p, "take")
  /\ UNCHANGED <<ch, links, frame, mf, crash, delivered>>

\* The counter is read but not written back.
StartReadFromStale(c) ==
  LET p == ReadFrom(c) IN
  /\ At(p, "idle") /\ ssid < MaxSsid
  /\ ssindex' = Registered(ssid + 1)
  /\ sess' = [sess EXCEPT ![p] = ssid + 1]
  /\ emptyio' = [emptyio EXCEPT ![c] = 0]
  /\ Goto(p, "take")
  /\ UNCHANGED <<ssid, ch, links, frame, mf, crash, delivered>>

\* growindex returns the index without growing it.
ReadDataSameIndex(c, n, last) ==
  LET p == ReadFrom(c)
      s == sess[p] IN
  /\ At(p, "read") /\ s \in Live
  /\ frame' = [frame EXCEPT ![mf[p]] =
                 [ssid |-> s, index |-> ssindex[s], origin |-> "client",
                  size |-> n, bodylen |-> n, cap |-> @.cap]]
  /\ Goto(p, IF last THEN "sendlast" ELSE "send")
  /\ UNCHANGED <<sessions, ch, mf, links, emptyio, crash, delivered>>

\* framebuf is made anew whenever its size is not the one the header asks for.
EncodeShrinks(e) ==
  LET p == EncodeLoop(e)
      f == frame[mf[p]]
      cap == MaxEncodedLen(f.bodylen) IN
  /\ At(p, "encode")
  /\ IF f.ssid \notin Live \/ ~EncodeOK(f.size, cap)
     THEN /\ crash' = IF f.ssid \notin Live THEN "nilCodec" ELSE "encode"
          /\ UNCHANGED <<ch, mf, pc, frame>>
     ELSE /\ frame' = [frame EXCEPT ![mf[p]].cap = cap]
          /\ \E a \in Assembled(f.size) : Send(p, a)
          /\ Goto(p, "take")
          /\ UNCHANGED crash
  /\ UNCHANGED <<sessions, links, emptyio, delivered>>

\* An encoded frame goes back to encodeCh, as readLoop's do.
EncodeAgain(e) ==
  LET p == EncodeLoop(e) IN
  /\ At(p, "encode")
  /\ IF frame[mf[p]].ssid \notin Live
     THEN crash' = "nilCodec" /\ UNCHANGED <<ch, mf, pc>>
     ELSE Send(p, "encodeCh") /\ Goto(p, "take") /\ UNCHANGED crash
  /\ UNCHANGED <<sessions, links, frame, emptyio, delivered>>

\* A frame that could not be written is dropped.
WriteFailDrop(l) ==
  LET p == WriteLoop(l) IN
  /\ At(p, "write")
  /\ Drop(p)
  /\ open' = open \ {l}
  /\ Goto(p, "exit")
  /\ UNCHANGED <<sessions, mixerCh, frame, emptyio, crash, delivered>>

\* A frame that could not be written is both requeued and put back to the pool.
WriteFailTwice(l) ==
  LET p == WriteLoop(l) IN
  /\ At(p, "write")
  /\ mf' = [mf EXCEPT ![p] = NoFrame]
  /\ ch' = [ch EXCEPT !["assembleFastCh"] = Append(@, mf[p]), !["ioFreeCh"] = Append(@, mf[p])]
  /\ open' = open \ {l}
  /\ Goto(p, "exit")
  /\ UNCHANGED <<sessions, mixerCh, frame, emptyio, crash, delivered>>

\* writeLoop requeues a frame it could not write and does not return.
WriteFailGoesOn(l) ==
  LET p == WriteLoop(l) IN
  /\ At(p, "write")
  /\ Send(p, "assembleFastCh")
  /\ open' = open \ {l}
  /\ UNCHANGED <<sessions, mixerCh, frame, pc, emptyio, crash, delivered>>

\* A frame whose read failed is not put back to the pool.
ReadLinkFailDrop(l) ==
  LET p == ReadLoop(l) IN
  /\ crash = "none" /\ pc[p] \in {"header", "payload"}
  /\ Drop(p)
  /\ open' = open \ {l}
  /\ Goto(p, "exit")
  /\ UNCHANGED <<sessions, mixerCh, frame, emptyio, crash, delivered>>

-----------------------------------------------------------------------------
(* ReadFrom(rw): one client connection.                                    *)

StartReadFrom(c) ==
  LET p == ReadFrom(c) IN
  /\ At(p, "idle") /\ ssid < MaxSsid
  /\ ssid' = ssid + 1
  /\ ssindex' = Registered(ssid + 1)
  /\ sess' = [sess EXCEPT ![p] = ssid + 1]
  /\ emptyio' = [emptyio EXCEPT ![c] = 0]
  /\ Goto(p, "take")
  /\ UNCHANGED <<ch, links, frame, mf, crash, delivered>>

TakeFree(c) ==
  LET p == ReadFrom(c) IN
  /\ At(p, "take")
  /\ Recv(p, "ioFreeCh")
  /\ Goto(p, "read")
  /\ UNCHANGED <<sessions, links, frame, emptyio, crash, delivered>>

\* An empty read without an error: "continue" goes back for another frame.
ReadNothing(c) ==
  LET p == ReadFrom(c) IN
  /\ At(p, "read") /\ emptyio[c] < MaxEmptyIO
  /\ Drop(p)
  /\ emptyio' = [emptyio EXCEPT ![c] = @ + 1]
  /\ Goto(p, "take")
  /\ UNCHANGED <<sessions, links, frame, crash, delivered>>

\* EOF or an error without data, or one empty read too many.
ReadFail(c) ==
  LET p == ReadFrom(c) IN
  /\ At(p, "read")
  /\ Drop(p)
  /\ Goto(p, "clear")
  /\ UNCHANGED <<sessions, links, frame, emptyio, crash, delivered>>

\* Data of n bytes, with or without an error: growindex and headerInit.
\* growindex dereferences tf.ssmutex[ssid].
ReadData(c, n, last) ==
  LET p == ReadFrom(c)
      s == sess[p] IN
  /\ At(p, "read")
  /\ IF s \notin Live
     THEN crash' = "nilMutex" /\ UNCHANGED <<ssindex, frame, pc>>
     ELSE /\ ssindex[s] < MaxIndex
          /\ ssindex' = [ssindex EXCEPT ![s] = @ + 1]
          /\ frame' = [frame EXCEPT ![mf[p]] =
                         [ssid |-> s, index |-> ssindex[s] + 1, origin |-> "client",
                          size |-> n, bodylen |-> n, cap |-> @.cap]]
          /\ Goto(p, IF last THEN "sendlast" ELSE "send")
          /\ UNCHANGED crash
  /\ UNCHANGED <<ssid, sess, ch, mf, links, emptyio, delivered>>

SendEncode(c) ==
  LET p == ReadFrom(c) IN
  /\ crash = "none" /\ pc[p] \in {"send", "sendlast"}
  /\ Send(p, "encodeCh")
  /\ Goto(p, IF pc[p] = "send" THEN "take" ELSE "clear")
  /\ UNCHANGED <<sessions, links, frame, emptyio, crash, delivered>>

ReturnReadFrom(c) ==
  LET p == ReadFrom(c) IN
  /\ At(p, "clear")
  /\ ClearSsid(p, sess[p])
  /\ UNCHANGED <<ssid, sess, ch, links, frame, mf, emptyio, crash, delivered>>

-----------------------------------------------------------------------------
(* WriteTo(rw, ssid): blocks on the session's channel until it is closed;  *)
(* the channel of an unknown session is nil and blocks for ever.           *)

StartWriteTo(w, s) ==
  LET p == WriteTo(w) IN
  /\ At(p, "idle")
  /\ sess' = [sess EXCEPT ![p] = s]
  /\ Goto(p, IF s \in Live THEN "wait" ELSE "nilCh")
  /\ UNCHANGED <<ssid, ssindex, ch, links, frame, mf, emptyio, crash, delivered>>

ReturnWriteTo(w) ==
  LET p == WriteTo(w) IN
  /\ At(p, "closed")
  /\ ClearSsid(p, sess[p])
  /\ UNCHANGED <<ssid, sess, ch, links, frame, mf, emptyio, crash, delivered>>

-----------------------------------------------------------------------------
(* encodeLoop.                                                             *)

TakeEncode(e) ==
  LET p == EncodeLoop(e) IN
  /\ At(p, "take")
  /\ Recv(p, "encodeCh")
  /\ Goto(p, "encode")
  /\ UNCHANGED <<sessions, links, frame, emptyio, crash, delivered>>

\* framebuf grows to what the header's bodylen may need, but never shrinks;
\* then it has to hold iobuf[:ioptr] encoded.
Encode(e) ==
  LET p == EncodeLoop(e)
      f == frame[mf[p]]
      len == MaxEncodedLen(f.bodylen)
      cap == IF len > f.cap THEN len ELSE f.cap IN
  /\ At(p, "encode")
  /\ IF f.ssid \notin Live \/ ~EncodeOK(f.size, cap)
     THEN /\ crash' = IF f.ssid \notin Live THEN "nilCodec" ELSE "encode"
          /\ UNCHANGED <<ch, mf, pc, frame>>
     ELSE /\ frame' = [frame EXCEPT ![mf[p]].cap = cap]
          /\ \E a \in Assembled(f.size) : Send(p, a)
          /\ Goto(p, "take")
          /\ UNCHANGED crash
  /\ UNCHANGED <<sessions, links, emptyio, delivered>>

-----------------------------------------------------------------------------
(* addMixerIO and runReadWriter: a new underlay link.                      *)

AddMixerIO(l) ==
  /\ At(WriteLoop(l), "idle") /\ \A i \in DOMAIN mixerCh : mixerCh[i] # l
  /\ mixerCh' = Append(mixerCh, l)
  /\ UNCHANGED <<sessions, ch, open, frame, pc, mf, emptyio, crash, delivered>>

RunReadWriter ==
  /\ crash = "none" /\ mixerCh # <<>>
  /\ LET l == Head(mixerCh) IN
       /\ open' = open \cup {l}
       /\ pc' = [pc EXCEPT ![WriteLoop(l)] = "select", ![ReadLoop(l)] = "take"]
  /\ mixerCh' = Tail(mixerCh)
  /\ UNCHANGED <<sessions, ch, frame, mf, emptyio, crash, delivered>>

-----------------------------------------------------------------------------
(* writeLoop.                                                              *)

SelectFast(l) ==
  LET p == WriteLoop(l) IN
  /\ At(p, "select")
  /\ Recv(p, "assembleFastCh")
  /\ Goto(p, "write")
  /\ UNCHANGED <<sessions, links, frame, emptyio, crash, delivered>>

\* "default:" of the select: from here on only assembleCh is looked at.
SelectDefault(l) ==
  LET p == WriteLoop(l) IN
  /\ At(p, "select") /\ ch["assembleFastCh"] = <<>>
  /\ Goto(p, "bulk")
  /\ UNCHANGED <<sessions, ch, links, frame, mf, emptyio, crash, delivered>>

TakeBulk(l) ==
  LET p == WriteLoop(l) IN
  /\ At(p, "bulk")
  /\ Recv(p, "assembleCh")
  /\ Goto(p, "write")
  /\ UNCHANGED <<sessions, links, frame, emptyio, crash, delivered>>

\* All of iobuf[:ioptr] is written, in one or more parts.
WriteDone(l) ==
  LET p == WriteLoop(l)
      f == frame[mf[p]] IN
  /\ At(p, "write") /\ l \in open
  /\ Send(p, "ioFreeCh")
  /\ delivered' = delivered \cup (IF f.origin = "client" THEN {<<f.ssid, f.index>>} ELSE {})
  /\ Goto(p, "select")
  /\ UNCHANGED <<sessions, links, frame, emptyio, crash>>

\* A write error or too many empty writes, after any part of the frame.
WriteFail(l) ==
  LET p == WriteLoop(l) IN
  /\ At(p, "write")
  /\ Send(p, "assembleFastCh")
  /\ open' = open \ {l}
  /\ Goto(p, "exit")
  /\ UNCHANGED <<sessions, mixerCh, frame, emptyio, crash, delivered>>

-----------------------------------------------------------------------------
(* readLoop.                                                               *)

TakeRead(l) ==
  LET p == ReadLoop(l) IN
  /\ At(p, "take")
  /\ Recv(p, "ioFreeCh")
  /\ Goto(p, "header")
  /\ UNCHANGED <<sessions, links, frame, emptyio, crash, delivered>>

\* One read returns a whole valid header: initssid registers its session. A
\* header that says 0 takes a new number, which the frame does not get.
ReadHeader(l, s, n) ==
  LET p == ReadLoop(l)
      t == IF s = 0 THEN ssid + 1 ELSE s IN
  /\ At(p, "header") /\ l \in open
  /\ s = 0 => ssid < MaxSsid
  /\ frame' = [frame EXCEPT ![mf[p]] =
                 [@ EXCEPT !.ssid = s, !.origin = "wire", !.bodylen = n]]
  /\ ssid' = IF s = 0 THEN t ELSE ssid
  /\ ssindex' = Registered(t)
  /\ Goto(p, "payload")
  /\ UNCHANGED <<sess, ch, links, mf, emptyio, crash, delivered>>

\* A part of a header, an empty read or a bad frame type: UnMarshalHeader
\* returns a *CMsg and the assertion to CMsg panics.
ReadBadHeader(l) ==
  /\ At(ReadLoop(l), "header") /\ l \in open
  /\ crash' = "header"
  /\ UNCHANGED <<sessions, ch, links, frame, pc, mf, emptyio, delivered>>

ReadPayload(l) ==
  LET p == ReadLoop(l) IN
  /\ At(p, "payload") /\ l \in open
  /\ Send(p, "encodeCh")
  /\ Goto(p, "take")
  /\ UNCHANGED <<sessions, links, frame, emptyio, crash, delivered>>

\* framebuf[frameptr:payloadlen] is out of range: payloadlen is below the
\* header's length or beyond framebuf.
ReadBadPayload(l) ==
  /\ At(ReadLoop(l), "payload")
  /\ crash' = "payload"
  /\ UNCHANGED <<sessions, ch, links, frame, pc, mf, emptyio, delivered>>

\* A read error, or too many empty reads of a payload.
ReadLinkFail(l) ==
  LET p == ReadLoop(l) IN
  /\ crash = "none" /\ pc[p] \in {"header", "payload"}
  /\ Send(p, "ioFreeCh")
  /\ open' = open \ {l}
  /\ Goto(p, "exit")
  /\ UNCHANGED <<sessions, mixerCh, frame, emptyio, crash, delivered>>

-----------------------------------------------------------------------------
ClientStep(c) ==
  \/ StartReadFrom(c) \/ TakeFree(c) \/ ReadNothing(c) \/ ReadFail(c)
  \/ \E n \in Lengths, last \in BOOLEAN : ReadData(c, n, last)
  \/ SendEncode(c) \/ ReturnReadFrom(c)

WaiterStep(w) ==
  (\E s \in 1..MaxSsid : StartWriteTo(w, s)) \/ ReturnWriteTo(w)

EncoderStep(e) == TakeEncode(e) \/ Encode(e)

WriterStep(l) ==
  SelectFast(l) \/ SelectDefault(l) \/ TakeBulk(l) \/ WriteDone(l) \/ WriteFail(l)

ReaderStep(l) ==
  \/ TakeRead(l) \/ ReadBadHeader(l) \/ ReadPayload(l) \/ ReadBadPayload(l)
  \/ \E s \in WireSsids, n \in Lengths : ReadHeader(l, s, n)
  \/ ReadLinkFail(l)

Next ==
  \/ \E c \in Clients : ClientStep(c)
  \/ \E w \in Waiters : WaiterStep(w)
  \/ \E e \in Encoders : EncoderStep(e)
  \/ RunReadWriter
  \/ \E l \in Links : AddMixerIO(l) \/ WriterStep(l) \/ ReaderStep(l)

Spec == Init /\ [][Next]_vars

\* The scheduler runs an encodeLoop that has a frame or can take one. Nothing
\* is asked of callers, links or peers.
FairSpec == Spec /\ \A e \in Encoders : WF_vars(EncoderStep(e))

-----------------------------------------------------------------------------
(* Safety.                                                                 *)

InChan(f, a) == \E i \in DOMAIN ch[a] : ch[a][i] = f

\* A frame is in one place: in one slot of one channel, or held by one
\* goroutine. newCodecMixer's buffers are never shared between goroutines.
SingleOwner ==
  /\ \A a, b \in Chans : \A i \in DOMAIN ch[a], j \in DOMAIN ch[b] :
       ch[a][i] = ch[b][j] => a = b /\ i = j
  /\ \A p, q \in Procs : mf[p] = mf[q] /\ mf[p] # NoFrame => p = q
  /\ \A p \in Procs, a \in Chans : ~InChan(mf[p], a)

\* A goroutine that holds a frame can send it at once: no frame channel is
\* ever full, so a write or read error can always requeue its frame.
SendsNeverBlock ==
  \A p \in Procs : mf[p] # NoFrame => \A a \in Chans : CanSend(a)

Active(c) == pc[ReadFrom(c)] # "idle"

\* Two ReadFrom calls in progress never share a session.
DistinctSessions ==
  \A c, d \in Clients : Active(c) /\ Active(d) /\ sess[ReadFrom(c)] = sess[ReadFrom(d)]
                          => c = d

\* No clearssid, not even the second one of a WriteTo on an old number of the
\* session, takes the tables away from a ReadFrom in progress: growindex
\* finds its mutex.
OwnSession == \A c \in Clients : Active(c) => sess[ReadFrom(c)] \in Live

\* Why OwnSession holds: a number is below the counter from the moment a
\* ReadFrom has it, so it is never handed out again, and a WriteTo whose
\* channel is closed has a number whose ReadFrom is gone.
SessionInv ==
  /\ OwnSession /\ DistinctSessions
  /\ \A c \in Clients : Active(c) => sess[ReadFrom(c)] <= ssid
  /\ \A w \in Waiters : pc[WriteTo(w)] = "closed" =>
       /\ sess[WriteTo(w)] <= ssid
       /\ \A c \in Clients : Active(c) => sess[ReadFrom(c)] # sess[WriteTo(w)]

\* Frames of one session enter encodeCh in the order of their indexes.
EncodeOrder ==
  \A i, j \in DOMAIN ch["encodeCh"] :
    LET f == frame[ch["encodeCh"][i]]
        g == frame[ch["encodeCh"][j]] IN
    i < j /\ f.origin = "client" /\ g.origin = "client" /\ f.ssid = g.ssid
      => f.index < g.index

\* The panic on a failed encode needs NoopCodec and a block that leaves no byte
\* of a new framebuf free. A shorter one is encoded whatever the frame was used
\* for before, and though a peer's bodylen says nothing of the old iobuf[:ioptr]:
\* framebuf only ever grows.
ShortFramesEncode ==
  crash = "encode" =>
    /\ Codec = "noop"
    /\ \E e \in Encoders : /\ pc[EncodeLoop(e)] = "encode"
                           /\ frame[mf[EncodeLoop(e)]].size >= Room

Placed(f) == (\E a \in Chans : InChan(f, a)) \/ (\E p \in Procs : mf[p] = f)

\* encodeLoop, writeLoop and readLoop give every frame back, on their error
\* paths too: the pool only shrinks when a ReadFrom gets no data.
PoolShrinksOnEmptyReadOnly ==
  [][\A f \in Frames : Placed(f) /\ ~Placed(f)' =>
       \E c \in Clients : pc[ReadFrom(c)] = "read" /\ mf[ReadFrom(c)] = f]_vars

\* ReadFrom's frames between its send to encodeCh and the end of their write,
\* by session and index.
InFlight ==
  {f \in Frames :
     /\ frame[f].origin = "client"
     /\ \/ \E a \in Chans \ {"ioFreeCh"} : InChan(f, a)
        \/ \E e \in Encoders : mf[EncodeLoop(e)] = f
        \/ \E l \in Links : mf[WriteLoop(l)] = f}
Pending == {<<frame[f].ssid, frame[f].index>> : f \in InFlight}

\* What the mixer promises of each frame a ReadFrom hands over: it is never
\* lost and never written whole twice, whatever links fail.
Transport == INSTANCE FrameTransport WITH pending <- Pending
TransportSpec == Transport!Spec

\* encodeLoop starves no session: a frame sent to encodeCh gets encoded.
EncodeProgress ==
  \A f \in Frames : InChan(f, "encodeCh") ~>
    (InChan(f, "assembleFastCh") \/ InChan(f, "assembleCh") \/ crash # "none")

-----------------------------------------------------------------------------
(* What the comments of cmtp.go say and the code does not do.              *)

\* cmtp.go:732 "tf.sscodecList[mf.ssid] is created by initssid()".
CodecIsCreated == crash # "nilCodec"

\* cmtp.go:740 "already make sure dst buffer have enough space".
RoomIsEnough == crash # "encode"

\* cmtp.go:767 "0 for new ssid".
NewSsidIsNew == [][ssid' # ssid => ssid' \notin Live]_vars

\* cmtp.go:49 "max empty io read" and the error "too many empty io": up to
\* CMTP_MAX_EMPTY_IO empty reads a ReadFrom still gets a frame to read into.
EmptyReadsTolerated ==
  \A c \in Clients : pc[ReadFrom(c)] = "take" => \E f \in Frames : Placed(f)
=============================================================================
