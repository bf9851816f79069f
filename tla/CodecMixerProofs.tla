-------------------------- MODULE CodecMixerProofs --------------------------
(***************************************************************************)
(* Invariants of CodecMixer for every pool, every set of goroutines and    *)
(* every bound: the types of its state, and the ownership of sessions and  *)
(* of frames. And CodecMixer implements FrameTransport: a frame a ReadFrom *)
(* hands over is neither lost nor written whole twice, for every link that *)
(* fails; only a peer's frame can make an encodeLoop panic on a short      *)
(* framebuf.                                                               *)
(***************************************************************************)
EXTENDS CodecMixer, FiniteSetTheorems, TLAPS

-----------------------------------------------------------------------------
(* Goroutines of different kinds are different.                            *)

\* Goroutines by kind: ReadFrom is a reader, WriteTo waits, all are in Procs.
LEMMA ProcsOf ==
  /\ \A c \in Clients : ReadFrom(c) \in Procs /\ ReadFrom(c) \in Readers
  /\ \A w \in Waiters : WriteTo(w) \in Procs /\ WriteTo(w) \in Waiting
  /\ \A e \in Encoders : EncodeLoop(e) \in Procs
  /\ \A l \in Links : WriteLoop(l) \in Procs /\ ReadLoop(l) \in Procs
BY DEF ReadFrom, WriteTo, EncodeLoop, WriteLoop, ReadLoop, Procs, Readers, Waiting

\* The labels of each kind of goroutine.
LEMMA LabelsOf ==
  /\ \A c \in Clients : Labels[ReadFrom(c)[1]] =
       {"idle", "take", "read", "send", "sendlast", "clear"}
  /\ \A w \in Waiters : Labels[WriteTo(w)[1]] = {"idle", "nilCh", "wait", "closed"}
  /\ \A e \in Encoders : Labels[EncodeLoop(e)[1]] = {"take", "encode"}
  /\ \A l \in Links : Labels[WriteLoop(l)[1]] = {"idle", "select", "bulk", "write", "exit"}
  /\ \A l \in Links : Labels[ReadLoop(l)[1]] = {"idle", "take", "header", "payload", "exit"}
BY DEF Labels, ReadFrom, WriteTo, EncodeLoop, WriteLoop, ReadLoop

\* No goroutine has a label outside AllLabels.
LEMMA LabelsAll == \A p \in Procs : Labels[p[1]] \subseteq AllLabels
BY DEF Procs, Readers, Waiting, Labels, AllLabels

-----------------------------------------------------------------------------
(* What a receive, a send and a drop do to the types.                      *)

\* A receive and a send keep the type of a channel.
LEMMA SeqFacts ==
  ASSUME NEW S, NEW s \in Seq(S)
  PROVE  /\ s # <<>> => Head(s) \in S /\ Tail(s) \in Seq(S)
         /\ \A x \in S : Append(s, x) \in Seq(S)
OBVIOUS

ChanTypes == ch \in [Chans -> Seq(Frames)]

\* p receives and goes to a label where it holds the frame.
LEMMA RecvTypes ==
  ASSUME ChanTypes, LabelsOK, HoldsOK, NEW p \in Procs, NEW a \in Chans, NEW label,
         Recv(p, a), Goto(p, label), label \in Labels[p[1]],
         label \in Holding
  PROVE  ChanTypes' /\ LabelsOK' /\ HoldsOK'
<1>1. ch[a] \in Seq(Frames) /\ ch[a] # <<>>
  BY DEF ChanTypes, Recv
<1>2. Head(ch[a]) \in Frames /\ Tail(ch[a]) \in Seq(Frames)
  BY <1>1, SeqFacts
<1>3. ChanTypes'
  BY <1>2 DEF ChanTypes, Recv
<1>4. LabelsOK'
  BY LabelsAll DEF LabelsOK, Goto
<1>5. Head(ch[a]) # NoFrame
  BY <1>2, FramesAssumption
<1>6. HoldsOK'
  BY <1>2, <1>5 DEF HoldsOK, LabelsOK, Recv, Goto
<1> QED BY <1>3, <1>4, <1>6

\* p, which holds a frame, sends it and goes to a label where it holds none.
LEMMA SendTypes ==
  ASSUME ChanTypes, LabelsOK, HoldsOK, NEW p \in Procs, NEW a \in Chans, NEW label,
         Send(p, a), Goto(p, label), label \in Labels[p[1]],
         label \notin Holding, pc[p] \in Holding
  PROVE  ChanTypes' /\ LabelsOK' /\ HoldsOK'
<1>1. mf[p] \in Frames
  BY DEF HoldsOK
<1>2. ChanTypes'
  BY <1>1, SeqFacts DEF ChanTypes, Send
<1>3. LabelsOK'
  BY LabelsAll DEF LabelsOK, Goto
<1>4. HoldsOK'
  BY DEF HoldsOK, LabelsOK, Send, Goto
<1> QED BY <1>2, <1>3, <1>4

\* p loses the frame it holds.
LEMMA DropTypes ==
  ASSUME ChanTypes, LabelsOK, HoldsOK, NEW p \in Procs, NEW label,
         Drop(p), Goto(p, label), label \in Labels[p[1]],
         label \notin Holding
  PROVE  ChanTypes' /\ LabelsOK' /\ HoldsOK'
BY LabelsAll DEF ChanTypes, HoldsOK, LabelsOK, Drop, Goto

\* p keeps what it holds.
LEMMA KeepTypes ==
  ASSUME ChanTypes, LabelsOK, HoldsOK, NEW p \in Procs, NEW label,
         UNCHANGED <<ch, mf>>, Goto(p, label), label \in Labels[p[1]],
         label \in Holding <=> pc[p] \in Holding
  PROVE  ChanTypes' /\ LabelsOK' /\ HoldsOK'
BY LabelsAll DEF ChanTypes, HoldsOK, LabelsOK, Goto

\* clearssid wakes WriteTo calls, which hold no frame before or after.
LEMMA ClearTypes ==
  ASSUME ChanTypes, LabelsOK, HoldsOK, NEW p \in Readers \cup Waiting, NEW s,
         UNCHANGED <<ch, mf>>, ClearSsid(p, s), pc[p] \notin Holding
  PROVE  ChanTypes' /\ LabelsOK' /\ HoldsOK'
<1>1. ChanTypes'
  BY DEF ChanTypes
<1>2. p \in Procs /\ "idle" \in Labels[p[1]]
  BY DEF Readers, Waiting, Procs, Labels
<1>3. \A q \in Waiting : q \in Procs /\ "closed" \in Labels[q[1]]
  BY DEF Waiting, Procs, Labels
<1>4. LabelsOK'
  <2>1. \A q \in Procs : pc'[q] \in {pc[q], "idle", "closed"}
    BY DEF ClearSsid
  <2>2. pc' \in [Procs -> AllLabels]
    <3>1. \A q \in Procs : pc'[q] \in AllLabels
      <4>1. "idle" \in AllLabels /\ "closed" \in AllLabels
        BY DEF AllLabels, Labels
      <4> QED BY <4>1, <2>1 DEF LabelsOK
    <3> QED BY <3>1 DEF ClearSsid
  <2>3. ASSUME NEW q \in Procs
        PROVE  pc'[q] \in Labels[q[1]]
    <3>1. CASE q = p
      BY <3>1, <1>2 DEF ClearSsid
    <3>2. CASE q # p /\ q \in Waiting /\ pc'[q] = "closed"
      BY <3>2, <1>3
    <3>3. CASE q # p /\ ~(q \in Waiting /\ pc'[q] = "closed")
      BY <3>3 DEF LabelsOK, ClearSsid
    <3> QED BY <3>1, <3>2, <3>3
  <2> QED BY <2>2, <2>3 DEF LabelsOK
<1>5. HoldsOK'
  BY <1>2, <1>3 DEF HoldsOK, LabelsOK, ClearSsid, Holding
<1> QED BY <1>1, <1>4, <1>5

-----------------------------------------------------------------------------
(* Type correctness.                                                       *)

\* What TypeOK says beyond the channels, the labels and the held frames.
DataOK ==
  /\ ssid \in Nat
  /\ Live \subseteq Nat /\ ssindex \in [Live -> Nat]
  /\ mixerCh \in Seq(Links) /\ open \subseteq Links
  /\ frame \in [Frames -> FrameType]
  /\ sess \in [Readers \cup Waiting -> Nat]
  /\ emptyio \in [Clients -> 0..MaxEmptyIO]
  /\ crash \in Panics \cup {"none"}
  /\ delivered \subseteq Nat \X Nat

\* initssid adds one session and keeps the types of the tables.
LEMMA RegisteredType ==
  ASSUME DataOK, NEW s \in Nat, ssindex' = Registered(s)
  PROVE  Live' \subseteq Nat /\ ssindex' \in [Live' -> Nat] /\ Live' = Live \cup {s}
BY DEF DataOK, Registered, Live, INIT_INDEX

\* A header registers one number, its own or the next of the counter.
LEMMA HeaderNumber ==
  ASSUME DataOK, NEW l \in Links, NEW s \in WireSsids, NEW n, ReadHeader(l, s, n)
  PROVE  /\ ssid \in Nat /\ (ssid' = ssid \/ ssid' = ssid + 1)
         /\ \E t \in Nat : ssindex' = Registered(t)
<1>1. s \in Nat /\ ssid \in Nat
  BY WireAssumption DEF DataOK
<1> QED BY <1>1 DEF ReadHeader

\* Lengths stay lengths.
LEMMA EncodedLenType ==
  ASSUME NEW n \in Nat
  PROVE  MaxEncodedLen(n) \in Nat
BY DEF MaxEncodedLen

\* clearssid removes one session and keeps the types of the tables.
LEMMA ClearedType ==
  ASSUME DataOK, NEW p, NEW s, ClearSsid(p, s)
  PROVE  Live' \subseteq Nat /\ ssindex' \in [Live' -> Nat] /\ Live' = Live \ {s}
BY DEF DataOK, ClearSsid, Live

\* growindex keeps the type of the index table.
LEMMA Incremented ==
  ASSUME NEW S, NEW f \in [S -> Nat], NEW s \in S
  PROVE  [f EXCEPT ![s] = @ + 1] \in [S -> Nat] /\ f[s] + 1 \in Nat
OBVIOUS

\* newCodecMixer makes a state of the right types; its pool fits the free channel.
LEMMA InitType == Init => TypeOK
<1> SUFFICES ASSUME Init PROVE TypeOK
  OBVIOUS
<1>1. ChanTypes
  <2>1. Cardinality(Frames) \in Nat
    BY FramesAssumption, FS_CardinalityType
  <2>2. \A q \in [1..Cardinality(Frames) -> Frames] : q \in Seq(Frames)
    BY <2>1
  <2> QED BY <2>2 DEF Init, ChanTypes, Chans
<1>2. \A p \in Procs : IF p[1] = "encodeLoop" THEN "take" \in Labels[p[1]]
                                             ELSE "idle" \in Labels[p[1]]
  BY DEF Procs, Readers, Waiting, Labels
<1>3. LabelsOK
  <2>1. \A p \in Procs : pc[p] \in Labels[p[1]]
    BY <1>2 DEF Init
  <2> QED BY <2>1, LabelsAll DEF Init, LabelsOK
<1>4. HoldsOK
  BY DEF Init, HoldsOK, Holding
<1>5. DataOK
  BY BoundsAssumption DEF Init, DataOK, Live, FrameType, Room, INIT_SSID, INIT_INDEX,
     Panics
<1>6. LinksOK
  BY DEF Init, LinksOK, WriteLoop, ReadLoop, Procs
<1> QED BY <1>1, <1>3, <1>4, <1>5, <1>6 DEF TypeOK, ChanTypes, DataOK

\* Each action keeps the types. Those that move a frame do so by one of the
\* lemmas above.
LEMMA StepTypes ==
  ASSUME ChanTypes, LabelsOK, LinksOK, HoldsOK, DataOK, [Next]_vars
  PROVE  ChanTypes' /\ LabelsOK' /\ HoldsOK' /\ DataOK'
<1> USE DEF Chans, Holding
<1>1. ASSUME NEW c \in Clients, TakeFree(c)
      PROVE  ChanTypes' /\ LabelsOK' /\ HoldsOK' /\ DataOK'
  <2>1. ChanTypes' /\ LabelsOK' /\ HoldsOK'
    BY <1>1, RecvTypes, ProcsOf, LabelsOf DEF TakeFree, At
  <2>2. DataOK'
    BY <1>1 DEF TakeFree, DataOK, Live, sessions, links
  <2> QED BY <2>1, <2>2
<1>2. ASSUME NEW c \in Clients, ReadNothing(c)
      PROVE  ChanTypes' /\ LabelsOK' /\ HoldsOK' /\ DataOK'
  <2>1. ChanTypes' /\ LabelsOK' /\ HoldsOK'
    BY <1>2, DropTypes, ProcsOf, LabelsOf DEF ReadNothing, At
  <2>2. DataOK'
    <3>1. emptyio' \in [Clients -> 0..MaxEmptyIO]
      BY <1>2, BoundsAssumption DEF ReadNothing, DataOK
    <3> QED BY <1>2, <3>1 DEF ReadNothing, DataOK, Live, sessions, links
  <2> QED BY <2>1, <2>2
<1>3. ASSUME NEW c \in Clients, ReadFail(c)
      PROVE  ChanTypes' /\ LabelsOK' /\ HoldsOK' /\ DataOK'
  <2>1. ChanTypes' /\ LabelsOK' /\ HoldsOK'
    BY <1>3, DropTypes, ProcsOf, LabelsOf DEF ReadFail, At
  <2>2. DataOK'
    BY <1>3 DEF ReadFail, DataOK, Live, sessions, links
  <2> QED BY <2>1, <2>2
<1>4. ASSUME NEW e \in Encoders, TakeEncode(e)
      PROVE  ChanTypes' /\ LabelsOK' /\ HoldsOK' /\ DataOK'
  <2>1. ChanTypes' /\ LabelsOK' /\ HoldsOK'
    BY <1>4, RecvTypes, ProcsOf, LabelsOf DEF TakeEncode, At
  <2>2. DataOK'
    BY <1>4 DEF TakeEncode, DataOK, Live, sessions, links
  <2> QED BY <2>1, <2>2
<1>5. ASSUME NEW l \in Links, SelectFast(l)
      PROVE  ChanTypes' /\ LabelsOK' /\ HoldsOK' /\ DataOK'
  <2>1. ChanTypes' /\ LabelsOK' /\ HoldsOK'
    BY <1>5, RecvTypes, ProcsOf, LabelsOf DEF SelectFast, At
  <2>2. DataOK'
    BY <1>5 DEF SelectFast, DataOK, Live, sessions, links
  <2> QED BY <2>1, <2>2
<1>6. ASSUME NEW l \in Links, SelectDefault(l)
      PROVE  ChanTypes' /\ LabelsOK' /\ HoldsOK' /\ DataOK'
  <2>1. ChanTypes' /\ LabelsOK' /\ HoldsOK'
    BY <1>6, KeepTypes, ProcsOf, LabelsOf DEF SelectDefault, At, links
  <2>2. DataOK'
    BY <1>6 DEF SelectDefault, DataOK, Live, sessions, links
  <2> QED BY <2>1, <2>2
<1>7. ASSUME NEW l \in Links, TakeBulk(l)
      PROVE  ChanTypes' /\ LabelsOK' /\ HoldsOK' /\ DataOK'
  <2>1. ChanTypes' /\ LabelsOK' /\ HoldsOK'
    BY <1>7, RecvTypes, ProcsOf, LabelsOf DEF TakeBulk, At
  <2>2. DataOK'
    BY <1>7 DEF TakeBulk, DataOK, Live, sessions, links
  <2> QED BY <2>1, <2>2
<1>8. ASSUME NEW l \in Links, WriteDone(l)
      PROVE  ChanTypes' /\ LabelsOK' /\ HoldsOK' /\ DataOK'
  <2>1. ChanTypes' /\ LabelsOK' /\ HoldsOK'
    BY <1>8, SendTypes, ProcsOf, LabelsOf DEF WriteDone, At
  <2>2. DataOK'
    <3>1. mf[WriteLoop(l)] \in Frames
      BY <1>8, ProcsOf DEF WriteDone, At, HoldsOK
    <3>2. frame[mf[WriteLoop(l)]] \in FrameType
      BY <3>1 DEF DataOK
    <3>3. delivered' \subseteq Nat \X Nat
      BY <1>8, <3>2 DEF WriteDone, DataOK, FrameType
    <3> QED BY <1>8, <3>3 DEF WriteDone, DataOK, Live, sessions, links
  <2> QED BY <2>1, <2>2
<1>9. ASSUME NEW l \in Links, WriteFail(l)
      PROVE  ChanTypes' /\ LabelsOK' /\ HoldsOK' /\ DataOK'
  <2>1. ChanTypes' /\ LabelsOK' /\ HoldsOK'
    BY <1>9, SendTypes, ProcsOf, LabelsOf DEF WriteFail, At
  <2>2. DataOK'
    BY <1>9 DEF WriteFail, DataOK, Live, sessions, links
  <2> QED BY <2>1, <2>2
<1>10. ASSUME NEW l \in Links, TakeRead(l)
      PROVE  ChanTypes' /\ LabelsOK' /\ HoldsOK' /\ DataOK'
  <2>1. ChanTypes' /\ LabelsOK' /\ HoldsOK'
    BY <1>10, RecvTypes, ProcsOf, LabelsOf DEF TakeRead, At
  <2>2. DataOK'
    BY <1>10 DEF TakeRead, DataOK, Live, sessions, links
  <2> QED BY <2>1, <2>2
<1>11. ASSUME NEW l \in Links, ReadPayload(l)
      PROVE  ChanTypes' /\ LabelsOK' /\ HoldsOK' /\ DataOK'
  <2>1. ChanTypes' /\ LabelsOK' /\ HoldsOK'
    BY <1>11, SendTypes, ProcsOf, LabelsOf DEF ReadPayload, At
  <2>2. DataOK'
    BY <1>11 DEF ReadPayload, DataOK, Live, sessions, links
  <2> QED BY <2>1, <2>2
<1>12. ASSUME NEW l \in Links, ReadLinkFail(l)
      PROVE  ChanTypes' /\ LabelsOK' /\ HoldsOK' /\ DataOK'
  <2>1. ChanTypes' /\ LabelsOK' /\ HoldsOK'
    BY <1>12, SendTypes, ProcsOf, LabelsOf DEF ReadLinkFail, At
  <2>2. DataOK'
    BY <1>12 DEF ReadLinkFail, DataOK, Live, sessions, links
  <2> QED BY <2>1, <2>2
<1>13. ASSUME NEW c \in Clients, StartReadFrom(c)
      PROVE  ChanTypes' /\ LabelsOK' /\ HoldsOK' /\ DataOK'
  <2>1. ChanTypes' /\ LabelsOK' /\ HoldsOK'
    BY <1>13, KeepTypes, ProcsOf, LabelsOf DEF StartReadFrom, At
  <2>2. ssid + 1 \in Nat
    BY DEF DataOK
  <2>3. Live' \subseteq Nat /\ ssindex' \in [Live' -> Nat]
    <3>1. ssindex' = Registered(ssid + 1)
      BY <1>13 DEF StartReadFrom
    <3> QED BY <2>2, <3>1, RegisteredType
  <2>4. sess' \in [Readers \cup Waiting -> Nat] /\ emptyio' \in [Clients -> 0..MaxEmptyIO]
    BY <1>13, <2>2, ProcsOf, BoundsAssumption DEF StartReadFrom, DataOK
  <2>5. DataOK'
    BY <1>13, <2>2, <2>3, <2>4 DEF StartReadFrom, DataOK, links
  <2> QED BY <2>1, <2>5
<1>14. ASSUME NEW c \in Clients, NEW n \in Lengths, NEW last \in BOOLEAN, ReadData(c, n, last)
      PROVE  ChanTypes' /\ LabelsOK' /\ HoldsOK' /\ DataOK'
  <2>1. CASE sess[ReadFrom(c)] \notin Live
    BY <1>14, <2>1 DEF ReadData, ChanTypes, LabelsOK, HoldsOK, DataOK, Live, links, Panics
  <2>2. CASE sess[ReadFrom(c)] \in Live
    <3>1. ChanTypes' /\ LabelsOK' /\ HoldsOK'
      BY <1>14, <2>2, KeepTypes, ProcsOf, LabelsOf DEF ReadData, At
    <3>2. ssindex' \in [Live -> Nat] /\ Live' = Live /\ ssindex[sess[ReadFrom(c)]] + 1 \in Nat
      <4>1. ssindex' = [ssindex EXCEPT ![sess[ReadFrom(c)]] = @ + 1]
        BY <1>14, <2>2 DEF ReadData
      <4>2. ssindex \in [Live -> Nat]
        BY DEF DataOK
      <4>3. ssindex' \in [Live -> Nat] /\ ssindex[sess[ReadFrom(c)]] + 1 \in Nat
        BY <2>2, <4>1, <4>2, Incremented
      <4> QED BY <4>2, <4>3 DEF Live
    <3>3. mf[ReadFrom(c)] \in Frames
      BY <1>14, ProcsOf DEF ReadData, At, HoldsOK
    <3>4. frame' \in [Frames -> FrameType]
      <4>1. sess[ReadFrom(c)] \in Nat /\ n \in Nat
        BY <2>2, LengthsAssumption DEF DataOK
      <4>2. frame[mf[ReadFrom(c)]].cap \in Nat
        BY <3>3 DEF DataOK, FrameType
      <4>3. [ssid |-> sess[ReadFrom(c)], index |-> ssindex[sess[ReadFrom(c)]] + 1,
             origin |-> "client", size |-> n, bodylen |-> n,
             cap |-> frame[mf[ReadFrom(c)]].cap] \in FrameType
        BY <3>2, <4>1, <4>2 DEF FrameType
      <4>4. frame' = [frame EXCEPT ![mf[ReadFrom(c)]] =
              [ssid |-> sess[ReadFrom(c)], index |-> ssindex[sess[ReadFrom(c)]] + 1,
               origin |-> "client", size |-> n, bodylen |-> n,
               cap |-> frame[mf[ReadFrom(c)]].cap]]
        BY <1>14, <2>2 DEF ReadData
      <4> QED BY <3>3, <4>3, <4>4 DEF DataOK
    <3>5. DataOK'
      BY <1>14, <2>2, <3>2, <3>4 DEF ReadData, DataOK, links
    <3> QED BY <3>1, <3>5
  <2> QED BY <2>1, <2>2
<1>15. ASSUME NEW c \in Clients, SendEncode(c)
      PROVE  ChanTypes' /\ LabelsOK' /\ HoldsOK' /\ DataOK'
  <2>1. ChanTypes' /\ LabelsOK' /\ HoldsOK'
    BY <1>15, SendTypes, ProcsOf, LabelsOf DEF SendEncode
  <2>2. DataOK'
    BY <1>15 DEF SendEncode, DataOK, Live, sessions, links
  <2> QED BY <2>1, <2>2
<1>16. ASSUME NEW c \in Clients, ReturnReadFrom(c)
      PROVE  ChanTypes' /\ LabelsOK' /\ HoldsOK' /\ DataOK'
  <2>1. ReadFrom(c) \in Procs /\ pc[ReadFrom(c)] \notin Holding
    BY <1>16, ProcsOf DEF ReturnReadFrom, At
  <2>2. ChanTypes' /\ LabelsOK' /\ HoldsOK'
    BY <1>16, <2>1, ClearTypes, ProcsOf DEF ReturnReadFrom
  <2>3. DataOK'
    BY <1>16, ClearedType DEF ReturnReadFrom, DataOK, Live, links
  <2> QED BY <2>2, <2>3
<1>17. ASSUME NEW w \in Waiters, ReturnWriteTo(w)
      PROVE  ChanTypes' /\ LabelsOK' /\ HoldsOK' /\ DataOK'
  <2>1. WriteTo(w) \in Procs /\ pc[WriteTo(w)] \notin Holding
    BY <1>17, ProcsOf DEF ReturnWriteTo, At
  <2>2. ChanTypes' /\ LabelsOK' /\ HoldsOK'
    BY <1>17, <2>1, ClearTypes, ProcsOf DEF ReturnWriteTo
  <2>3. DataOK'
    BY <1>17, ClearedType DEF ReturnWriteTo, DataOK, Live, links
  <2> QED BY <2>2, <2>3
<1>18. ASSUME NEW w \in Waiters, NEW s \in 1..MaxSsid, StartWriteTo(w, s)
      PROVE  ChanTypes' /\ LabelsOK' /\ HoldsOK' /\ DataOK'
  <2>1. ChanTypes' /\ LabelsOK' /\ HoldsOK'
    BY <1>18, KeepTypes, ProcsOf, LabelsOf DEF StartWriteTo, At
  <2>2. DataOK'
    BY <1>18, ProcsOf, BoundsAssumption DEF StartWriteTo, DataOK, Live, links
  <2> QED BY <2>1, <2>2
<1>19. ASSUME NEW e \in Encoders, Encode(e)
      PROVE  ChanTypes' /\ LabelsOK' /\ HoldsOK' /\ DataOK'
  <2> DEFINE f == frame[mf[EncodeLoop(e)]]
             len == MaxEncodedLen(f.bodylen)
             cap == IF len > f.cap THEN len ELSE f.cap
  <2>1. CASE f.ssid \notin Live \/ ~EncodeOK(f.size, cap)
    BY <1>19, <2>1 DEF Encode, ChanTypes, LabelsOK, HoldsOK, DataOK, Live, sessions, links, Panics
  <2>2. CASE ~(f.ssid \notin Live \/ ~EncodeOK(f.size, cap))
    <3>1. ChanTypes' /\ LabelsOK' /\ HoldsOK'
      BY <1>19, <2>2, SendTypes, ProcsOf, LabelsOf DEF Encode, At, Assembled
    <3>2. mf[EncodeLoop(e)] \in Frames
      BY <1>19, ProcsOf DEF Encode, At, HoldsOK
    <3>3. f \in FrameType
      BY <3>2 DEF DataOK
    <3>4. f.cap \in Nat /\ len \in Nat
      BY <3>3, EncodedLenType DEF FrameType
    <3>6. cap \in Nat
      BY <3>4
    <3>7. frame' = [frame EXCEPT ![mf[EncodeLoop(e)]].cap = cap]
      BY <1>19, <2>2 DEF Encode
    <3>9. UNCHANGED <<ssid, ssindex, sess, mixerCh, open, emptyio, crash, delivered>>
      BY <1>19, <2>2 DEF Encode, sessions, links
    <3> HIDE DEF cap
    <3>8. frame' \in [Frames -> FrameType]
      BY <3>2, <3>6, <3>7 DEF DataOK, FrameType
    <3>5. DataOK'
      BY <3>8, <3>9 DEF DataOK, Live
    <3> QED BY <3>1, <3>5
  <2> QED BY <2>1, <2>2
<1>20. ASSUME NEW l \in Links, AddMixerIO(l)
      PROVE  ChanTypes' /\ LabelsOK' /\ HoldsOK' /\ DataOK'
  <2>1. mixerCh' \in Seq(Links)
    BY <1>20 DEF AddMixerIO, DataOK
  <2> QED BY <1>20, <2>1 DEF AddMixerIO, ChanTypes, LabelsOK, HoldsOK, DataOK, Live, sessions
<1>21. ASSUME RunReadWriter
      PROVE  ChanTypes' /\ LabelsOK' /\ HoldsOK' /\ DataOK'
  <2> DEFINE l == Head(mixerCh)
  <2>1. l \in Links /\ mixerCh' \in Seq(Links)
    BY <1>21, SeqFacts DEF RunReadWriter, DataOK
  <2> HIDE DEF l
  <2>2. WriteLoop(l) \in Procs /\ ReadLoop(l) \in Procs /\ WriteLoop(l) # ReadLoop(l)
    BY <2>1, ProcsOf DEF WriteLoop, ReadLoop
  <2>3. pc' = [pc EXCEPT ![WriteLoop(l)] = "select", ![ReadLoop(l)] = "take"]
    BY <1>21 DEF RunReadWriter, l
  <2>4. "select" \in Labels[WriteLoop(l)[1]] /\ "take" \in Labels[ReadLoop(l)[1]]
    BY <2>1, LabelsOf
  <2>5. LabelsOK'
    BY <2>2, <2>3, <2>4, LabelsAll DEF LabelsOK
  <2>6. HoldsOK'
    <3>1. 1 \in DOMAIN mixerCh /\ mixerCh[1] = l
      BY <1>21 DEF RunReadWriter, DataOK, l
    <3>2. pc[WriteLoop(l)] = "idle" /\ pc[ReadLoop(l)] = "idle"
      BY <2>1, <3>1 DEF LinksOK
    <3>3. mf' = mf
      BY <1>21 DEF RunReadWriter
    <3> QED BY <2>2, <2>3, <3>2, <3>3 DEF HoldsOK, LabelsOK
  <2>7. DataOK'
    BY <1>21, <2>1 DEF RunReadWriter, DataOK, Live, sessions, l
  <2> QED BY <1>21, <2>5, <2>6, <2>7 DEF RunReadWriter, ChanTypes
<1>22. ASSUME NEW l \in Links, NEW s \in WireSsids, NEW n \in Lengths, ReadHeader(l, s, n)
      PROVE  ChanTypes' /\ LabelsOK' /\ HoldsOK' /\ DataOK'
  <2>1. ChanTypes' /\ LabelsOK' /\ HoldsOK'
    BY <1>22, KeepTypes, ProcsOf, LabelsOf DEF ReadHeader, At
  <2>2. mf[ReadLoop(l)] \in Frames
    BY <1>22, ProcsOf DEF ReadHeader, At, HoldsOK
  <2>3. s \in Nat /\ n \in Nat
    BY WireAssumption, LengthsAssumption
  <2>4. frame' \in [Frames -> FrameType]
    BY <1>22, <2>2, <2>3 DEF ReadHeader, DataOK, FrameType
  <2>6. ssid' \in Nat /\ Live' \subseteq Nat /\ ssindex' \in [Live' -> Nat]
    BY <1>22, HeaderNumber, RegisteredType
  <2>5. DataOK'
    BY <1>22, <2>4, <2>6 DEF ReadHeader, DataOK, links
  <2> QED BY <2>1, <2>5
<1>23. ASSUME NEW l \in Links, ReadBadHeader(l)
      PROVE  ChanTypes' /\ LabelsOK' /\ HoldsOK' /\ DataOK'
  BY <1>23 DEF ReadBadHeader, ChanTypes, LabelsOK, HoldsOK, DataOK, Live, sessions, links, Panics
<1>24. ASSUME NEW l \in Links, ReadBadPayload(l)
      PROVE  ChanTypes' /\ LabelsOK' /\ HoldsOK' /\ DataOK'
  BY <1>24 DEF ReadBadPayload, ChanTypes, LabelsOK, HoldsOK, DataOK, Live, sessions, links, Panics
<1>25. CASE UNCHANGED vars
  BY <1>25 DEF vars, ChanTypes, LabelsOK, HoldsOK, DataOK, Live
<1> QED
  BY <1>1, <1>2, <1>3, <1>4, <1>5, <1>6, <1>7, <1>8, <1>9, <1>10, <1>11, <1>12, <1>13, <1>14, <1>15, <1>16, <1>17, <1>18, <1>19, <1>20, <1>21, <1>22, <1>23, <1>24, <1>25
  DEF Next, ClientStep, WaiterStep, EncoderStep, WriterStep, ReaderStep

\* Only RunReadWriter starts the goroutines of a link, and no step stops them.
LEMMA StepLinks ==
  ASSUME LabelsOK, LinksOK, DataOK, [Next]_vars
  PROVE  LinksOK'
<1> DEFINE SameIdle == \A l \in Links :
             /\ pc'[WriteLoop(l)] = "idle" <=> pc[WriteLoop(l)] = "idle"
             /\ pc'[ReadLoop(l)] = "idle" <=> pc[ReadLoop(l)] = "idle"
<1>1. ASSUME SameIdle, UNCHANGED mixerCh
      PROVE  LinksOK'
  <2>1. \A i \in DOMAIN mixerCh : mixerCh[i] \in Links
    BY DEF DataOK
  <2> QED BY <1>1, <2>1 DEF LinksOK
<1>2. ASSUME NEW c \in Clients, ClientStep(c)
      PROVE  LinksOK'
  <2>1. SameIdle /\ UNCHANGED mixerCh
    <3>1. \A l \in Links : WriteLoop(l) # ReadFrom(c) /\ ReadLoop(l) # ReadFrom(c)
                         /\ WriteLoop(l) \notin Waiting /\ ReadLoop(l) \notin Waiting
      BY DEF WriteLoop, ReadLoop, ReadFrom, Waiting
    <3> QED
      BY <1>2, <3>1, ProcsOf
      DEF ClientStep, StartReadFrom, TakeFree, ReadNothing, ReadFail, ReadData, SendEncode,
          ReturnReadFrom, ClearSsid, Goto, LabelsOK, links
  <2> QED BY <1>1, <2>1
<1>3. ASSUME NEW w \in Waiters, WaiterStep(w)
      PROVE  LinksOK'
  <2>1. SameIdle /\ UNCHANGED mixerCh
    <3>1. \A l \in Links : WriteLoop(l) \notin Waiting /\ ReadLoop(l) \notin Waiting
      BY DEF WriteLoop, ReadLoop, Waiting
    <3> QED
      BY <1>3, <3>1, ProcsOf
      DEF WaiterStep, StartWriteTo, ReturnWriteTo, ClearSsid, Goto, LabelsOK, links
  <2> QED BY <1>1, <2>1
<1>4. ASSUME NEW e \in Encoders, EncoderStep(e)
      PROVE  LinksOK'
  <2>1. \A l \in Links : WriteLoop(l) # EncodeLoop(e) /\ ReadLoop(l) # EncodeLoop(e)
    BY DEF WriteLoop, ReadLoop, EncodeLoop
  <2>2. SameIdle /\ UNCHANGED mixerCh
    BY <1>4, <2>1, ProcsOf DEF EncoderStep, TakeEncode, Encode, Goto, LabelsOK, links
  <2> QED BY <1>1, <2>2
<1>5. ASSUME NEW l \in Links, WriterStep(l)
      PROVE  LinksOK'
  <2>1. \A m \in Links : ReadLoop(m) # WriteLoop(l) /\ (WriteLoop(m) = WriteLoop(l) => m = l)
    BY DEF WriteLoop, ReadLoop
  <2>2. pc[WriteLoop(l)] # "idle" /\ pc'[WriteLoop(l)] # "idle"
    BY <1>5, ProcsOf
    DEF WriterStep, SelectFast, SelectDefault, TakeBulk, WriteDone, WriteFail,
        Goto, At, LabelsOK
  <2>3. \A p \in Procs : p # WriteLoop(l) => pc'[p] = pc[p]
    BY <1>5
    DEF WriterStep, SelectFast, SelectDefault, TakeBulk, WriteDone, WriteFail,
        Goto, LabelsOK
  <2>4. UNCHANGED mixerCh
    BY <1>5
    DEF WriterStep, SelectFast, SelectDefault, TakeBulk, WriteDone, WriteFail,
        links
  <2> QED BY <1>1, <2>1, <2>2, <2>3, <2>4, ProcsOf
<1>6. ASSUME NEW l \in Links, ReaderStep(l)
      PROVE  LinksOK'
  <2>1. \A m \in Links : WriteLoop(m) # ReadLoop(l) /\ (ReadLoop(m) = ReadLoop(l) => m = l)
    BY DEF WriteLoop, ReadLoop
  <2>2. pc[ReadLoop(l)] # "idle" /\ pc'[ReadLoop(l)] # "idle"
    BY <1>6, ProcsOf
    DEF ReaderStep, TakeRead, ReadHeader, ReadBadHeader, ReadPayload, ReadBadPayload, ReadLinkFail,
        Goto, At, LabelsOK
  <2>3. \A p \in Procs : p # ReadLoop(l) => pc'[p] = pc[p]
    BY <1>6
    DEF ReaderStep, TakeRead, ReadHeader, ReadBadHeader, ReadPayload, ReadBadPayload, ReadLinkFail,
        Goto, LabelsOK
  <2>4. UNCHANGED mixerCh
    BY <1>6
    DEF ReaderStep, TakeRead, ReadHeader, ReadBadHeader, ReadPayload, ReadBadPayload, ReadLinkFail,
        links
  <2> QED BY <1>1, <2>1, <2>2, <2>3, <2>4, ProcsOf
<1>7. ASSUME NEW l \in Links, AddMixerIO(l)
      PROVE  LinksOK'
  <2>1. mixerCh \in Seq(Links) /\ mixerCh' = Append(mixerCh, l) /\ pc' = pc
    BY <1>7 DEF AddMixerIO, DataOK
  <2>2. pc[WriteLoop(l)] = "idle" /\ \A i \in DOMAIN mixerCh : mixerCh[i] # l
    BY <1>7 DEF AddMixerIO, At
  <2>3. /\ DOMAIN mixerCh' = DOMAIN mixerCh \cup {Len(mixerCh) + 1}
        /\ mixerCh'[Len(mixerCh) + 1] = l
        /\ \A i \in DOMAIN mixerCh : mixerCh'[i] = mixerCh[i] /\ i # Len(mixerCh) + 1
    BY <2>1
  <2> QED BY <2>1, <2>2, <2>3 DEF LinksOK
<1>8. ASSUME RunReadWriter
      PROVE  LinksOK'
  <2> DEFINE l == Head(mixerCh)
  <2>1. mixerCh \in Seq(Links) /\ mixerCh # <<>> /\ mixerCh' = Tail(mixerCh)
    BY <1>8 DEF RunReadWriter, DataOK
  <2>2. /\ l \in Links /\ 1 \in DOMAIN mixerCh /\ mixerCh[1] = l
        /\ \A i \in DOMAIN mixerCh' : /\ i + 1 \in DOMAIN mixerCh /\ i + 1 # 1
                                     /\ mixerCh'[i] = mixerCh[i + 1]
        /\ \A i, j \in DOMAIN mixerCh' : i + 1 = j + 1 => i = j
    BY <2>1
  <2>3. \A i \in DOMAIN mixerCh : mixerCh[i] \in Links
    BY <2>1
  <2>4. pc' = [pc EXCEPT ![WriteLoop(l)] = "select", ![ReadLoop(l)] = "take"]
    BY <1>8 DEF RunReadWriter
  <2> HIDE DEF l
  <2>5. \A m, k \in Links : /\ WriteLoop(m) # ReadLoop(k)
                            /\ WriteLoop(m) = WriteLoop(k) => m = k
                            /\ ReadLoop(m) = ReadLoop(k) => m = k
    BY DEF WriteLoop, ReadLoop
  <2>6. /\ pc'[WriteLoop(l)] = "select" /\ pc'[ReadLoop(l)] = "take"
        /\ \A p \in Procs : p # WriteLoop(l) /\ p # ReadLoop(l) => pc'[p] = pc[p]
    BY <2>2, <2>4, <2>5, ProcsOf DEF LabelsOK
  <2>7. ASSUME NEW m \in Links, m # l
        PROVE  pc'[WriteLoop(m)] = pc[WriteLoop(m)] /\ pc'[ReadLoop(m)] = pc[ReadLoop(m)]
    <3>1. WriteLoop(m) # WriteLoop(l) /\ WriteLoop(m) # ReadLoop(l)
      BY <2>7 DEF WriteLoop, ReadLoop
    <3>2. ReadLoop(m) # WriteLoop(l) /\ ReadLoop(m) # ReadLoop(l)
      BY <2>7 DEF WriteLoop, ReadLoop
    <3> QED BY <2>6, <3>1, <3>2, ProcsOf
  <2>8. \A i \in DOMAIN mixerCh' : mixerCh'[i] \in Links /\ mixerCh'[i] # l
    BY <2>2, <2>3 DEF LinksOK
  <2>9. \A i, j \in DOMAIN mixerCh' : mixerCh'[i] = mixerCh'[j] => i = j
    BY <2>2 DEF LinksOK
  <2>10. \A i \in DOMAIN mixerCh' : pc'[WriteLoop(mixerCh'[i])] = "idle"
    BY <2>2, <2>7, <2>8 DEF LinksOK
  <2>11. \A m \in Links : pc'[WriteLoop(m)] = "idle" <=> pc'[ReadLoop(m)] = "idle"
    BY <2>6, <2>7 DEF LinksOK
  <2> QED BY <2>9, <2>10, <2>11 DEF LinksOK
<1>9. CASE UNCHANGED vars
  BY <1>1, <1>9 DEF vars
<1> QED
  BY <1>2, <1>3, <1>4, <1>5, <1>6, <1>7, <1>8, <1>9 DEF Next

\* For every pool, set of goroutines and bound, the state of the mixer keeps its
\* types: each goroutine is at one of its statements, holds a frame exactly
\* between a receive and a send, and a link is started at most once.
THEOREM TypeCorrect == Spec => []TypeOK
<1>1. Init => TypeOK
  BY InitType
<1>2. TypeOK /\ [Next]_vars => TypeOK'
  BY StepTypes, StepLinks DEF TypeOK, ChanTypes, DataOK
<1> QED BY <1>1, <1>2, PTL DEF Spec

-----------------------------------------------------------------------------
(* Sessions: a ReadFrom in progress keeps its session.                     *)

\* No step but the starts and the returns touches what SessionInv relates.
LEMMA SessionsKept ==
  ASSUME SessionInv, UNCHANGED <<ssid, sess>>, Live \subseteq Live',
         \A c \in Clients : Active(c)' => Active(c),
         \A w \in Waiters : pc'[WriteTo(w)] = "closed" => pc[WriteTo(w)] = "closed"
  PROVE  SessionInv'
BY DEF SessionInv, OwnSession, DistinctSessions

\* The same for a step that may advance the counter: numbers in use stay below.
LEMMA SessionsBelow ==
  ASSUME DataOK, SessionInv, UNCHANGED sess, ssid' = ssid \/ ssid' = ssid + 1,
         Live \subseteq Live',
         \A c \in Clients : Active(c)' => Active(c),
         \A w \in Waiters : pc'[WriteTo(w)] = "closed" => pc[WriteTo(w)] = "closed"
  PROVE  SessionInv'
<1>1. /\ ssid \in Nat /\ \A c \in Clients : sess[ReadFrom(c)] \in Nat
      /\ \A w \in Waiters : sess[WriteTo(w)] \in Nat
  BY ProcsOf DEF DataOK
<1>2. OwnSession' /\ DistinctSessions'
  BY DEF SessionInv, OwnSession, DistinctSessions
<1>3. \A c \in Clients : Active(c)' => sess'[ReadFrom(c)] <= ssid'
  BY <1>1 DEF SessionInv
<1>4. ASSUME NEW w \in Waiters, pc'[WriteTo(w)] = "closed"
      PROVE  /\ sess'[WriteTo(w)] <= ssid'
             /\ \A c \in Clients : Active(c)' => sess'[ReadFrom(c)] # sess'[WriteTo(w)]
  BY <1>1, <1>4 DEF SessionInv
<1> QED BY <1>2, <1>3, <1>4 DEF SessionInv

\* p, which no longer needs session s, clears it; nobody else's is s.
LEMMA SessionsCleared ==
  ASSUME LabelsOK, SessionInv, UNCHANGED <<ssid, sess>>,
         NEW p \in Readers \cup Waiting, NEW s \in Nat, sess[p] = s, s <= ssid,
         ClearSsid(p, s), Live' = Live \ {s},
         \A c \in Clients : Active(c) /\ ReadFrom(c) # p => sess[ReadFrom(c)] # s
  PROVE  SessionInv'
<1>1. p \in Procs /\ pc'[p] = "idle"
  BY DEF Readers, Waiting, Procs, ClearSsid
<1>2. \A c \in Clients : ReadFrom(c) \in Procs /\ ReadFrom(c) \notin Waiting
  BY ProcsOf DEF ReadFrom, Waiting
<1>3. \A c \in Clients : Active(c)' => Active(c) /\ ReadFrom(c) # p
  BY <1>1, <1>2 DEF Active, ClearSsid
<1>4. OwnSession' /\ DistinctSessions'
  BY <1>3 DEF SessionInv, OwnSession, DistinctSessions
<1>5. \A c \in Clients : Active(c)' => sess'[ReadFrom(c)] <= ssid'
  BY <1>3 DEF SessionInv
<1>6. ASSUME NEW w \in Waiters, pc'[WriteTo(w)] = "closed"
      PROVE  /\ sess'[WriteTo(w)] <= ssid'
             /\ \A c \in Clients : Active(c)' => sess'[ReadFrom(c)] # sess'[WriteTo(w)]
  <2>1. pc[WriteTo(w)] = "closed" \/ sess[WriteTo(w)] = s
    BY <1>1, <1>6, ProcsOf DEF ClearSsid
  <2>2. CASE pc[WriteTo(w)] = "closed"
    BY <1>3, <2>2 DEF SessionInv
  <2>3. CASE sess[WriteTo(w)] = s
    BY <1>3, <2>3
  <2> QED BY <2>1, <2>2, <2>3
<1> QED BY <1>4, <1>5, <1>6 DEF SessionInv

\* Before any ReadFrom nobody shares a session.
LEMMA InitSession == Init => SessionInv
<1> SUFFICES ASSUME Init PROVE SessionInv
  OBVIOUS
<1>1. \A c \in Clients : ~Active(c)
  BY ProcsOf DEF Init, Active, ReadFrom
<1>2. \A w \in Waiters : pc[WriteTo(w)] = "idle"
  BY ProcsOf DEF Init, WriteTo
<1> QED BY <1>1, <1>2 DEF SessionInv, OwnSession, DistinctSessions

\* Every step of every goroutine keeps SessionInv.
LEMMA StepSession ==
  ASSUME TypeOK, SessionInv, [Next]_vars
  PROVE  SessionInv'
<1>0. DataOK /\ LabelsOK
  BY DEF TypeOK, DataOK
<1>1. \A c \in Clients, w \in Waiters : ReadFrom(c) # WriteTo(w)
  BY DEF ReadFrom, WriteTo
\* A new session has a number above every number in use.
<1>2. ASSUME NEW c \in Clients, StartReadFrom(c)
      PROVE  SessionInv'
  <2>1. ssid \in Nat /\ ssid' = ssid + 1 /\ Live' = Live \cup {ssid'}
    BY <1>0, <1>2, RegisteredType DEF StartReadFrom, DataOK
  <2>2. sess' = [sess EXCEPT ![ReadFrom(c)] = ssid']
    BY <1>2 DEF StartReadFrom
  <2>3. \A d \in Clients : d # c => /\ Active(d)' <=> Active(d)
                                  /\ sess'[ReadFrom(d)] = sess[ReadFrom(d)]
    BY <1>2, <2>2 DEF StartReadFrom, Goto, Active, ReadFrom
  <2>4. \A w \in Waiters : /\ pc'[WriteTo(w)] = pc[WriteTo(w)]
                          /\ sess'[WriteTo(w)] = sess[WriteTo(w)]
    BY <1>1, <1>2, <2>2 DEF StartReadFrom, Goto
  <2>5. sess'[ReadFrom(c)] = ssid'
    BY <1>0, <2>2, ProcsOf DEF DataOK
  <2>6. \A d \in Clients : sess[ReadFrom(d)] \in Nat
    BY <1>0, ProcsOf DEF DataOK
  <2>7. \A w \in Waiters : sess[WriteTo(w)] \in Nat
    BY <1>0, ProcsOf DEF DataOK
  <2>8. \A d \in Clients : Active(d)' /\ d # c => sess'[ReadFrom(d)] <= ssid
    BY <2>3 DEF SessionInv
  <2>9. OwnSession'
    BY <2>1, <2>3, <2>5 DEF SessionInv, OwnSession
  <2>10. DistinctSessions'
    BY <2>1, <2>3, <2>5, <2>6, <2>8 DEF SessionInv, DistinctSessions
  <2>11. \A d \in Clients : Active(d)' => sess'[ReadFrom(d)] <= ssid'
    BY <2>1, <2>3, <2>5, <2>6, <2>8
  <2>12. ASSUME NEW w \in Waiters, pc'[WriteTo(w)] = "closed"
         PROVE  /\ sess'[WriteTo(w)] <= ssid'
                /\ \A d \in Clients : Active(d)' => sess'[ReadFrom(d)] # sess'[WriteTo(w)]
    <3>1. /\ sess[WriteTo(w)] <= ssid
          /\ \A d \in Clients : Active(d) => sess[ReadFrom(d)] # sess[WriteTo(w)]
      BY <2>4, <2>12 DEF SessionInv
    <3> QED BY <2>1, <2>3, <2>4, <2>5, <2>7, <3>1
  <2> QED BY <2>9, <2>10, <2>11, <2>12 DEF SessionInv
<1>3. ASSUME NEW c \in Clients, ReturnReadFrom(c)
      PROVE  SessionInv'
  <2>1. Active(c) /\ sess[ReadFrom(c)] \in Nat
    BY <1>0, <1>3, ProcsOf DEF ReturnReadFrom, At, Active, DataOK
  <2>2. \A d \in Clients : Active(d) /\ ReadFrom(d) # ReadFrom(c)
                          => sess[ReadFrom(d)] # sess[ReadFrom(c)]
    BY <2>1 DEF SessionInv, DistinctSessions
  <2>3. sess[ReadFrom(c)] <= ssid
    BY <2>1 DEF SessionInv
  <2>4. Live' = Live \ {sess[ReadFrom(c)]}
    BY <1>0, <1>3, ClearedType DEF ReturnReadFrom
  <2> QED
    BY <1>0, <1>3, <2>1, <2>2, <2>3, <2>4, SessionsCleared, ProcsOf DEF ReturnReadFrom
<1>4. ASSUME NEW w \in Waiters, NEW s \in 1..MaxSsid, StartWriteTo(w, s)
      PROVE  SessionInv'
  <2>1. \A c \in Clients : Active(c)' = Active(c) /\ sess'[ReadFrom(c)] = sess[ReadFrom(c)]
    BY <1>1, <1>4 DEF StartWriteTo, Goto, Active
  <2>2. pc'[WriteTo(w)] # "closed"
    BY <1>0, <1>4, ProcsOf DEF StartWriteTo, Goto, LabelsOK
  <2>3. \A v \in Waiters : v # w => /\ pc'[WriteTo(v)] = pc[WriteTo(v)]
                                  /\ sess'[WriteTo(v)] = sess[WriteTo(v)]
    BY <1>4 DEF StartWriteTo, Goto, WriteTo
  <2>4. UNCHANGED <<ssid, ssindex>>
    BY <1>4 DEF StartWriteTo
  <2> QED
    BY <2>1, <2>2, <2>3, <2>4 DEF SessionInv, OwnSession, DistinctSessions, Live
<1>5. ASSUME NEW w \in Waiters, ReturnWriteTo(w)
      PROVE  SessionInv'
  <2>1. pc[WriteTo(w)] = "closed" /\ sess[WriteTo(w)] \in Nat
    BY <1>0, <1>5, ProcsOf DEF ReturnWriteTo, At, DataOK
  <2>2. /\ sess[WriteTo(w)] <= ssid
        /\ \A c \in Clients : Active(c) => sess[ReadFrom(c)] # sess[WriteTo(w)]
    BY <2>1 DEF SessionInv
  <2>3. Live' = Live \ {sess[WriteTo(w)]}
    BY <1>0, <1>5, ClearedType DEF ReturnWriteTo
  <2> QED
    BY <1>0, <1>5, <2>1, <2>2, <2>3, SessionsCleared, ProcsOf DEF ReturnWriteTo
\* The other steps leave the counter and the numbers alone, and start nobody.
<1>6. ASSUME UNCHANGED <<ssid, sess>>, Live \subseteq Live',
             NEW p \in Procs, \A q \in Procs : q # p => pc'[q] = pc[q],
             p \in Readers => pc[p] # "idle", p \notin Waiting
      PROVE  SessionInv'
  <2>1. \A c \in Clients : Active(c)' => Active(c)
    BY <1>6, ProcsOf DEF Active
  <2>2. \A w \in Waiters : pc'[WriteTo(w)] = pc[WriteTo(w)]
    BY <1>6, ProcsOf
  <2> QED BY <1>6, <2>1, <2>2, SessionsKept
<1>7. ASSUME UNCHANGED <<ssid, sess, pc>>, Live \subseteq Live'
      PROVE  SessionInv'
  BY <1>7, SessionsKept DEF Active
<1>8. ASSUME NEW c \in Clients,
             \/ TakeFree(c) \/ ReadNothing(c) \/ ReadFail(c) \/ SendEncode(c)
             \/ \E n \in Lengths, last \in BOOLEAN : ReadData(c, n, last)
      PROVE  SessionInv'
  <2>1. ReadFrom(c) \in Procs /\ pc[ReadFrom(c)] # "idle" /\ ReadFrom(c) \notin Waiting
    BY <1>8, ProcsOf
    DEF TakeFree, ReadNothing, ReadFail, SendEncode, ReadData, At, ReadFrom, Waiting
  <2>2. /\ UNCHANGED <<ssid, sess>> /\ Live \subseteq Live'
        /\ \A q \in Procs : q # ReadFrom(c) => pc'[q] = pc[q]
    BY <1>0, <1>8
    DEF TakeFree, ReadNothing, ReadFail, SendEncode, ReadData, Goto, sessions, Live, LabelsOK
  <2> QED BY <1>6, <2>1, <2>2
<1>9. ASSUME NEW e \in Encoders, EncoderStep(e)
      PROVE  SessionInv'
  <2>1. EncodeLoop(e) \in Procs \ (Readers \cup Waiting)
    BY ProcsOf DEF EncodeLoop, Readers, Waiting
  <2>2. /\ UNCHANGED <<ssid, sess>> /\ Live \subseteq Live'
        /\ \A q \in Procs : q # EncodeLoop(e) => pc'[q] = pc[q]
    BY <1>0, <1>9 DEF EncoderStep, TakeEncode, Encode, Goto, sessions, Live, LabelsOK
  <2> QED BY <1>6, <2>1, <2>2
<1>10. ASSUME NEW l \in Links, WriterStep(l)
      PROVE  SessionInv'
  <2>1. WriteLoop(l) \in Procs \ (Readers \cup Waiting)
    BY ProcsOf DEF WriteLoop, Readers, Waiting
  <2>2. /\ UNCHANGED <<ssid, sess>> /\ Live \subseteq Live'
        /\ \A q \in Procs : q # WriteLoop(l) => pc'[q] = pc[q]
    BY <1>0, <1>10
    DEF WriterStep, SelectFast, SelectDefault, TakeBulk, WriteDone, WriteFail, Goto, sessions,
        Live, LabelsOK
  <2> QED BY <1>6, <2>1, <2>2
<1>11. ASSUME NEW l \in Links, ReaderStep(l)
      PROVE  SessionInv'
  <2>1. ReadLoop(l) \in Procs \ (Readers \cup Waiting)
    BY ProcsOf DEF ReadLoop, Readers, Waiting
  <2>2. ASSUME NEW s \in WireSsids, NEW n \in Lengths, ReadHeader(l, s, n)
        PROVE  SessionInv'
    <3>1. Live \subseteq Live' /\ (ssid' = ssid \/ ssid' = ssid + 1) /\ UNCHANGED sess
      BY <1>0, <2>2, HeaderNumber, RegisteredType DEF ReadHeader
    <3>2. \A q \in Procs : q # ReadLoop(l) => pc'[q] = pc[q]
      BY <1>0, <2>2 DEF ReadHeader, Goto, LabelsOK
    <3>3. /\ \A c \in Clients : pc'[ReadFrom(c)] = pc[ReadFrom(c)]
          /\ \A w \in Waiters : pc'[WriteTo(w)] = pc[WriteTo(w)]
      BY <3>2, ProcsOf DEF ReadFrom, WriteTo, ReadLoop
    <3> QED BY <1>0, <3>1, <3>3, SessionsBelow DEF Active
  <2>3. CASE \/ TakeRead(l) \/ ReadBadHeader(l) \/ ReadPayload(l) \/ ReadBadPayload(l)
             \/ ReadLinkFail(l)
    <3>1. /\ UNCHANGED <<ssid, sess>> /\ Live \subseteq Live'
          /\ \A q \in Procs : q # ReadLoop(l) => pc'[q] = pc[q]
      BY <1>0, <2>3
      DEF TakeRead, ReadBadHeader, ReadPayload, ReadBadPayload, ReadLinkFail, Goto, sessions,
          Live, LabelsOK
    <3> QED BY <1>6, <2>1, <3>1
  <2> QED BY <1>11, <2>2, <2>3 DEF ReaderStep
<1>12. ASSUME NEW l \in Links, AddMixerIO(l)
      PROVE  SessionInv'
  BY <1>7, <1>12 DEF AddMixerIO, sessions, Live
<1>13. ASSUME RunReadWriter
      PROVE  SessionInv'
  <2> DEFINE l == Head(mixerCh)
  <2>1. UNCHANGED <<ssid, sess, ssindex>>
    BY <1>13 DEF RunReadWriter, sessions
  <2>2. \A q \in Procs : q # WriteLoop(l) /\ q # ReadLoop(l) => pc'[q] = pc[q]
    BY <1>0, <1>13 DEF RunReadWriter, LabelsOK
  <2>3. \A c \in Clients : pc'[ReadFrom(c)] = pc[ReadFrom(c)]
    BY <2>2, ProcsOf DEF ReadFrom, WriteLoop, ReadLoop
  <2>4. \A w \in Waiters : pc'[WriteTo(w)] = pc[WriteTo(w)]
    BY <2>2, ProcsOf DEF WriteTo, WriteLoop, ReadLoop
  <2> QED BY <2>1, <2>3, <2>4, SessionsKept DEF Active, Live
<1>14. CASE UNCHANGED vars
  BY <1>7, <1>14 DEF vars, Live
<1> QED
  BY <1>2, <1>3, <1>4, <1>5, <1>8, <1>9, <1>10, <1>11, <1>12, <1>13, <1>14
  DEF Next, ClientStep, WaiterStep

\* No clearssid takes the session of a ReadFrom in progress away, and no two of
\* them share a session, whatever ids peers put into their headers.
THEOREM SessionsOwned == Spec => [](OwnSession /\ DistinctSessions)
<1>1. Init => TypeOK /\ SessionInv
  BY InitType, InitSession
<1>2. TypeOK /\ SessionInv /\ [Next]_vars => TypeOK' /\ SessionInv'
  BY StepTypes, StepLinks, StepSession DEF TypeOK, ChanTypes, DataOK
<1>3. SessionInv => OwnSession /\ DistinctSessions
  BY DEF SessionInv
<1> QED BY <1>1, <1>2, <1>3, PTL DEF Spec

-----------------------------------------------------------------------------
(* Every mixerFrame has one owner, so no channel can fill up and no        *)
(* goroutine that holds a frame ever blocks in a send.                     *)

\* The slots of a channel after a receive.
LEMMA TailFacts ==
  ASSUME NEW S, NEW s \in Seq(S), s # <<>>
  PROVE  /\ 1 \in DOMAIN s /\ Head(s) = s[1]
         /\ \A i \in DOMAIN Tail(s) : i + 1 \in DOMAIN s /\ i + 1 # 1 /\ Tail(s)[i] = s[i + 1]
         /\ DOMAIN Tail(s) \subseteq Int
OBVIOUS

\* The slots of a channel after a send.
LEMMA AppendFacts ==
  ASSUME NEW S, NEW s \in Seq(S), NEW x \in S
  PROVE  /\ DOMAIN Append(s, x) = DOMAIN s \cup {Len(s) + 1}
         /\ Len(s) + 1 \notin DOMAIN s
         /\ Append(s, x)[Len(s) + 1] = x
         /\ \A i \in DOMAIN s : Append(s, x)[i] = s[i]
OBVIOUS

\* SingleOwner, slot by slot.
LEMMA OwnerFacts ==
  SingleOwner <=>
    /\ \A a, b \in Chans : \A i \in DOMAIN ch[a], j \in DOMAIN ch[b] :
         ch[a][i] = ch[b][j] => a = b /\ i = j
    /\ \A p, q \in Procs : mf[p] = mf[q] /\ mf[p] # NoFrame => p = q
    /\ \A p \in Procs, a \in Chans : \A i \in DOMAIN ch[a] : ch[a][i] # mf[p]
BY DEF SingleOwner, InChan

\* The head of a channel moves to a goroutine that holds nothing.
LEMMA RecvOwner ==
  ASSUME ChanTypes, HoldsOK, SingleOwner, NEW p \in Procs, NEW a \in Chans,
         mf[p] = NoFrame, Recv(p, a)
  PROVE  SingleOwner'
<1> DEFINE x == ch[a][1]
           Old(b, i) == IF b = a THEN i + 1 ELSE i
<1>1. ch[a] \in Seq(Frames) /\ ch[a] # <<>>
  BY DEF Recv, ChanTypes
<1>2. /\ 1 \in DOMAIN ch[a] /\ x \in Frames
      /\ ch'[a] = Tail(ch[a]) /\ \A b \in Chans : b # a => ch'[b] = ch[b]
      /\ mf' = [mf EXCEPT ![p] = x]
  BY <1>1, TailFacts DEF Recv, ChanTypes
\* Every slot that is left held the same frame before, and was not the head.
<1>3. ASSUME NEW b \in Chans, NEW i \in DOMAIN ch'[b]
      PROVE  /\ Old(b, i) \in DOMAIN ch[b] /\ ch'[b][i] = ch[b][Old(b, i)]
             /\ ~(b = a /\ Old(b, i) = 1)
             /\ b = a => i \in Int
  <2>1. CASE b = a
    <3>1. i \in DOMAIN Tail(ch[a]) /\ ch'[b][i] = Tail(ch[a])[i]
      BY <1>2, <1>3, <2>1
    <3>2. /\ i + 1 \in DOMAIN ch[a] /\ i + 1 # 1 /\ Tail(ch[a])[i] = ch[a][i + 1]
          /\ i \in Int
      BY <1>1, <3>1, TailFacts
    <3> QED BY <2>1, <3>1, <3>2
  <2>2. CASE b # a
    BY <1>2, <1>3, <2>2
  <2> QED BY <2>1, <2>2
<1>4. ASSUME NEW b \in Chans, NEW c \in Chans, NEW i \in DOMAIN ch'[b], NEW j \in DOMAIN ch'[c],
             ch'[b][i] = ch'[c][j]
      PROVE  b = c /\ i = j
  <2>1. ch[b][Old(b, i)] = ch[c][Old(c, j)]
    BY <1>3, <1>4
  <2>2. b = c /\ Old(b, i) = Old(c, j)
    <3>1. Old(b, i) \in DOMAIN ch[b] /\ Old(c, j) \in DOMAIN ch[c]
      BY <1>3
    <3> HIDE DEF Old
    <3> QED BY <2>1, <3>1 DEF SingleOwner
  <2> QED BY <1>3, <2>2
<1>5. \A b \in Chans : \A i \in DOMAIN ch'[b] : ch'[b][i] # x
  <2> HIDE DEF Old
  <2> QED BY <1>2, <1>3, OwnerFacts
<1>6. \A q \in Procs : q # p => mf'[q] = mf[q] /\ mf[q] # x
  BY <1>2, OwnerFacts DEF HoldsOK
<1>7. mf'[p] = x
  BY <1>2 DEF HoldsOK
<1>8. \A q \in Procs : \A b \in Chans : \A i \in DOMAIN ch'[b] : ch'[b][i] # mf'[q]
  <2> SUFFICES ASSUME NEW q \in Procs, NEW b \in Chans, NEW i \in DOMAIN ch'[b]
               PROVE  ch'[b][i] # mf'[q]
    OBVIOUS
  <2>1. CASE q = p
    BY <1>5, <1>7, <2>1
  <2>2. CASE q # p
    <3> HIDE DEF Old
    <3> QED BY <1>3, <1>6, <2>2, OwnerFacts
  <2> QED BY <2>1, <2>2
<1>9. \A q, r \in Procs : mf'[q] = mf'[r] /\ mf'[q] # NoFrame => q = r
  BY <1>6, <1>7, OwnerFacts
<1> QED BY <1>4, <1>8, <1>9 DEF SingleOwner, InChan

\* The frame a goroutine holds moves to the end of a channel.
LEMMA SendOwner ==
  ASSUME ChanTypes, HoldsOK, SingleOwner, NEW p \in Procs, NEW a \in Chans,
         mf[p] \in Frames, Send(p, a)
  PROVE  SingleOwner'
<1> DEFINE x == mf[p]
           n == Len(ch[a]) + 1
           New(b, i) == b = a /\ i = n
<1>1. ch[a] \in Seq(Frames)
  BY DEF ChanTypes
<1>2. /\ ch'[a] = Append(ch[a], x) /\ \A b \in Chans : b # a => ch'[b] = ch[b]
      /\ mf' = [mf EXCEPT ![p] = NoFrame]
  BY DEF Send, ChanTypes
\* A slot is the new one, with x, or held the same frame before.
<1>3. ASSUME NEW b \in Chans, NEW i \in DOMAIN ch'[b]
      PROVE  IF New(b, i) THEN ch'[b][i] = x
             ELSE i \in DOMAIN ch[b] /\ ch'[b][i] = ch[b][i]
  <2>1. CASE b = a
    BY <1>1, <1>2, <1>3, <2>1, AppendFacts
  <2>2. CASE b # a
    BY <1>2, <1>3, <2>2
  <2> QED BY <2>1, <2>2
<1>4. \A b \in Chans : \A i \in DOMAIN ch[b] : ch[b][i] # x
  BY OwnerFacts
<1>5. ASSUME NEW b \in Chans, NEW c \in Chans, NEW i \in DOMAIN ch'[b], NEW j \in DOMAIN ch'[c],
             ch'[b][i] = ch'[c][j]
      PROVE  b = c /\ i = j
  <2>1. CASE New(b, i) /\ New(c, j)
    BY <2>1
  <2>2. CASE ~New(b, i) /\ ~New(c, j)
    <3> HIDE DEF New
    <3> QED BY <1>3, <1>5, <2>2, OwnerFacts
  <2>3. CASE New(b, i) /\ ~New(c, j)
    <3> HIDE DEF New
    <3> QED BY <1>3, <1>4, <1>5, <2>3
  <2>4. CASE ~New(b, i) /\ New(c, j)
    <3> HIDE DEF New
    <3> QED BY <1>3, <1>4, <1>5, <2>4
  <2> QED BY <2>1, <2>2, <2>3, <2>4
<1>6. /\ mf'[p] = NoFrame
      /\ \A q \in Procs : q # p => mf'[q] = mf[q] /\ mf[q] # x
  BY <1>2, FramesAssumption, OwnerFacts DEF HoldsOK
<1>7. \A q, r \in Procs : mf'[q] = mf'[r] /\ mf'[q] # NoFrame => q = r
  BY <1>6, OwnerFacts
<1>8. ASSUME NEW q \in Procs, NEW b \in Chans, NEW i \in DOMAIN ch'[b]
      PROVE  ch'[b][i] # mf'[q]
  <2> HIDE DEF New
  <2>1. CASE q = p
    <3>1. \A c \in Chans : \A j \in DOMAIN ch[c] : ch[c][j] \in Frames
      BY DEF ChanTypes
    <3>2. ch'[b][i] \in Frames
      BY <1>3, <3>1
    <3> QED BY <1>6, <2>1, <3>2, FramesAssumption
  <2>2. CASE q # p
    BY <1>3, <1>6, <2>2, OwnerFacts
  <2> QED BY <2>1, <2>2
<1> QED BY <1>5, <1>7, <1>8 DEF SingleOwner, InChan

\* A frame nobody holds any more is in no place at all.
LEMMA DropOwner ==
  ASSUME ChanTypes, HoldsOK, SingleOwner, NEW p \in Procs, Drop(p)
  PROVE  SingleOwner'
<1>1. ch' = ch /\ mf' = [mf EXCEPT ![p] = NoFrame]
  BY DEF Drop
<1>2. \A b \in Chans : \A i \in DOMAIN ch[b] : ch[b][i] # NoFrame
  BY FramesAssumption DEF ChanTypes
<1> QED BY <1>1, <1>2 DEF SingleOwner, InChan, HoldsOK

\* newCodecMixer puts every frame into one slot of ioFreeCh.
LEMMA InitOwner == Init => SingleOwner
<1> SUFFICES ASSUME Init PROVE SingleOwner
  OBVIOUS
<1>1. PICK q \in [1..Cardinality(Frames) -> Frames] :
        /\ \A i, j \in DOMAIN q : q[i] = q[j] => i = j
        /\ ch = [a \in Chans |-> IF a = "ioFreeCh" THEN q ELSE <<>>]
  BY DEF Init
<1>2. \A a \in Chans : \A i \in DOMAIN ch[a] : a = "ioFreeCh" /\ ch[a] = q
  BY <1>1
<1>3. \A p \in Procs : mf[p] = NoFrame
  BY DEF Init
<1>4. \A a \in Chans : \A i \in DOMAIN ch[a] : ch[a][i] # NoFrame
  BY <1>2, FramesAssumption
<1> QED BY <1>1, <1>2, <1>3, <1>4 DEF SingleOwner, InChan

\* Each step leaves the frames where they are, or is one receive, one send or
\* one drop of one goroutine.
LEMMA FrameSteps ==
  ASSUME TypeOK, [Next]_vars
  PROVE  \/ UNCHANGED <<ch, mf>>
         \/ \E p \in Procs, a \in Chans : mf[p] = NoFrame /\ Recv(p, a)
         \/ \E p \in Procs, a \in Chans : mf[p] \in Frames /\ Send(p, a)
         \/ \E p \in Procs : Drop(p)
<1> USE DEF Chans
<1>1. \A p \in Procs : /\ pc[p] \notin Holding => mf[p] = NoFrame
                       /\ pc[p] \in Holding => mf[p] \in Frames
  BY DEF TypeOK, HoldsOK
<1>2. ASSUME NEW c \in Clients, ClientStep(c)
      PROVE  \/ UNCHANGED <<ch, mf>>
             \/ \E p \in Procs, a \in Chans : mf[p] = NoFrame /\ Recv(p, a)
             \/ \E p \in Procs, a \in Chans : mf[p] \in Frames /\ Send(p, a)
             \/ \E p \in Procs : Drop(p)
  <2>1. ReadFrom(c) \in Procs
    BY ProcsOf
  <2>2. CASE StartReadFrom(c) \/ ReturnReadFrom(c)
    BY <2>2 DEF StartReadFrom, ReturnReadFrom
  <2>3. CASE \E n \in Lengths, last \in BOOLEAN : ReadData(c, n, last)
    BY <2>3 DEF ReadData
  <2>4. CASE TakeFree(c)
    BY <1>1, <2>1, <2>4 DEF TakeFree, At, Holding
  <2>5. CASE ReadNothing(c) \/ ReadFail(c)
    BY <2>1, <2>5 DEF ReadNothing, ReadFail
  <2>6. CASE SendEncode(c)
    BY <1>1, <2>1, <2>6 DEF SendEncode, Holding
  <2> QED BY <1>2, <2>2, <2>3, <2>4, <2>5, <2>6 DEF ClientStep
<1>3. ASSUME NEW w \in Waiters, WaiterStep(w)
      PROVE  UNCHANGED <<ch, mf>>
  BY <1>3 DEF WaiterStep, StartWriteTo, ReturnWriteTo
<1>4. ASSUME NEW e \in Encoders, EncoderStep(e)
      PROVE  \/ UNCHANGED <<ch, mf>>
             \/ \E p \in Procs, a \in Chans : mf[p] = NoFrame /\ Recv(p, a)
             \/ \E p \in Procs, a \in Chans : mf[p] \in Frames /\ Send(p, a)
  <2>1. EncodeLoop(e) \in Procs
    BY ProcsOf
  <2>2. CASE TakeEncode(e)
    BY <1>1, <2>1, <2>2 DEF TakeEncode, At, Holding
  <2>3. CASE Encode(e)
    BY <1>1, <2>1, <2>3 DEF Encode, At, Holding, Assembled
  <2> QED BY <1>4, <2>2, <2>3 DEF EncoderStep
<1>5. ASSUME NEW l \in Links, WriterStep(l)
      PROVE  \/ UNCHANGED <<ch, mf>>
             \/ \E p \in Procs, a \in Chans : mf[p] = NoFrame /\ Recv(p, a)
             \/ \E p \in Procs, a \in Chans : mf[p] \in Frames /\ Send(p, a)
  <2>1. WriteLoop(l) \in Procs
    BY ProcsOf
  <2>2. CASE SelectFast(l) \/ TakeBulk(l)
    BY <1>1, <2>1, <2>2 DEF SelectFast, TakeBulk, At, Holding
  <2>3. CASE WriteDone(l) \/ WriteFail(l)
    BY <1>1, <2>1, <2>3 DEF WriteDone, WriteFail, At, Holding
  <2>4. CASE SelectDefault(l)
    BY <2>4 DEF SelectDefault
  <2> QED BY <1>5, <2>2, <2>3, <2>4 DEF WriterStep
<1>6. ASSUME NEW l \in Links, ReaderStep(l)
      PROVE  \/ UNCHANGED <<ch, mf>>
             \/ \E p \in Procs, a \in Chans : mf[p] = NoFrame /\ Recv(p, a)
             \/ \E p \in Procs, a \in Chans : mf[p] \in Frames /\ Send(p, a)
  <2>1. ReadLoop(l) \in Procs
    BY ProcsOf
  <2>2. CASE TakeRead(l)
    BY <1>1, <2>1, <2>2 DEF TakeRead, At, Holding
  <2>3. CASE ReadPayload(l) \/ ReadLinkFail(l)
    BY <1>1, <2>1, <2>3 DEF ReadPayload, ReadLinkFail, At, Holding
  <2>4. CASE \/ ReadBadHeader(l) \/ ReadBadPayload(l)
             \/ \E s \in WireSsids, n \in Lengths : ReadHeader(l, s, n)
    BY <2>4 DEF ReadBadHeader, ReadBadPayload, ReadHeader
  <2> QED BY <1>6, <2>2, <2>3, <2>4 DEF ReaderStep
<1>7. CASE RunReadWriter \/ (\E l \in Links : AddMixerIO(l)) \/ UNCHANGED vars
  BY <1>7 DEF RunReadWriter, AddMixerIO, vars
<1> QED BY <1>2, <1>3, <1>4, <1>5, <1>6, <1>7 DEF Next

\* No step puts a frame in two places or gives it to two goroutines.
LEMMA StepOwner ==
  ASSUME TypeOK, SingleOwner, [Next]_vars
  PROVE  SingleOwner'
<1>1. ChanTypes /\ HoldsOK
  BY DEF TypeOK, ChanTypes
<1>2. CASE UNCHANGED <<ch, mf>>
  BY <1>2 DEF SingleOwner, InChan
<1>3. ASSUME NEW p \in Procs, NEW a \in Chans, mf[p] = NoFrame, Recv(p, a)
      PROVE  SingleOwner'
  BY <1>1, <1>3, RecvOwner
<1>4. ASSUME NEW p \in Procs, NEW a \in Chans, mf[p] \in Frames, Send(p, a)
      PROVE  SingleOwner'
  BY <1>1, <1>4, SendOwner
<1>5. ASSUME NEW p \in Procs, Drop(p)
      PROVE  SingleOwner'
  BY <1>1, <1>5, DropOwner
<1> QED BY <1>2, <1>3, <1>4, <1>5, FrameSteps

\* A mixerFrame is never in two channels, in two slots of one, in a channel
\* while a goroutine works on it, or in the hands of two goroutines.
THEOREM FramesHaveOneOwner == Spec => []SingleOwner
<1>1. Init => TypeOK /\ SingleOwner
  BY InitType, InitOwner
<1>2. TypeOK /\ SingleOwner /\ [Next]_vars => TypeOK' /\ SingleOwner'
  BY StepTypes, StepLinks, StepOwner DEF TypeOK, ChanTypes, DataOK
<1> QED BY <1>1, <1>2, PTL DEF Spec

-----------------------------------------------------------------------------
(* A channel with all the frames but the one p holds has room for it.      *)

\* A goroutine that holds a frame finds room in every channel: the other frames
\* are too few to fill it.
LEMMA RoomToSend ==
  ASSUME TypeOK, SingleOwner, NEW p \in Procs, mf[p] # NoFrame, NEW a \in Chans
  PROVE  CanSend(a)
<1> DEFINE q == ch[a]
           S == Frames \ {mf[p]}
<1>1. q \in Seq(Frames) /\ mf[p] \in Frames
  BY DEF TypeOK, HoldsOK
<1>2. Len(q) \in Nat /\ DOMAIN q = 1..Len(q)
  BY <1>1
<1>3. \A i \in 1..Len(q) : q[i] \in S
  BY <1>1, <1>2 DEF SingleOwner, InChan
<1>4. \A i, j \in 1..Len(q) : q[i] = q[j] => i = j
  BY <1>2 DEF SingleOwner
<1>5. [i \in 1..Len(q) |-> q[i]] \in Injection(1..Len(q), S)
  BY <1>3, <1>4 DEF Injection, IsInjective
<1>6. IsFiniteSet(S) /\ Cardinality(S) = Cardinality(Frames) - 1
  BY <1>1, FramesAssumption, FS_RemoveElement
<1>7. Cardinality(1..Len(q)) <= Cardinality(S)
  BY <1>5, <1>6, FS_Injection
<1>8. Cardinality(1..Len(q)) = Len(q)
  BY <1>2, FS_Interval
<1>9. Cardinality(Frames) \in Nat
  BY FramesAssumption, FS_CardinalityType
<1>10. ChanSize \in Nat /\ ChanSize <= Cap(a)
  BY ChanSizeAssumption DEF Cap
<1>11. Len(q) < Cap(a)
  <2>1. Cap(a) \in Nat
    BY ChanSizeAssumption DEF Cap
  <2> QED BY <1>2, <1>6, <1>7, <1>8, <1>9, <1>10, <2>1, ChanSizeAssumption
<1> QED BY <1>11 DEF CanSend

\* No goroutine that holds a frame ever waits in a send: no frame channel of
\* newCodecMixer can be full as long as chansize is at least the pool.
THEOREM SendsDoNotBlock == Spec => []SendsNeverBlock
<1>1. TypeOK /\ SingleOwner => SendsNeverBlock
  BY RoomToSend DEF SendsNeverBlock
<1> QED BY <1>1, TypeCorrect, FramesHaveOneOwner, PTL

-----------------------------------------------------------------------------
(* The order of frames, and what the mixer implements.                     *)

\* The goroutines and channels between ReadFrom's send and writeLoop's write.
Carriers == ({"encodeLoop"} \X Encoders) \cup ({"writeLoop"} \X Links)
Wires == Chans \ {"ioFreeCh"}

Flying(f) == (\E a \in Wires : InChan(f, a)) \/ (\E p \in Carriers : mf[p] = f)
Name(f) == <<frame[f].ssid, frame[f].index>>
Accepted == Pending \cup delivered

\* What a frame holds, by where it is.
ContentInv ==
  /\ \A f \in Frames : frame[f].cap >= Room
  /\ \A f \in Frames : Flying(f) => frame[f].origin # "new"
  /\ \A l \in Links : pc[ReadLoop(l)] = "payload" => frame[mf[ReadLoop(l)]].origin = "wire"
  /\ ShortFramesEncode

\* A frame c has read and not yet sent carries the newest index of its session.
Newest(c) ==
  LET p == ReadFrom(c)
      f == mf[p] IN
  /\ frame[f].origin = "client"
  /\ Name(f) = <<sess[p], ssindex[sess[p]]>>
  /\ \A x \in Accepted : x[1] = sess[p] => x[2] < ssindex[sess[p]]

\* Names in use are below the counters they came from, each of one frame.
NameInv ==
  /\ \A x \in Accepted : x[1] <= ssid
  /\ \A c \in Clients : Active(c) =>
       \A x \in Accepted : x[1] = sess[ReadFrom(c)] => x[2] <= ssindex[x[1]]
  /\ \A c \in Clients : pc[ReadFrom(c)] \in {"send", "sendlast"} => Newest(c)
  /\ \A f, g \in InFlight : Name(f) = Name(g) => f = g
  /\ Pending \cap delivered = {}
  /\ EncodeOrder

FlightInv == ContentInv /\ NameInv

-----------------------------------------------------------------------------
(* Where frames are, before and after a receive or a send.                 *)

\* Carriers are goroutines, and no ReadFrom or readLoop is one.
LEMMA CarriersOf ==
  /\ Carriers \subseteq Procs
  /\ \A e \in Encoders : EncodeLoop(e) \in Carriers
  /\ \A l \in Links : WriteLoop(l) \in Carriers /\ ReadLoop(l) \notin Carriers
  /\ \A c \in Clients : ReadFrom(c) \notin Carriers
  /\ Wires = {"encodeCh", "assembleFastCh", "assembleCh"}
BY DEF Carriers, Procs, EncodeLoop, WriteLoop, ReadLoop, ReadFrom, Wires, Chans

\* A receive takes the head, and nothing else, out of its channel.
LEMMA RecvIn ==
  ASSUME ChanTypes, HoldsOK, SingleOwner, NEW p \in Procs, NEW a \in Chans, Recv(p, a)
  PROVE  \E x \in Frames :
           /\ InChan(x, a) /\ mf' = [mf EXCEPT ![p] = x]
           /\ \A f, b : b \in Chans => (InChan(f, b)' <=> InChan(f, b) /\ ~(b = a /\ f = x))
<1> DEFINE x == ch[a][1]
<1>1. ch[a] \in Seq(Frames) /\ ch[a] # <<>>
  BY DEF Recv, ChanTypes
<1>2. /\ 1 \in DOMAIN ch[a] /\ x \in Frames
      /\ ch'[a] = Tail(ch[a]) /\ \A b \in Chans : b # a => ch'[b] = ch[b]
      /\ mf' = [mf EXCEPT ![p] = x]
  BY <1>1, TailFacts DEF Recv, ChanTypes
<1>3. \A j \in DOMAIN ch[a] : j # 1 => \E i \in DOMAIN Tail(ch[a]) : Tail(ch[a])[i] = ch[a][j]
  <2> SUFFICES ASSUME NEW j \in DOMAIN ch[a], j # 1
               PROVE  \E i \in DOMAIN Tail(ch[a]) : Tail(ch[a])[i] = ch[a][j]
    OBVIOUS
  <2>1. j - 1 \in DOMAIN Tail(ch[a]) /\ Tail(ch[a])[j - 1] = ch[a][j]
    BY <1>1
  <2> QED BY <2>1
<1>4. ASSUME NEW f
      PROVE  InChan(f, a)' <=> InChan(f, a) /\ f # x
  <2>1. ASSUME InChan(f, a)' PROVE InChan(f, a) /\ f # x
    <3>1. PICK i \in DOMAIN Tail(ch[a]) : Tail(ch[a])[i] = f
      BY <1>2, <2>1 DEF InChan
    <3>2. i + 1 \in DOMAIN ch[a] /\ i + 1 # 1 /\ ch[a][i + 1] = f
      BY <1>1, <3>1, TailFacts
    <3> QED BY <1>2, <3>2 DEF InChan, SingleOwner
  <2>2. ASSUME InChan(f, a), f # x PROVE InChan(f, a)'
    <3>1. PICK j \in DOMAIN ch[a] : ch[a][j] = f
      BY <2>2 DEF InChan
    <3>2. j # 1
      BY <2>2, <3>1
    <3> QED BY <1>2, <1>3, <3>1, <3>2 DEF InChan
  <2> QED BY <2>1, <2>2
<1>5. \A f, b : b \in Chans => (InChan(f, b)' <=> InChan(f, b) /\ ~(b = a /\ f = x))
  <2> SUFFICES ASSUME NEW f, NEW b, b \in Chans
               PROVE  InChan(f, b)' <=> InChan(f, b) /\ ~(b = a /\ f = x)
    OBVIOUS
  <2>1. CASE b = a
    BY <1>4, <2>1
  <2>2. CASE b # a
    <3>1. ch'[b] = ch[b]
      BY <1>2, <2>2
    <3> QED BY <2>2, <3>1 DEF InChan
  <2> QED BY <2>1, <2>2
<1>6. InChan(x, a)
  BY <1>2 DEF InChan
<1> QED BY <1>2, <1>5, <1>6

\* A send adds the sender's frame, and nothing else, to its channel.
LEMMA SendIn ==
  ASSUME ChanTypes, HoldsOK, NEW p \in Procs, mf[p] \in Frames, NEW a \in Chans, Send(p, a)
  PROVE  /\ mf' = [mf EXCEPT ![p] = NoFrame]
         /\ \A f, b : b \in Chans => (InChan(f, b)' <=> InChan(f, b) \/ (b = a /\ f = mf[p]))
<1>1. ch[a] \in Seq(Frames)
  BY DEF ChanTypes
<1>2. /\ ch'[a] = Append(ch[a], mf[p]) /\ \A b \in Chans : b # a => ch'[b] = ch[b]
      /\ mf' = [mf EXCEPT ![p] = NoFrame]
  BY DEF Send, ChanTypes
<1>3. \A f : InChan(f, a)' <=> InChan(f, a) \/ f = mf[p]
  BY <1>1, <1>2, AppendFacts DEF InChan
<1>4. ASSUME NEW f, NEW b, b \in Chans, b # a
      PROVE  InChan(f, b)' <=> InChan(f, b)
  <2>1. ch'[b] = ch[b]
    BY <1>2, <1>4
  <2> QED BY <2>1 DEF InChan
<1> QED BY <1>2, <1>3, <1>4

\* A carrier that receives from a wire, and a reader from the pool, move no
\* frame into or out of flight.
LEMMA RecvFlying ==
  ASSUME ChanTypes, HoldsOK, SingleOwner, NEW p \in Procs, NEW a \in Chans, Recv(p, a),
         mf[p] = NoFrame, a \in Wires <=> p \in Carriers
  PROVE  \A f \in Frames : Flying(f)' <=> Flying(f)
<1>1. PICK x \in Frames :
        /\ InChan(x, a) /\ mf' = [mf EXCEPT ![p] = x]
        /\ \A f, b : b \in Chans => (InChan(f, b)' <=> InChan(f, b) /\ ~(b = a /\ f = x))
  BY RecvIn
<1>2. mf'[p] = x /\ \A q \in Procs : q # p => mf'[q] = mf[q]
  BY <1>1 DEF HoldsOK
<1>3. x # NoFrame /\ Wires \subseteq Chans
  BY FramesAssumption DEF Wires
<1> TAKE f \in Frames
<1>4. f # NoFrame
  BY FramesAssumption
<1>5. CASE p \in Carriers /\ f = x
  BY <1>1, <1>2, <1>5 DEF Flying
<1>6. CASE p \in Carriers /\ f # x
  BY <1>1, <1>2, <1>3, <1>4, <1>6, CarriersOf DEF Flying
<1>7. CASE p \notin Carriers
  BY <1>1, <1>2, <1>3, <1>4, <1>7, CarriersOf DEF Flying
<1> QED BY <1>5, <1>6, <1>7

\* A send moves its own frame only: into flight if the channel is a wire.
LEMMA SendFlying ==
  ASSUME ChanTypes, HoldsOK, SingleOwner, NEW p \in Procs, NEW a \in Chans, Send(p, a),
         mf[p] \in Frames
  PROVE  /\ \A f \in Frames : IF f = mf[p] THEN Flying(f)' <=> a \in Wires
                                           ELSE Flying(f)' <=> Flying(f)
         /\ Flying(mf[p]) <=> p \in Carriers
<1>1. /\ mf' = [mf EXCEPT ![p] = NoFrame]
      /\ \A f, b : b \in Chans => (InChan(f, b)' <=> InChan(f, b) \/ (b = a /\ f = mf[p]))
  BY SendIn
<1>2. mf'[p] = NoFrame /\ \A q \in Procs : q # p => mf'[q] = mf[q]
  BY <1>1 DEF HoldsOK
<1>3. mf[p] # NoFrame /\ Wires \subseteq Chans /\ Carriers \subseteq Procs
  BY FramesAssumption, CarriersOf DEF Wires
<1>4. ASSUME NEW f \in Frames, f # mf[p] PROVE Flying(f)' <=> Flying(f)
  BY <1>1, <1>2, <1>3, <1>4, FramesAssumption DEF Flying
<1>5. \A b \in Chans : ~InChan(mf[p], b)
  BY DEF SingleOwner
<1>6. \A q \in Procs : mf[q] = mf[p] => q = p
  BY <1>3 DEF SingleOwner
<1>7. \A q \in Procs : mf'[q] # mf[p]
  BY <1>2, <1>3, <1>6
<1>8. Flying(mf[p]) <=> p \in Carriers
  BY <1>3, <1>5, <1>6 DEF Flying
<1>9. ASSUME NEW f \in Frames, f = mf[p] PROVE Flying(f)' <=> a \in Wires
  <2>1. \A b \in Chans : InChan(f, b)' <=> b = a
    BY <1>1, <1>5, <1>9
  <2>2. \A q \in Carriers : mf'[q] # f
    BY <1>3, <1>7, <1>9
  <2> QED BY <1>3, <2>1, <2>2 DEF Flying
<1> QED BY <1>4, <1>8, <1>9 DEF Flying

-----------------------------------------------------------------------------
(* What each step moves, and what it writes into frames.                   *)

\* The frames a step of a kind moves: by a receive that takes nothing into
\* flight, by a send between wires, by a send or drop outside of flight.
Receives == \E p \in Procs, a \in Chans :
              mf[p] = NoFrame /\ Recv(p, a) /\ (a \in Wires <=> p \in Carriers)
Forwards == \E p \in Carriers, a \in Wires :
              mf[p] \in Frames /\ Send(p, a) /\ UNCHANGED ch["encodeCh"]
Releases == \E p \in Procs \ Carriers :
              /\ mf[p] \in Frames
              /\ \/ Send(p, "ioFreeCh")
                 \/ Drop(p) /\ \E c \in Clients : p = ReadFrom(c) /\ pc[p] = "read"

\* A goroutine has a frame exactly at the labels of Holding.
LEMMA HeldFrames ==
  ASSUME TypeOK
  PROVE  \A p \in Procs : /\ pc[p] \notin Holding => mf[p] = NoFrame
                          /\ pc[p] \in Holding => mf[p] \in Frames
BY DEF TypeOK, HoldsOK

\* Every step but the three that submit a frame, hand over a peer's frame or end
\* a write leaves the flight as it is.
LEMMA Moves ==
  ASSUME TypeOK, [Next]_vars
  PROVE  \/ (UNCHANGED <<ch, mf>> \/ Receives \/ Forwards \/ Releases) /\ UNCHANGED delivered
         \/ \E c \in Clients : SendEncode(c)
         \/ \E l \in Links : ReadPayload(l) \/ WriteDone(l)
<1> DEFINE Goal == \/ /\ UNCHANGED <<ch, mf>> \/ Receives \/ Forwards \/ Releases
                      /\ UNCHANGED delivered
                   \/ \E c \in Clients : SendEncode(c)
                   \/ \E l \in Links : ReadPayload(l) \/ WriteDone(l)
<1>1. "encodeCh" \in Wires /\ "assembleFastCh" \in Wires /\ "assembleCh" \in Wires
      /\ "ioFreeCh" \notin Wires /\ "ioFreeCh" \in Chans /\ Wires \subseteq Chans
  BY DEF Wires, Chans
<1>2. \A a \in Chans \ {"encodeCh"} : \A p : Send(p, a) => UNCHANGED ch["encodeCh"]
  BY DEF Send, TypeOK, Chans
<1>3. /\ \A p \in Carriers, a \in Wires : mf[p] = NoFrame /\ Recv(p, a) => Receives
      /\ \A p \in Procs \ Carriers : mf[p] = NoFrame /\ Recv(p, "ioFreeCh") => Receives
  BY <1>1, CarriersOf DEF Receives
<1>4. ASSUME NEW c \in Clients, ClientStep(c) PROVE Goal
  <2>1. ReadFrom(c) \in Procs \ Carriers
    BY ProcsOf, CarriersOf
  <2>2. CASE StartReadFrom(c) \/ ReturnReadFrom(c)
    BY <2>2 DEF StartReadFrom, ReturnReadFrom
  <2>3. CASE \E n \in Lengths, last \in BOOLEAN : ReadData(c, n, last)
    BY <2>3 DEF ReadData
  <2>4. CASE TakeFree(c)
    <3>1. UNCHANGED delivered /\ mf[ReadFrom(c)] = NoFrame /\ Recv(ReadFrom(c), "ioFreeCh")
      BY <2>1, <2>4, HeldFrames DEF TakeFree, At, Holding
    <3> QED BY <1>1, <1>3, <2>1, <3>1
  <2>5. CASE ReadNothing(c) \/ ReadFail(c)
    BY <2>1, <2>5, HeldFrames DEF ReadNothing, ReadFail, At, Holding, Releases
  <2>6. CASE SendEncode(c)
    BY <2>6
  <2> QED BY <1>4, <2>2, <2>3, <2>4, <2>5, <2>6 DEF ClientStep
<1>5. ASSUME NEW w \in Waiters, WaiterStep(w) PROVE Goal
  BY <1>5 DEF WaiterStep, StartWriteTo, ReturnWriteTo
<1>6. ASSUME NEW e \in Encoders, EncoderStep(e) PROVE Goal
  <2>1. EncodeLoop(e) \in Procs /\ EncodeLoop(e) \in Carriers
    BY ProcsOf, CarriersOf
  <2>2. CASE TakeEncode(e)
    <3>1. UNCHANGED delivered /\ mf[EncodeLoop(e)] = NoFrame /\ Recv(EncodeLoop(e), "encodeCh")
      BY <2>1, <2>2, HeldFrames DEF TakeEncode, At, Holding
    <3> QED BY <1>1, <1>3, <2>1, <3>1
  <2>3. CASE Encode(e)
    <3>1. /\ UNCHANGED delivered /\ mf[EncodeLoop(e)] \in Frames
          /\ \/ UNCHANGED <<ch, mf>>
             \/ Send(EncodeLoop(e), "assembleFastCh") \/ Send(EncodeLoop(e), "assembleCh")
      BY <2>1, <2>3, HeldFrames DEF Encode, At, Holding, Assembled
    <3> QED BY <1>1, <1>2, <2>1, <3>1 DEF Forwards, Chans
  <2> QED BY <1>6, <2>2, <2>3 DEF EncoderStep
<1>7. ASSUME NEW l \in Links, WriterStep(l) PROVE Goal
  <2>1. WriteLoop(l) \in Procs /\ WriteLoop(l) \in Carriers
    BY ProcsOf, CarriersOf
  <2>2. CASE SelectFast(l) \/ TakeBulk(l)
    <3>1. UNCHANGED delivered /\ mf[WriteLoop(l)] = NoFrame /\ (Recv(WriteLoop(l), "assembleFastCh") \/ Recv(WriteLoop(l), "assembleCh"))
      BY <2>1, <2>2, HeldFrames DEF SelectFast, TakeBulk, At, Holding
    <3> QED BY <1>1, <1>3, <2>1, <3>1
  <2>3. CASE WriteFail(l)
    <3>1. /\ UNCHANGED delivered /\ mf[WriteLoop(l)] \in Frames
          /\ Send(WriteLoop(l), "assembleFastCh")
      BY <2>1, <2>3, HeldFrames DEF WriteFail, At, Holding
    <3> QED BY <1>1, <1>2, <2>1, <3>1 DEF Forwards, Chans
  <2>4. CASE SelectDefault(l)
    BY <2>4 DEF SelectDefault
  <2> QED BY <1>7, <2>2, <2>3, <2>4 DEF WriterStep
<1>8. ASSUME NEW l \in Links, ReaderStep(l) PROVE Goal
  <2>1. ReadLoop(l) \in Procs \ Carriers
    BY ProcsOf, CarriersOf
  <2>2. CASE TakeRead(l)
    <3>1. UNCHANGED delivered /\ mf[ReadLoop(l)] = NoFrame /\ Recv(ReadLoop(l), "ioFreeCh")
      BY <2>1, <2>2, HeldFrames DEF TakeRead, At, Holding
    <3> QED BY <1>1, <1>3, <2>1, <3>1
  <2>3. CASE ReadLinkFail(l)
    BY <2>1, <2>3, HeldFrames DEF ReadLinkFail, Holding, Releases
  <2>4. CASE \/ ReadBadHeader(l) \/ ReadBadPayload(l)
             \/ \E s \in WireSsids, n \in Lengths : ReadHeader(l, s, n)
    BY <2>4 DEF ReadBadHeader, ReadBadPayload, ReadHeader
  <2> QED BY <1>8, <2>2, <2>3, <2>4 DEF ReaderStep
<1>9. CASE RunReadWriter \/ (\E l \in Links : AddMixerIO(l)) \/ UNCHANGED vars
  BY <1>9 DEF RunReadWriter, AddMixerIO, vars
<1> QED BY <1>4, <1>5, <1>6, <1>7, <1>8, <1>9 DEF Next

\* Only three kinds of step write into a frame.
LEMMA Writes ==
  ASSUME [Next]_vars
  PROVE  \/ UNCHANGED frame
         \/ \E c \in Clients, n \in Lengths, last \in BOOLEAN : ReadData(c, n, last)
         \/ \E e \in Encoders : Encode(e)
         \/ \E l \in Links, s \in WireSsids, n \in Lengths : ReadHeader(l, s, n)
<1>1. ASSUME NEW c \in Clients, ClientStep(c)
      PROVE  UNCHANGED frame \/ \E n \in Lengths, last \in BOOLEAN : ReadData(c, n, last)
  BY <1>1 DEF ClientStep, StartReadFrom, TakeFree, ReadNothing, ReadFail, SendEncode,
              ReturnReadFrom
<1>2. ASSUME NEW w \in Waiters, WaiterStep(w) PROVE UNCHANGED frame
  BY <1>2 DEF WaiterStep, StartWriteTo, ReturnWriteTo
<1>3. ASSUME NEW e \in Encoders, EncoderStep(e) PROVE UNCHANGED frame \/ Encode(e)
  BY <1>3 DEF EncoderStep, TakeEncode
<1>4. ASSUME NEW l \in Links, WriterStep(l) PROVE UNCHANGED frame
  BY <1>4 DEF WriterStep, SelectFast, SelectDefault, TakeBulk, WriteDone, WriteFail
<1>5. ASSUME NEW l \in Links, ReaderStep(l)
      PROVE  UNCHANGED frame \/ \E s \in WireSsids, n \in Lengths : ReadHeader(l, s, n)
  BY <1>5 DEF ReaderStep, TakeRead, ReadBadHeader, ReadPayload, ReadBadPayload, ReadLinkFail
<1>6. CASE RunReadWriter \/ (\E l \in Links : AddMixerIO(l)) \/ UNCHANGED vars
  BY <1>6 DEF RunReadWriter, AddMixerIO, vars
<1> QED BY <1>1, <1>2, <1>3, <1>4, <1>5, <1>6 DEF Next

\* A frame keeps its name and origin unless the ReadFrom or readLoop that
\* holds it writes them.
LEMMA NamesKept ==
  ASSUME TypeOK, [Next]_vars, NEW f \in Frames,
         \A c \in Clients : pc[ReadFrom(c)] = "read" => mf[ReadFrom(c)] # f,
         \A l \in Links : pc[ReadLoop(l)] = "header" => mf[ReadLoop(l)] # f
  PROVE  Name(f)' = Name(f) /\ frame'[f].origin = frame[f].origin
<1>1. frame \in [Frames -> FrameType]
  BY DEF TypeOK
<1>2. ASSUME NEW c \in Clients, NEW n \in Lengths, NEW last \in BOOLEAN,
             ReadData(c, n, last)
      PROVE  frame'[f] = frame[f]
  BY <1>1, <1>2 DEF ReadData, At
<1>3. ASSUME NEW l \in Links, NEW s \in WireSsids, NEW n \in Lengths, ReadHeader(l, s, n)
      PROVE  frame'[f] = frame[f]
  BY <1>1, <1>3 DEF ReadHeader, At
<1>4. ASSUME NEW e \in Encoders, Encode(e)
      PROVE  /\ frame'[f].ssid = frame[f].ssid /\ frame'[f].index = frame[f].index
             /\ frame'[f].origin = frame[f].origin
  <2>1. frame' = frame \/ \E k : frame' = [frame EXCEPT ![mf[EncodeLoop(e)]].cap = k]
    BY <1>4 DEF Encode
  <2>2. frame[f] \in FrameType
    BY <1>1
  <2>3. ASSUME NEW k, frame' = [frame EXCEPT ![mf[EncodeLoop(e)]].cap = k]
        PROVE  frame'[f] = frame[f] \/ frame'[f] = [frame[f] EXCEPT !.cap = k]
    BY <1>1, <2>3
  <2> QED BY <1>1, <2>1, <2>2, <2>3 DEF FrameType
<1>5. UNCHANGED frame => frame'[f] = frame[f]
  OBVIOUS
<1> QED BY <1>2, <1>3, <1>4, <1>5, Writes DEF Name

\* So does every frame in flight.
LEMMA FlyingKept ==
  ASSUME TypeOK, SingleOwner, [Next]_vars, NEW f \in Frames, Flying(f)
  PROVE  Name(f)' = Name(f) /\ frame'[f].origin = frame[f].origin
<1>1. \A p \in Procs : p \notin Carriers => mf[p] # f
  BY CarriersOf, FramesAssumption DEF Flying, SingleOwner, Wires
<1> QED BY <1>1, CarriersOf, ProcsOf, NamesKept

\* In terms of frames: a step keeps the flight, or one frame takes off or lands.
LEMMA FlyingSteps ==
  ASSUME TypeOK, SingleOwner, [Next]_vars
  PROVE  \/ /\ \A f \in Frames : Flying(f)' <=> Flying(f)
            /\ UNCHANGED delivered
         \/ \E c \in Clients :
              /\ SendEncode(c) /\ mf[ReadFrom(c)] \in Frames /\ ~Flying(mf[ReadFrom(c)])
              /\ \A f \in Frames : Flying(f)' <=> Flying(f) \/ f = mf[ReadFrom(c)]
         \/ \E l \in Links :
              /\ ReadPayload(l) /\ mf[ReadLoop(l)] \in Frames
              /\ \A f \in Frames : Flying(f)' <=> Flying(f) \/ f = mf[ReadLoop(l)]
         \/ \E l \in Links :
              /\ WriteDone(l) /\ mf[WriteLoop(l)] \in Frames /\ Flying(mf[WriteLoop(l)])
              /\ \A f \in Frames : Flying(f)' <=> Flying(f) /\ f # mf[WriteLoop(l)]
<1> DEFINE Same == \A f \in Frames : Flying(f)' <=> Flying(f)
<1>1. ChanTypes /\ HoldsOK
  BY DEF TypeOK, ChanTypes
<1>2. Wires \subseteq Chans /\ "ioFreeCh" \in Chans \ Wires /\ "encodeCh" \in Wires
  BY DEF Wires, Chans
<1>3. ASSUME UNCHANGED <<ch, mf>> PROVE Same
  BY <1>3 DEF Flying, InChan
<1>4. ASSUME Receives PROVE Same
  <2>1. PICK p \in Procs, a \in Chans :
          mf[p] = NoFrame /\ Recv(p, a) /\ (a \in Wires <=> p \in Carriers)
    BY <1>4 DEF Receives
  <2> QED BY <1>1, <2>1, RecvFlying
<1>5. ASSUME Forwards PROVE Same
  <2>1. PICK p \in Carriers, a \in Wires : mf[p] \in Frames /\ Send(p, a)
    BY <1>5 DEF Forwards
  <2>2. p \in Procs /\ a \in Chans
    BY <1>2, CarriersOf
  <2> QED BY <1>1, <2>1, <2>2, SendFlying
<1>6. ASSUME Releases PROVE Same
  <2>1. PICK p \in Procs \ Carriers : mf[p] \in Frames /\ (Drop(p) \/ Send(p, "ioFreeCh"))
    BY <1>6 DEF Releases
  <2>2. CASE Drop(p)
    <3>1. ch' = ch /\ mf' = [mf EXCEPT ![p] = NoFrame]
      BY <2>2 DEF Drop
    <3>2. \A q \in Carriers : mf'[q] = mf[q]
      BY <1>1, <2>1, <3>1, CarriersOf DEF HoldsOK
    <3>3. \A f \in Frames : (\E q \in Carriers : mf'[q] = f) <=> \E q \in Carriers : mf[q] = f
      BY <3>2
    <3> QED BY <3>1, <3>3 DEF Flying, InChan
  <2>3. CASE Send(p, "ioFreeCh")
    BY <1>1, <1>2, <2>1, <2>3, SendFlying
  <2> QED BY <2>1, <2>2, <2>3
<1>7. ASSUME NEW c \in Clients, SendEncode(c)
      PROVE  /\ mf[ReadFrom(c)] \in Frames /\ ~Flying(mf[ReadFrom(c)])
             /\ \A f \in Frames : Flying(f)' <=> Flying(f) \/ f = mf[ReadFrom(c)]
  <2>1. ReadFrom(c) \in Procs \ Carriers /\ mf[ReadFrom(c)] \in Frames
    BY <1>7, ProcsOf, CarriersOf, HeldFrames DEF SendEncode, Holding
  <2>2. Send(ReadFrom(c), "encodeCh")
    BY <1>7 DEF SendEncode
  <2> QED BY <1>1, <1>2, <2>1, <2>2, SendFlying
<1>8. ASSUME NEW l \in Links, ReadPayload(l)
      PROVE  /\ mf[ReadLoop(l)] \in Frames
             /\ \A f \in Frames : Flying(f)' <=> Flying(f) \/ f = mf[ReadLoop(l)]
  <2>1. ReadLoop(l) \in Procs \ Carriers /\ mf[ReadLoop(l)] \in Frames
    BY <1>8, ProcsOf, CarriersOf, HeldFrames DEF ReadPayload, At, Holding
  <2>2. Send(ReadLoop(l), "encodeCh")
    BY <1>8 DEF ReadPayload
  <2> QED BY <1>1, <1>2, <2>1, <2>2, SendFlying
<1>9. ASSUME NEW l \in Links, WriteDone(l)
      PROVE  /\ mf[WriteLoop(l)] \in Frames /\ Flying(mf[WriteLoop(l)])
             /\ \A f \in Frames : Flying(f)' <=> Flying(f) /\ f # mf[WriteLoop(l)]
  <2>1. /\ WriteLoop(l) \in Procs /\ WriteLoop(l) \in Carriers
        /\ mf[WriteLoop(l)] \in Frames
    BY <1>9, ProcsOf, CarriersOf, HeldFrames DEF WriteDone, At, Holding
  <2>2. Send(WriteLoop(l), "ioFreeCh")
    BY <1>9 DEF WriteDone
  <2> QED BY <1>1, <1>2, <2>1, <2>2, SendFlying
<1> QED BY <1>3, <1>4, <1>5, <1>6, <1>7, <1>8, <1>9, Moves

-----------------------------------------------------------------------------
(* What frames hold.                                                       *)

\* A readLoop at the payload just read the header, or was there before.
LEMMA PayloadStays ==
  ASSUME TypeOK, [Next]_vars, NEW l \in Links, pc'[ReadLoop(l)] = "payload"
  PROVE  \/ pc[ReadLoop(l)] = "payload" /\ mf'[ReadLoop(l)] = mf[ReadLoop(l)]
         \/ \E s \in WireSsids, n \in Lengths : ReadHeader(l, s, n)
<1> DEFINE q == ReadLoop(l)
           Stays == pc'[q] = pc[q] /\ mf'[q] = mf[q]
<1>1. q \in Procs /\ q \notin Readers /\ q \notin Waiting /\ LabelsOK /\ HoldsOK
  BY ProcsOf DEF TypeOK, ReadLoop, Readers, Waiting
<1>2. /\ \A c \in Clients : ReadFrom(c) # q
      /\ \A w \in Waiters : WriteTo(w) # q
      /\ \A e \in Encoders : EncodeLoop(e) # q
      /\ \A m \in Links : WriteLoop(m) # q /\ (ReadLoop(m) = q => m = l)
  BY DEF ReadFrom, WriteTo, EncodeLoop, WriteLoop, ReadLoop
<1> HIDE DEF q
<1>3. ASSUME NEW c \in Clients, ClientStep(c) PROVE Stays
  BY <1>1, <1>2, <1>3
  DEF ClientStep, StartReadFrom, TakeFree, ReadNothing, ReadFail, ReadData, SendEncode,
      ReturnReadFrom, ClearSsid, Goto, Recv, Send, Drop, LabelsOK, HoldsOK
<1>4. ASSUME NEW w \in Waiters, WaiterStep(w) PROVE Stays
  BY <1>1, <1>2, <1>4
  DEF WaiterStep, StartWriteTo, ReturnWriteTo, ClearSsid, Goto, LabelsOK
<1>5. ASSUME NEW e \in Encoders, EncoderStep(e) PROVE Stays
  BY <1>1, <1>2, <1>5
  DEF EncoderStep, TakeEncode, Encode, Goto, Recv, Send, LabelsOK, HoldsOK
<1>6. ASSUME NEW m \in Links, WriterStep(m) PROVE Stays
  BY <1>1, <1>2, <1>6
  DEF WriterStep, SelectFast, SelectDefault, TakeBulk, WriteDone, WriteFail,
      Goto, Recv, Send, LabelsOK, HoldsOK
<1>7. ASSUME NEW m \in Links, m # l, ReaderStep(m) PROVE Stays
  BY <1>1, <1>2, <1>7
  DEF ReaderStep, TakeRead, ReadHeader, ReadBadHeader, ReadPayload, ReadBadPayload,
      ReadLinkFail, Goto, Recv, Send, LabelsOK, HoldsOK
<1>8. ASSUME ReaderStep(l)
      PROVE  Stays \/ \E s \in WireSsids, n \in Lengths : ReadHeader(l, s, n)
  <2>1. CASE TakeRead(l) \/ ReadPayload(l) \/ ReadLinkFail(l)
    <3>1. pc'[q] # "payload"
      BY <1>1, <2>1 DEF TakeRead, ReadPayload, ReadLinkFail, Goto, LabelsOK, q
    <3> QED BY <3>1 DEF q
  <2>2. CASE ReadBadHeader(l) \/ ReadBadPayload(l)
    BY <2>2 DEF ReadBadHeader, ReadBadPayload
  <2> QED BY <1>8, <2>1, <2>2 DEF ReaderStep
<1>9. ASSUME RunReadWriter PROVE Stays
  <2>1. pc' = [pc EXCEPT ![WriteLoop(Head(mixerCh))] = "select",
                         ![ReadLoop(Head(mixerCh))] = "take"] /\ mf' = mf
    BY <1>9 DEF RunReadWriter
  <2>2. pc'[q] # "take"
    BY DEF q
  <2> QED BY <1>1, <2>1, <2>2 DEF LabelsOK, WriteLoop, ReadLoop, q
<1>10. ASSUME (\E m \in Links : AddMixerIO(m)) \/ UNCHANGED vars PROVE Stays
  BY <1>10 DEF AddMixerIO, vars
<1> QED
  BY <1>3, <1>4, <1>5, <1>6, <1>7, <1>8, <1>9, <1>10 DEF Next, q

\* After a panic nothing moves.
LEMMA NothingAfterPanic ==
  ASSUME [Next]_vars, crash # "none"
  PROVE  UNCHANGED vars
BY DEF Next, ClientStep, StartReadFrom, TakeFree, ReadNothing, ReadFail, ReadData, SendEncode,
       ReturnReadFrom, WaiterStep, StartWriteTo, ReturnWriteTo, EncoderStep, TakeEncode, Encode,
       RunReadWriter, AddMixerIO, WriterStep, SelectFast, SelectDefault, TakeBulk, WriteDone,
       WriteFail, ReaderStep, TakeRead, ReadHeader, ReadBadHeader, ReadPayload, ReadBadPayload,
       ReadLinkFail, At

\* Only an encodeLoop panics with a failed encode.
LEMMA EncodePanics ==
  ASSUME [Next]_vars, crash = "none", crash' = "encode"
  PROVE  \E e \in Encoders : Encode(e)
BY DEF Next, ClientStep, StartReadFrom, TakeFree, ReadNothing, ReadFail, ReadData, SendEncode,
       ReturnReadFrom, WaiterStep, StartWriteTo, ReturnWriteTo, EncoderStep, TakeEncode,
       RunReadWriter, AddMixerIO, WriterStep, SelectFast, SelectDefault, TakeBulk, WriteDone,
       WriteFail, ReaderStep, TakeRead, ReadHeader, ReadBadHeader, ReadPayload, ReadBadPayload,
       ReadLinkFail, vars

\* A new frame is nobody's and in flight nowhere.
LEMMA InitContent == Init => ContentInv
<1> SUFFICES ASSUME Init PROVE ContentInv
  OBVIOUS
<1>1. \A f \in Frames : ~Flying(f)
  <2>1. \A a \in Wires : ch[a] = <<>>
    <3>1. \A a \in Chans : a # "ioFreeCh" => ch[a] = <<>>
      BY DEF Init
    <3> QED BY <3>1 DEF Wires
  <2>2. \A p \in Carriers : mf[p] = NoFrame
    BY CarriersOf DEF Init
  <2> QED BY <2>1, <2>2, FramesAssumption DEF Flying, InChan
<1>2. \A l \in Links : pc[ReadLoop(l)] = "idle"
  BY ProcsOf DEF Init, ReadLoop
<1> QED BY <1>1, <1>2 DEF Init, ContentInv, ShortFramesEncode, Room

\* Every step keeps what frames hold, by place.
LEMMA StepContent ==
  ASSUME TypeOK, SingleOwner, FlightInv, [Next]_vars
  PROVE  ContentInv'
<1>1. /\ frame \in [Frames -> FrameType] /\ mf \in [Procs -> Frames \cup {NoFrame}]
      /\ \A f \in Frames : frame[f].cap >= Room
      /\ \A f \in Frames : Flying(f) => frame[f].origin # "new"
  BY DEF TypeOK, HoldsOK, FlightInv, ContentInv
<1>2. ASSUME NEW f \in Frames
      PROVE  frame'[f].cap >= Room
  <2>1. frame[f] \in FrameType /\ frame[f].cap >= Room
    BY <1>1
  <2>2. ASSUME NEW c \in Clients, NEW n \in Lengths, NEW last \in BOOLEAN,
               ReadData(c, n, last)
        PROVE  frame'[f].cap = frame[f].cap
    BY <1>1, <2>1, <2>2 DEF ReadData
  <2>3. ASSUME NEW e \in Encoders, Encode(e)
        PROVE  frame'[f].cap >= Room
    <3> DEFINE g == frame[mf[EncodeLoop(e)]]
               len == MaxEncodedLen(g.bodylen)
               cap == IF len > g.cap THEN len ELSE g.cap
    <3>1. g \in FrameType /\ g.cap >= Room
      BY <1>1, <2>3, HeldFrames, CarriersOf DEF Encode, At, Holding
    <3>2. len \in Nat /\ g.cap \in Nat
      BY <3>1, EncodedLenType DEF FrameType
    <3>3. cap >= Room
      BY <3>1, <3>2 DEF Room
    <3>4. frame' = frame \/ frame' = [frame EXCEPT ![mf[EncodeLoop(e)]].cap = cap]
      BY <2>3 DEF Encode
    <3> HIDE DEF cap
    <3>5. frame'[f] = frame[f] \/ frame'[f] = [frame[f] EXCEPT !.cap = cap]
      BY <1>1, <3>4
    <3> QED BY <2>1, <3>3, <3>5 DEF FrameType
  <2>4. ASSUME NEW l \in Links, NEW s \in WireSsids, NEW n \in Lengths, ReadHeader(l, s, n)
        PROVE  frame'[f].cap = frame[f].cap
    <3>1. \/ frame'[f] = frame[f]
          \/ frame'[f] = [frame[f] EXCEPT !.ssid = s, !.origin = "wire", !.bodylen = n]
      BY <1>1, <2>4 DEF ReadHeader
    <3> QED BY <2>1, <3>1 DEF FrameType
  <2> QED BY <2>1, <2>2, <2>3, <2>4, Writes
<1>3. ASSUME NEW f \in Frames, Flying(f)'
      PROVE  frame'[f].origin # "new"
  <2>1. CASE Flying(f)
    BY <1>1, <2>1, FlyingKept
  <2>2. ASSUME NEW c \in Clients, SendEncode(c), f = mf[ReadFrom(c)]
        PROVE  frame'[f].origin # "new"
    BY <2>2 DEF SendEncode, FlightInv, NameInv, Newest
  <2>3. ASSUME NEW l \in Links, ReadPayload(l), f = mf[ReadLoop(l)]
        PROVE  frame'[f].origin # "new"
    BY <2>3 DEF ReadPayload, At, FlightInv, ContentInv
  <2> QED BY <1>3, <2>1, <2>2, <2>3, FlyingSteps
<1>4. ASSUME NEW l \in Links, pc'[ReadLoop(l)] = "payload"
      PROVE  frame'[mf'[ReadLoop(l)]].origin = "wire"
  <2> DEFINE f == mf[ReadLoop(l)]
  <2>1. CASE pc[ReadLoop(l)] = "payload" /\ mf'[ReadLoop(l)] = f
    <3>1. f \in Frames /\ frame[f].origin = "wire"
      BY <2>1, ProcsOf, HeldFrames DEF Holding, FlightInv, ContentInv
    <3>2. \A q \in Procs : mf[q] = f => q = ReadLoop(l)
      BY <3>1, FramesAssumption, ProcsOf DEF SingleOwner
    <3>3. \A c \in Clients : ReadFrom(c) # ReadLoop(l)
      BY DEF ReadFrom, ReadLoop
    <3>4. frame'[f].origin = frame[f].origin
      BY <2>1, <3>1, <3>2, <3>3, ProcsOf, NamesKept
    <3> QED BY <2>1, <3>1, <3>4
  <2>2. ASSUME NEW s \in WireSsids, NEW n \in Lengths, ReadHeader(l, s, n)
        PROVE  frame'[mf'[ReadLoop(l)]].origin = "wire"
    <3>1. f \in Frames /\ mf' = mf
      BY <2>2, ProcsOf, HeldFrames DEF Holding, ReadHeader, At
    <3>2. frame'[f] = [frame[f] EXCEPT !.ssid = s, !.origin = "wire", !.bodylen = n]
      BY <1>1, <2>2, <3>1 DEF ReadHeader
    <3>3. frame[f] \in FrameType
      BY <1>1, <3>1
    <3> QED BY <3>1, <3>2, <3>3 DEF FrameType
  <2> QED BY <1>4, <2>1, <2>2, PayloadStays
<1>5. ShortFramesEncode'
  <2> SUFFICES ASSUME crash' = "encode"
               PROVE  /\ Codec = "noop"
                      /\ \E e \in Encoders : /\ pc'[EncodeLoop(e)] = "encode"
                                             /\ frame'[mf'[EncodeLoop(e)]].size >= Room
    BY DEF ShortFramesEncode
  <2>1. CASE crash # "none"
    BY <2>1, NothingAfterPanic DEF vars, FlightInv, ContentInv, ShortFramesEncode
  <2>2. CASE crash = "none"
    <3>1. PICK e \in Encoders : Encode(e)
      BY <2>2, EncodePanics
    <3> DEFINE f == mf[EncodeLoop(e)]
               len == MaxEncodedLen(frame[f].bodylen)
               cap == IF len > frame[f].cap THEN len ELSE frame[f].cap
    <3>2. /\ pc[EncodeLoop(e)] = "encode" /\ f \in Frames
      BY <3>1, HeldFrames, CarriersOf DEF Encode, At, Holding
    <3>3. UNCHANGED <<pc, mf, frame>> /\ ~EncodeOK(frame[f].size, cap)
      BY <2>2, <3>1 DEF Encode
    <3>4. frame[f] \in FrameType /\ frame[f].cap >= Room
      BY <1>1, <3>2
    <3>5. len \in Nat /\ frame[f].cap \in Nat /\ frame[f].size \in Nat
      BY <3>4, EncodedLenType DEF FrameType
    <3>6. Codec = "noop" /\ frame[f].size >= cap
      BY <3>3, <3>5 DEF EncodeOK
    <3>7. frame[f].size >= Room
      BY <3>4, <3>5, <3>6 DEF Room
    <3> QED BY <3>2, <3>3, <3>6, <3>7
  <2> QED BY <2>1, <2>2
<1> QED BY <1>2, <1>3, <1>4, <1>5 DEF ContentInv

-----------------------------------------------------------------------------
(* Names of frames.                                                        *)

\* InFlight and Pending in terms of Flying and Name.
LEMMA FlightFacts ==
  /\ \A f : f \in InFlight <=> f \in Frames /\ frame[f].origin = "client" /\ Flying(f)
  /\ Pending = {Name(f) : f \in InFlight}
<1>1. ASSUME NEW f
      PROVE  (\E p \in Carriers : mf[p] = f) <=>
               \/ \E e \in Encoders : mf[EncodeLoop(e)] = f
               \/ \E l \in Links : mf[WriteLoop(l)] = f
  <2>1. \A p \in Carriers : \/ \E e \in Encoders : p = EncodeLoop(e)
                            \/ \E l \in Links : p = WriteLoop(l)
    BY DEF Carriers, EncodeLoop, WriteLoop
  <2> QED BY <2>1, CarriersOf
<1>2. \A f : f \in InFlight <=> f \in Frames /\ frame[f].origin = "client" /\ Flying(f)
  BY <1>1 DEF InFlight, Flying, Wires
<1>3. Pending = {Name(f) : f \in InFlight}
  BY DEF Pending, Name
<1> QED BY <1>2, <1>3

Quiet == InFlight' = InFlight /\ UNCHANGED delivered /\ \A f \in InFlight : Name(f)' = Name(f)

Submits(c) ==
  LET f == mf[ReadFrom(c)] IN
  /\ SendEncode(c)
  /\ f \notin InFlight /\ InFlight' = InFlight \cup {f}
  /\ UNCHANGED <<frame, delivered>>

Delivers(l) ==
  LET f == mf[WriteLoop(l)] IN
  /\ f \in InFlight /\ InFlight' = InFlight \ {f}
  /\ delivered' = delivered \cup {Name(f)}
  /\ UNCHANGED frame

\* A step of the mixer leaves the flight alone, submits a frame or delivers one.
LEMMA FlightSteps ==
  ASSUME TypeOK, SingleOwner, FlightInv, [Next]_vars
  PROVE  \/ Quiet
         \/ \E c \in Clients : Submits(c)
         \/ \E l \in Links : Delivers(l)
<1>1. \A f \in Frames : Flying(f) => /\ Name(f)' = Name(f)
                                     /\ frame'[f].origin = frame[f].origin
  BY FlyingKept
<1>2. \A f : f \in InFlight' <=> f \in Frames /\ frame'[f].origin = "client" /\ Flying(f)'
  <2>1. (\A f : f \in InFlight <=> f \in Frames /\ frame[f].origin = "client" /\ Flying(f))'
    BY FlightFacts, PTL
  <2> QED BY <2>1
<1>3. ASSUME \A f \in Frames : Flying(f)' <=> Flying(f), UNCHANGED delivered
      PROVE  Quiet
  BY <1>1, <1>2, <1>3, FlightFacts DEF Quiet
<1>4. ASSUME NEW c \in Clients, SendEncode(c), mf[ReadFrom(c)] \in Frames,
             ~Flying(mf[ReadFrom(c)]),
             \A f \in Frames : Flying(f)' <=> Flying(f) \/ f = mf[ReadFrom(c)]
      PROVE  Submits(c)
  <2>1. UNCHANGED <<frame, delivered>> /\ frame[mf[ReadFrom(c)]].origin = "client"
    BY <1>4 DEF SendEncode, FlightInv, NameInv, Newest
  <2>2. mf[ReadFrom(c)] \notin InFlight /\ InFlight' = InFlight \cup {mf[ReadFrom(c)]}
    BY <1>2, <1>4, <2>1, FlightFacts
  <2> QED BY <1>4, <2>1, <2>2 DEF Submits
<1>5. ASSUME NEW l \in Links, ReadPayload(l), mf[ReadLoop(l)] \in Frames,
             \A f \in Frames : Flying(f)' <=> Flying(f) \/ f = mf[ReadLoop(l)]
      PROVE  Quiet
  <2>1. UNCHANGED <<frame, delivered>> /\ frame[mf[ReadLoop(l)]].origin = "wire"
    BY <1>5 DEF ReadPayload, At, FlightInv, ContentInv
  <2>2. \A f : f \in InFlight' <=> f \in InFlight
    BY <1>2, <1>5, <2>1, FlightFacts
  <2> QED BY <2>1, <2>2 DEF Quiet, Name
<1>6. ASSUME NEW l \in Links, WriteDone(l), mf[WriteLoop(l)] \in Frames,
             Flying(mf[WriteLoop(l)]),
             \A f \in Frames : Flying(f)' <=> Flying(f) /\ f # mf[WriteLoop(l)]
      PROVE  Quiet \/ Delivers(l)
  <2> DEFINE x == mf[WriteLoop(l)]
  <2>1. /\ UNCHANGED frame
        /\ delivered' = delivered \cup (IF frame[x].origin = "client" THEN {Name(x)} ELSE {})
    BY <1>6 DEF WriteDone, Name
  <2> HIDE DEF x
  <2>2. \A f : f \in InFlight' <=> f \in InFlight /\ f # x
    BY <1>2, <1>6, <2>1, FlightFacts DEF x
  <2>3. CASE frame[x].origin = "client"
    <3>1. x \in InFlight /\ delivered' = delivered \cup {Name(x)}
      BY <1>6, <2>1, <2>3, FlightFacts DEF x
    <3>2. InFlight' = InFlight \ {x}
      BY <2>2
    <3> QED BY <2>1, <3>1, <3>2 DEF Delivers, x
  <2>4. CASE frame[x].origin # "client"
    <3>1. x \notin InFlight /\ delivered' = delivered
      BY <2>1, <2>4, FlightFacts
    <3>2. InFlight' = InFlight
      BY <2>2, <3>1
    <3> QED BY <2>1, <3>1, <3>2 DEF Quiet, Name
  <2> QED BY <2>3, <2>4
<1> QED BY <1>3, <1>4, <1>5, <1>6, FlyingSteps

\* The counters only grow, for as long as a ReadFrom has its session.
LEMMA Counters ==
  ASSUME TypeOK, SessionInv, [Next]_vars
  PROVE  /\ ssid \in Nat /\ ssid' \in Nat /\ ssid <= ssid'
         /\ \A c \in Clients : Active(c)' =>
              LET s == sess'[ReadFrom(c)] IN
              \/ s = ssid + 1
              \/ /\ Active(c) /\ s = sess[ReadFrom(c)] /\ s \in Live
                 /\ ssindex[s] \in Nat /\ ssindex'[s] \in Nat /\ ssindex[s] <= ssindex'[s]
<1>1. LabelsOK /\ DataOK
  BY DEF TypeOK, DataOK
<1>2. /\ \A c \in Clients : ReadFrom(c) \in Procs /\ sess[ReadFrom(c)] \in Nat
      /\ \A c, d \in Clients : ReadFrom(c) = ReadFrom(d) => c = d
      /\ \A c \in Clients, w \in Waiters : ReadFrom(c) # WriteTo(w)
      /\ \A c \in Clients, e \in Encoders : ReadFrom(c) # EncodeLoop(e)
      /\ \A c \in Clients, l \in Links : ReadFrom(c) # WriteLoop(l) /\ ReadFrom(c) # ReadLoop(l)
  BY <1>1, ProcsOf DEF DataOK, ReadFrom, WriteTo, EncodeLoop, WriteLoop, ReadLoop
<1>3. ssid \in Nat /\ ssindex \in [Live -> Nat]
  BY <1>1 DEF DataOK
<1> DEFINE Grows(c) ==
             LET s == sess'[ReadFrom(c)] IN
             \/ s = ssid + 1
             \/ /\ Active(c) /\ s = sess[ReadFrom(c)] /\ s \in Live
                /\ ssindex[s] \in Nat /\ ssindex'[s] \in Nat /\ ssindex[s] <= ssindex'[s]
           Goal == /\ ssid' \in Nat /\ ssid <= ssid'
                   /\ \A c \in Clients : Active(c)' => Grows(c)
\* Enough: an active session that was active and whose index did not shrink.
<1>4. ASSUME ssid' = ssid \/ ssid' = ssid + 1,
             \A c \in Clients : Active(c)' =>
               /\ Active(c) /\ sess'[ReadFrom(c)] = sess[ReadFrom(c)]
               /\ LET s == sess[ReadFrom(c)] IN
                  s \in Live => ssindex'[s] = ssindex[s] \/ ssindex'[s] = ssindex[s] + 1
      PROVE  Goal
  <2>1. ASSUME NEW c \in Clients, Active(c)'
        PROVE  Grows(c)
    <3> DEFINE s == sess[ReadFrom(c)]
    <3>1. s \in Live
      BY <1>4, <2>1 DEF SessionInv, OwnSession
    <3>2. ssindex[s] \in Nat /\ (ssindex'[s] = ssindex[s] \/ ssindex'[s] = ssindex[s] + 1)
      BY <1>3, <1>4, <2>1, <3>1
    <3> QED BY <1>4, <2>1, <3>1, <3>2
  <2> QED BY <1>3, <1>4, <2>1
\* A step of a goroutine that only registers sessions, or none.
<1>5. ASSUME ssid' = ssid \/ ssid' = ssid + 1, UNCHANGED sess,
             ssindex' = ssindex \/ \E s : ssindex' = Registered(s),
             \A c \in Clients : Active(c)' => Active(c)
      PROVE  Goal
  <2>1. \A s \in Live : ssindex'[s] = ssindex[s]
    BY <1>5 DEF Registered
  <2> QED BY <1>4, <1>5, <2>1
<1>6. ASSUME NEW c \in Clients, StartReadFrom(c) PROVE Goal
  <2>1. /\ ssid' = ssid + 1 /\ sess' = [sess EXCEPT ![ReadFrom(c)] = ssid + 1]
        /\ ssindex' = Registered(ssid + 1)
    BY <1>6 DEF StartReadFrom
  <2>2. \A d \in Clients : d # c => /\ Active(d)' => Active(d)
                                    /\ sess'[ReadFrom(d)] = sess[ReadFrom(d)]
    BY <1>1, <1>2, <1>6, <2>1 DEF StartReadFrom, Goto, Active, LabelsOK, DataOK
  <2>3. sess'[ReadFrom(c)] = ssid + 1
    BY <1>1, <2>1, ProcsOf DEF DataOK
  <2>4. \A s \in Live : ssindex'[s] = ssindex[s] /\ ssindex[s] \in Nat
    BY <1>3, <2>1 DEF Registered
  <2>5. ASSUME NEW d \in Clients, d # c, Active(d)'
        PROVE  Grows(d)
    BY <2>2, <2>4, <2>5 DEF SessionInv, OwnSession
  <2> QED BY <1>3, <2>1, <2>3, <2>5
<1>7. ASSUME NEW c \in Clients,
             \/ TakeFree(c) \/ ReadNothing(c) \/ ReadFail(c) \/ SendEncode(c)
             \/ \E n \in Lengths, last \in BOOLEAN : ReadData(c, n, last)
      PROVE  Goal
  <2>1. /\ UNCHANGED <<ssid, sess>> /\ Active(c)
        /\ \A d \in Clients : d # c => pc'[ReadFrom(d)] = pc[ReadFrom(d)]
        /\ \/ ssindex' = ssindex
           \/ ssindex' = [ssindex EXCEPT ![sess[ReadFrom(c)]] = @ + 1]
    BY <1>1, <1>2, <1>7
    DEF TakeFree, ReadNothing, ReadFail, SendEncode, ReadData, Goto, At, Active, sessions,
        LabelsOK
  <2>2. \A s \in Live : ssindex'[s] = ssindex[s] \/ ssindex'[s] = ssindex[s] + 1
    BY <1>3, <2>1
  <2>3. \A d \in Clients : Active(d)' => Active(d)
    BY <2>1 DEF Active
  <2> QED BY <1>4, <2>1, <2>2, <2>3
<1>8. ASSUME NEW p \in Readers \cup Waiting, UNCHANGED <<ssid, sess>>, ClearSsid(p, sess[p]),
             \A d \in Clients : Active(d) /\ ReadFrom(d) # p => sess[ReadFrom(d)] # sess[p]
      PROVE  Goal
  <2>1. \A s \in Live : s # sess[p] => ssindex'[s] = ssindex[s]
    BY <1>8 DEF ClearSsid
  <2>2. \A d \in Clients : Active(d)' => Active(d) /\ ReadFrom(d) # p
    BY <1>2, <1>8 DEF ClearSsid, Active, Waiting, ReadFrom
  <2> QED BY <1>4, <1>8, <2>1, <2>2
<1>9. ASSUME NEW c \in Clients, ReturnReadFrom(c) PROVE Goal
  <2>1. Active(c)
    BY <1>9 DEF ReturnReadFrom, At, Active
  <2>2. \A d \in Clients : Active(d) /\ ReadFrom(d) # ReadFrom(c)
                            => sess[ReadFrom(d)] # sess[ReadFrom(c)]
    BY <2>1 DEF SessionInv, DistinctSessions
  <2> QED BY <1>8, <1>9, <2>2, ProcsOf DEF ReturnReadFrom
<1>10. ASSUME NEW w \in Waiters, WaiterStep(w) PROVE Goal
  <2>1. CASE \E s \in 1..MaxSsid : StartWriteTo(w, s)
    <3>1. /\ UNCHANGED <<ssid, ssindex>>
          /\ \A d \in Clients : /\ Active(d)' <=> Active(d)
                                /\ sess'[ReadFrom(d)] = sess[ReadFrom(d)]
      BY <1>1, <1>2, <2>1 DEF StartWriteTo, Goto, Active, LabelsOK, DataOK
    <3> QED BY <1>4, <3>1
  <2>2. CASE ReturnWriteTo(w)
    <3>1. \A d \in Clients : Active(d) => sess[ReadFrom(d)] # sess[WriteTo(w)]
      BY <2>2 DEF ReturnWriteTo, At, SessionInv
    <3> QED BY <1>8, <2>2, <3>1, ProcsOf DEF ReturnWriteTo
  <2> QED BY <1>10, <2>1, <2>2 DEF WaiterStep
<1>11. ASSUME NEW e \in Encoders, EncoderStep(e) PROVE Goal
  <2>1. /\ UNCHANGED <<ssid, sess, ssindex>>
        /\ \A c \in Clients : Active(c)' => Active(c)
    BY <1>1, <1>2, <1>11
    DEF EncoderStep, TakeEncode, Encode, Goto, sessions, Active, LabelsOK
  <2> QED BY <1>5, <2>1
<1>12. ASSUME NEW l \in Links, WriterStep(l) PROVE Goal
  <2>1. /\ UNCHANGED <<ssid, sess, ssindex>>
        /\ \A c \in Clients : Active(c)' => Active(c)
    BY <1>1, <1>2, <1>12
    DEF WriterStep, SelectFast, SelectDefault, TakeBulk, WriteDone, WriteFail, Goto, sessions,
        Active, LabelsOK
  <2> QED BY <1>5, <2>1
<1>13. ASSUME NEW l \in Links, ReaderStep(l) PROVE Goal
  <2>1. /\ UNCHANGED sess
        /\ \A c \in Clients : Active(c)' => Active(c)
    BY <1>1, <1>2, <1>13
    DEF ReaderStep, TakeRead, ReadHeader, ReadBadHeader, ReadPayload, ReadBadPayload,
        ReadLinkFail, Goto, sessions, Active, LabelsOK
  <2>2. ssindex' = ssindex \/ \E s : ssindex' = Registered(s)
    BY <1>13
    DEF ReaderStep, TakeRead, ReadHeader, ReadBadHeader, ReadPayload, ReadBadPayload,
        ReadLinkFail, sessions
  <2>3. ssid' = ssid \/ ssid' = ssid + 1
    BY <1>13
    DEF ReaderStep, TakeRead, ReadHeader, ReadBadHeader, ReadPayload, ReadBadPayload,
        ReadLinkFail, sessions
  <2> QED BY <1>5, <2>1, <2>2, <2>3
<1>14. ASSUME RunReadWriter PROVE Goal
  <2> DEFINE l == Head(mixerCh)
  <2>1. \A c \in Clients : pc'[ReadFrom(c)] = pc[ReadFrom(c)]
    <3>1. \A q \in Procs : q # WriteLoop(l) /\ q # ReadLoop(l) => pc'[q] = pc[q]
      BY <1>1, <1>14 DEF RunReadWriter, LabelsOK
    <3> QED BY <3>1, ProcsOf DEF ReadFrom, WriteLoop, ReadLoop
  <2>2. UNCHANGED <<ssid, sess, ssindex>>
    BY <1>14 DEF RunReadWriter, sessions
  <2> QED BY <1>5, <2>1, <2>2 DEF Active
<1>15. CASE (\E l \in Links : AddMixerIO(l)) \/ UNCHANGED vars
  <2>1. UNCHANGED <<ssid, sess, ssindex, pc>>
    BY <1>15 DEF AddMixerIO, sessions, vars
  <2> QED BY <1>5, <2>1 DEF Active
<1> QED
  BY <1>3, <1>6, <1>7, <1>9, <1>10, <1>11, <1>12, <1>13, <1>14, <1>15 DEF Next, ClientStep

\* A ReadFrom with data to send just read it, or had it before.
LEMMA DataStays ==
  ASSUME TypeOK, SessionInv, [Next]_vars, NEW c \in Clients,
         pc'[ReadFrom(c)] \in {"send", "sendlast"}
  PROVE  \/ /\ pc[ReadFrom(c)] \in {"send", "sendlast"}
            /\ mf'[ReadFrom(c)] = mf[ReadFrom(c)]
            /\ ssindex'[sess[ReadFrom(c)]] = ssindex[sess[ReadFrom(c)]]
            /\ sess'[ReadFrom(c)] = sess[ReadFrom(c)]
         \/ \E n \in Lengths, last \in BOOLEAN : ReadData(c, n, last)
<1> DEFINE q == ReadFrom(c)
           Stays == /\ pc'[q] = pc[q] /\ mf'[q] = mf[q] /\ sess'[q] = sess[q]
                    /\ Active(c) => ssindex'[sess[q]] = ssindex[sess[q]]
<1>1. /\ q \in Procs /\ q \in Readers /\ q \notin Waiting /\ LabelsOK /\ HoldsOK /\ DataOK
      /\ ssindex \in [Live -> Nat] /\ sess \in [Readers \cup Waiting -> Nat]
  BY ProcsOf DEF TypeOK, DataOK, ReadFrom, Waiting
<1>2. /\ \A d \in Clients : d # c => ReadFrom(d) # q
      /\ \A w \in Waiters : WriteTo(w) # q
      /\ \A e \in Encoders : EncodeLoop(e) # q
      /\ \A l \in Links : WriteLoop(l) # q /\ ReadLoop(l) # q
  BY DEF ReadFrom, WriteTo, EncodeLoop, WriteLoop, ReadLoop
<1>3. Active(c) => sess[q] \in Live
  BY DEF SessionInv, OwnSession
<1>4. Active(c) <=> pc[q] # "idle"
  BY DEF Active
<1>5. \A s : ssindex' = Registered(s) => \A t \in Live : ssindex'[t] = ssindex[t]
  BY DEF Registered
<1>6. \A d \in Clients : d # c /\ Active(d) /\ Active(c) => sess[ReadFrom(d)] # sess[q]
  BY DEF SessionInv, DistinctSessions
<1> HIDE DEF q
<1>7. ASSUME NEW p \in Readers \cup Waiting, p # q, UNCHANGED <<sess, mf>>,
             ClearSsid(p, sess[p]), Active(c) => sess[q] # sess[p]
      PROVE  Stays
  BY <1>1, <1>3, <1>7 DEF ClearSsid
<1>8. ASSUME NEW d \in Clients, d # c, ClientStep(d) PROVE Stays
  <2>1. CASE StartReadFrom(d)
    BY <1>1, <1>2, <1>3, <1>5, <1>8, <2>1 DEF StartReadFrom, Goto, LabelsOK
  <2>2. CASE TakeFree(d) \/ ReadNothing(d) \/ ReadFail(d) \/ SendEncode(d)
    BY <1>1, <1>2, <1>8, <2>2
    DEF TakeFree, ReadNothing, ReadFail, SendEncode, Goto, Recv, Send, Drop, LabelsOK, HoldsOK,
        sessions
  <2>3. ASSUME NEW n \in Lengths, NEW last \in BOOLEAN, ReadData(d, n, last)
        PROVE  Stays
    <3>1. Active(d) /\ (Active(c) => sess[ReadFrom(d)] # sess[q])
      BY <1>6, <1>8, <2>3 DEF ReadData, At, Active
    <3>2. /\ mf' = mf /\ sess' = sess /\ pc'[q] = pc[q]
          /\ \/ ssindex' = ssindex
             \/ ssindex' = [ssindex EXCEPT ![sess[ReadFrom(d)]] = @ + 1]
      BY <1>1, <1>2, <1>8, <2>3 DEF ReadData, Goto, LabelsOK
    <3> QED BY <1>1, <1>3, <3>1, <3>2
  <2>4. CASE ReturnReadFrom(d)
    <3>1. Active(d)
      BY <2>4 DEF ReturnReadFrom, At, Active
    <3> QED BY <1>2, <1>6, <1>7, <1>8, <2>4, <3>1, ProcsOf DEF ReturnReadFrom
  <2> QED BY <1>8, <2>1, <2>2, <2>3, <2>4 DEF ClientStep
<1>9. ASSUME ClientStep(c)
      PROVE  Stays \/ \E n \in Lengths, last \in BOOLEAN : ReadData(c, n, last)
  <2>1. CASE StartReadFrom(c) \/ TakeFree(c) \/ ReadNothing(c) \/ ReadFail(c) \/ SendEncode(c)
             \/ ReturnReadFrom(c)
    <3>1. pc'[q] \notin {"send", "sendlast"}
      BY <1>1, <2>1
      DEF StartReadFrom, TakeFree, ReadNothing, ReadFail, SendEncode, ReturnReadFrom, ClearSsid,
          Goto, LabelsOK, q
    <3> QED BY <3>1 DEF q
  <2> QED BY <1>9, <2>1 DEF ClientStep
<1>10. ASSUME NEW w \in Waiters, WaiterStep(w) PROVE Stays
  <2>1. CASE \E s \in 1..MaxSsid : StartWriteTo(w, s)
    BY <1>1, <1>2, <2>1 DEF StartWriteTo, Goto, LabelsOK
  <2>2. CASE ReturnWriteTo(w)
    <3>1. Active(c) => sess[q] # sess[WriteTo(w)]
      BY <2>2 DEF ReturnWriteTo, At, SessionInv, q
    <3> QED BY <1>2, <1>7, <2>2, <3>1, ProcsOf DEF ReturnWriteTo
  <2> QED BY <1>10, <2>1, <2>2 DEF WaiterStep
<1>11. ASSUME NEW e \in Encoders, EncoderStep(e) PROVE Stays
  BY <1>1, <1>2, <1>11
  DEF EncoderStep, TakeEncode, Encode, Goto, Recv, Send, LabelsOK, HoldsOK, sessions
<1>12. ASSUME NEW l \in Links, WriterStep(l) PROVE Stays
  BY <1>1, <1>2, <1>12
  DEF WriterStep, SelectFast, SelectDefault, TakeBulk, WriteDone, WriteFail,
      Goto, Recv, Send, LabelsOK, HoldsOK, sessions
<1>13. ASSUME NEW l \in Links, ReaderStep(l) PROVE Stays
  <2>1. pc'[q] = pc[q] /\ mf'[q] = mf[q] /\ sess'[q] = sess[q]
    BY <1>1, <1>2, <1>13
    DEF ReaderStep, TakeRead, ReadHeader, ReadBadHeader, ReadPayload, ReadBadPayload,
        ReadLinkFail, Goto, Recv, Send, LabelsOK, HoldsOK, sessions
  <2>2. ssindex' = ssindex \/ \E s : ssindex' = Registered(s)
    BY <1>13
    DEF ReaderStep, TakeRead, ReadHeader, ReadBadHeader, ReadPayload, ReadBadPayload,
        ReadLinkFail, sessions
  <2> QED BY <1>3, <1>5, <2>1, <2>2
<1>14. ASSUME RunReadWriter PROVE Stays
  <2> DEFINE l == Head(mixerCh)
  <2>1. \A p \in Procs : p # WriteLoop(l) /\ p # ReadLoop(l) => pc'[p] = pc[p]
    BY <1>1, <1>14 DEF RunReadWriter, LabelsOK
  <2>2. pc'[q] = pc[q]
    BY <1>1, <2>1 DEF WriteLoop, ReadLoop, ReadFrom, q
  <2>3. UNCHANGED <<ssindex, sess, mf>>
    BY <1>14 DEF RunReadWriter, sessions
  <2> QED BY <2>2, <2>3
<1>15. ASSUME (\E l \in Links : AddMixerIO(l)) \/ UNCHANGED vars PROVE Stays
  BY <1>15 DEF AddMixerIO, vars, sessions
<1>16. Stays \/ \E n \in Lengths, last \in BOOLEAN : ReadData(c, n, last)
  BY <1>8, <1>9, <1>10, <1>11, <1>12, <1>13, <1>14, <1>15 DEF Next
<1> QED BY <1>4, <1>16 DEF q

\* Names are pairs of numbers.
LEMMA NameTypes ==
  ASSUME TypeOK
  PROVE  /\ \A f \in Frames : Name(f) \in Nat \X Nat
         /\ Accepted \subseteq Nat \X Nat /\ Pending \subseteq Nat \X Nat
<1>1. \A f \in Frames : Name(f) \in Nat \X Nat
  BY DEF TypeOK, FrameType, Name
<1>2. Pending \subseteq Nat \X Nat
  BY <1>1, FlightFacts
<1> QED BY <1>1, <1>2 DEF TypeOK, Accepted

\* The three kinds of step, in terms of names, and distinct names after them.
LEMMA PendingSteps ==
  ASSUME TypeOK, SingleOwner, FlightInv, [Next]_vars
  PROVE  /\ \/ UNCHANGED <<Pending, delivered>>
            \/ \E c \in Clients : /\ SendEncode(c) /\ UNCHANGED delivered
                                  /\ Pending' = Pending \cup {Name(mf[ReadFrom(c)])}
            \/ \E x \in Pending : /\ Pending' = Pending \ {x}
                                  /\ delivered' = delivered \cup {x}
         /\ \A f, g \in InFlight' : Name(f)' = Name(g)' => f = g
<1>1. Pending = {Name(f) : f \in InFlight}
  BY FlightFacts
<1>2. Pending' = {Name(f)' : f \in InFlight'}
  <2>1. (Pending = {Name(f) : f \in InFlight})'
    BY FlightFacts, PTL
  <2> QED BY <2>1
<1>3. \A f, g \in InFlight : Name(f) = Name(g) => f = g
  BY DEF FlightInv, NameInv
<1>4. CASE Quiet
  <2>1. \A f \in InFlight : Name(f)' = Name(f)
    BY <1>4 DEF Quiet
  <2> QED BY <1>1, <1>2, <1>3, <1>4, <2>1 DEF Quiet
<1>5. ASSUME NEW c \in Clients, Submits(c)
      PROVE  /\ SendEncode(c) /\ UNCHANGED delivered
             /\ Pending' = Pending \cup {Name(mf[ReadFrom(c)])}
             /\ \A f, g \in InFlight' : Name(f)' = Name(g)' => f = g
  <2> DEFINE y == mf[ReadFrom(c)]
  <2>1. /\ InFlight' = InFlight \cup {y} /\ SendEncode(c) /\ UNCHANGED <<frame, delivered>>
    BY <1>5 DEF Submits
  <2>2. \A f : Name(f)' = Name(f)
    BY <2>1 DEF Name
  <2>3. \A f \in InFlight : Name(f) # Name(y)
    <3>1. Newest(c)
      BY <2>1 DEF SendEncode, FlightInv, NameInv
    <3>2. ASSUME NEW f \in InFlight, Name(f) = Name(y) PROVE FALSE
      <4>1. Name(f) \in Accepted /\ Name(f) \in Nat \X Nat
        BY <1>1, NameTypes DEF Accepted
      <4>2. Name(f)[1] = sess[ReadFrom(c)] /\ Name(f)[2] = ssindex[sess[ReadFrom(c)]]
        BY <3>1, <3>2 DEF Newest
      <4>3. Name(f)[2] < ssindex[sess[ReadFrom(c)]]
        BY <3>1, <4>1, <4>2 DEF Newest
      <4> QED BY <4>1, <4>2, <4>3
    <3> QED BY <3>2
  <2> HIDE DEF y
  <2>4. Pending' = Pending \cup {Name(y)}
    BY <1>1, <1>2, <2>1, <2>2
  <2>5. \A f, g \in InFlight' : Name(f)' = Name(g)' => f = g
    BY <1>3, <2>1, <2>2, <2>3
  <2> QED BY <2>1, <2>4, <2>5 DEF y
<1>6. ASSUME NEW l \in Links, Delivers(l)
      PROVE  /\ \E x \in Pending : Pending' = Pending \ {x} /\ delivered' = delivered \cup {x}
             /\ \A f, g \in InFlight' : Name(f)' = Name(g)' => f = g
  <2> DEFINE y == mf[WriteLoop(l)]
  <2>1. /\ y \in InFlight /\ InFlight' = InFlight \ {y} /\ UNCHANGED frame
        /\ delivered' = delivered \cup {Name(y)}
    BY <1>6 DEF Delivers
  <2>2. \A f : Name(f)' = Name(f)
    BY <2>1 DEF Name
  <2> HIDE DEF y
  <2>3. Pending' = Pending \ {Name(y)} /\ Name(y) \in Pending
    BY <1>1, <1>2, <1>3, <2>1, <2>2
  <2>4. \A f, g \in InFlight' : Name(f)' = Name(g)' => f = g
    BY <1>3, <2>1, <2>2
  <2> QED BY <2>1, <2>3, <2>4
<1> QED BY <1>4, <1>5, <1>6, FlightSteps

\* encodeCh is left alone, loses its head, or gains a client's or a peer's frame.
LEMMA EncodeChSteps ==
  ASSUME TypeOK, [Next]_vars
  PROVE  LET q == ch["encodeCh"] IN
         \/ ch'["encodeCh"] = q
         \/ q # <<>> /\ ch'["encodeCh"] = Tail(q)
         \/ \E c \in Clients : SendEncode(c) /\ ch'["encodeCh"] = Append(q, mf[ReadFrom(c)])
         \/ \E l \in Links : ReadPayload(l) /\ ch'["encodeCh"] = Append(q, mf[ReadLoop(l)])
<1>1. ch \in [Chans -> Seq(Frames)] /\ "encodeCh" \in Chans
  BY DEF TypeOK, Chans
<1>2. CASE UNCHANGED <<ch, mf>> \/ Forwards
  BY <1>2 DEF Forwards
<1>3. CASE Receives
  BY <1>1, <1>3 DEF Receives, Recv
<1>4. CASE Releases
  BY <1>1, <1>4 DEF Releases, Drop, Send
<1>5. ASSUME NEW c \in Clients, SendEncode(c)
      PROVE  ch'["encodeCh"] = Append(ch["encodeCh"], mf[ReadFrom(c)])
  BY <1>1, <1>5 DEF SendEncode, Send
<1>6. ASSUME NEW l \in Links, ReadPayload(l)
      PROVE  ch'["encodeCh"] = Append(ch["encodeCh"], mf[ReadLoop(l)])
  BY <1>1, <1>6 DEF ReadPayload, Send
<1>7. ASSUME NEW l \in Links, WriteDone(l)
      PROVE  ch'["encodeCh"] = ch["encodeCh"]
  BY <1>1, <1>7 DEF WriteDone, Send
<1> QED BY <1>2, <1>3, <1>4, <1>5, <1>6, <1>7, Moves

\* SendEncode appends a name above those of its session that are queued.
LEMMA StepOrder ==
  ASSUME TypeOK, SingleOwner, FlightInv, [Next]_vars
  PROVE  EncodeOrder'
<1> DEFINE q == ch["encodeCh"]
           Below(h, f, g) == h[f].origin = "client" /\ h[g].origin = "client"
                               /\ h[f].ssid = h[g].ssid => h[f].index < h[g].index
<1>1. q \in Seq(Frames) /\ "encodeCh" \in Wires /\ "encodeCh" \in Chans
  BY DEF TypeOK, Chans, Wires
<1>2. \A i, j \in DOMAIN q : i < j => Below(frame, q[i], q[j])
  BY DEF FlightInv, NameInv, EncodeOrder
<1>3. \A i \in DOMAIN q : q[i] \in Frames /\ Flying(q[i])
  BY <1>1 DEF Flying, InChan
<1>4. \A i \in DOMAIN q : /\ frame'[q[i]].origin = frame[q[i]].origin
                          /\ frame'[q[i]].ssid = frame[q[i]].ssid
                          /\ frame'[q[i]].index = frame[q[i]].index
  BY <1>3, FlyingKept DEF Name
<1>5. \A i, j \in DOMAIN q : i < j => Below(frame', q[i], q[j])
  BY <1>2, <1>4
<1>6. (\A i, j \in DOMAIN q' : i < j => Below(frame', q'[i], q'[j])) => EncodeOrder'
  BY DEF EncodeOrder
<1>7. CASE q' = q
  BY <1>5, <1>6, <1>7
<1>8. CASE q # <<>> /\ q' = Tail(q)
  <2>1. \A i \in DOMAIN q' : i \in Int /\ i + 1 \in DOMAIN q /\ q'[i] = q[i + 1]
    BY <1>1, <1>8, TailFacts
  <2>2. \A i, j \in DOMAIN q' : i < j => i + 1 < j + 1
    BY <2>1
  <2> QED BY <1>5, <1>6, <2>1, <2>2
\* The frame that is appended is below none, and above all of its session.
<1>9. ASSUME NEW y \in Frames, q' = Append(q, y), \A i \in DOMAIN q : Below(frame', q[i], y)
      PROVE  EncodeOrder'
  <2>1. /\ DOMAIN q' = DOMAIN q \cup {Len(q) + 1} /\ q'[Len(q) + 1] = y
        /\ \A i \in DOMAIN q : q'[i] = q[i] /\ i < Len(q) + 1
        /\ DOMAIN q \subseteq Int /\ Len(q) + 1 \in Int
    BY <1>1, <1>9
  <2>2. ASSUME NEW i \in DOMAIN q', NEW j \in DOMAIN q', i < j
        PROVE  i \in DOMAIN q /\ (j \in DOMAIN q \/ j = Len(q) + 1)
    BY <2>1, <2>2
  <2> QED BY <1>5, <1>6, <1>9, <2>1, <2>2
<1>10. ASSUME NEW c \in Clients, SendEncode(c), q' = Append(q, mf[ReadFrom(c)])
       PROVE  EncodeOrder'
  <2> DEFINE y == mf[ReadFrom(c)]
  <2>1. UNCHANGED frame /\ y \in Frames /\ Newest(c)
    BY <1>10, ProcsOf, HeldFrames DEF SendEncode, Holding, FlightInv, NameInv
  <2>2. ASSUME NEW i \in DOMAIN q, frame[q[i]].origin = "client", frame[q[i]].ssid = frame[y].ssid
        PROVE  frame[q[i]].index < frame[y].index
    <3>1. Name(q[i]) \in Accepted
      BY <1>3, <2>2, FlightFacts DEF Accepted
    <3>2. /\ frame[y].ssid = sess[ReadFrom(c)]
          /\ frame[y].index = ssindex[sess[ReadFrom(c)]]
      BY <2>1 DEF Newest, Name
    <3>3. Name(q[i])[1] = sess[ReadFrom(c)] /\ Name(q[i])[2] = frame[q[i]].index
      BY <2>2, <3>2 DEF Name
    <3> QED BY <2>1, <3>1, <3>2, <3>3 DEF Newest
  <2> QED BY <1>9, <1>10, <2>1, <2>2
<1>11. ASSUME NEW l \in Links, ReadPayload(l), q' = Append(q, mf[ReadLoop(l)])
       PROVE  EncodeOrder'
  <2>1. /\ UNCHANGED frame /\ mf[ReadLoop(l)] \in Frames
        /\ frame[mf[ReadLoop(l)]].origin = "wire"
    BY <1>11, ProcsOf, HeldFrames DEF ReadPayload, At, Holding, FlightInv, ContentInv
  <2> QED BY <1>9, <1>11, <2>1
<1> QED BY <1>7, <1>8, <1>10, <1>11, EncodeChSteps

\* Every step keeps the names below the counters, and apart.
LEMMA StepNames ==
  ASSUME TypeOK, SingleOwner, SessionInv, FlightInv, [Next]_vars
  PROVE  NameInv'
<1>1. /\ \A x \in Accepted : x[1] <= ssid /\ x[1] \in Nat /\ x[2] \in Nat
      /\ \A c \in Clients : Active(c) =>
           \A x \in Accepted : x[1] = sess[ReadFrom(c)] => x[2] <= ssindex[x[1]]
      /\ \A c \in Clients : pc[ReadFrom(c)] \in {"send", "sendlast"} => Newest(c)
      /\ Pending \cap delivered = {}
  BY NameTypes DEF FlightInv, NameInv
<1>2. /\ ssid \in Nat /\ ssid' \in Nat /\ ssid <= ssid'
      /\ \A c \in Clients : Active(c)' =>
           LET s == sess'[ReadFrom(c)] IN
           \/ s = ssid + 1
           \/ /\ Active(c) /\ s = sess[ReadFrom(c)] /\ s \in Live
              /\ ssindex[s] \in Nat /\ ssindex'[s] \in Nat /\ ssindex[s] <= ssindex'[s]
  BY Counters
\* What is accepted after the step was before, or is what a ReadFrom sends.
<1>3. ASSUME NEW x \in Accepted'
      PROVE  \/ x \in Accepted
             \/ \E d \in Clients : /\ SendEncode(d) /\ x = Name(mf[ReadFrom(d)])
                                   /\ x[1] = sess[ReadFrom(d)] /\ x[2] = ssindex[x[1]]
                                   /\ x \notin Accepted
  <2>1. ASSUME NEW d \in Clients, SendEncode(d), x = Name(mf[ReadFrom(d)]), x \notin Accepted
        PROVE  x[1] = sess[ReadFrom(d)] /\ x[2] = ssindex[x[1]]
    BY <1>1, <2>1 DEF SendEncode, Newest
  <2>2. \/ x \in Accepted
        \/ \E d \in Clients : SendEncode(d) /\ x = Name(mf[ReadFrom(d)])
    BY <1>3, PendingSteps DEF Accepted
  <2> QED BY <2>1, <2>2
<1>4. \A d \in Clients : SendEncode(d) => /\ Active(d) /\ sess[ReadFrom(d)] <= ssid
                                          /\ sess[ReadFrom(d)] \in Nat /\ UNCHANGED <<ssid, sess, ssindex>>
  BY ProcsOf DEF SendEncode, Active, SessionInv, TypeOK, sessions
<1>5. \A x \in Accepted' : x[1] <= ssid'
  BY <1>1, <1>2, <1>3, <1>4
<1>6. ASSUME NEW c \in Clients, Active(c)', NEW x \in Accepted', x[1] = sess'[ReadFrom(c)]
      PROVE  x[2] <= ssindex'[x[1]]
  <2>1. CASE x \in Accepted
    BY <1>1, <1>2, <1>6, <2>1
  <2>2. ASSUME NEW d \in Clients, SendEncode(d), x[1] = sess[ReadFrom(d)], x[2] = ssindex[x[1]]
        PROVE  x[2] <= ssindex'[x[1]]
    <3>1. /\ x[1] <= ssid /\ x[1] \in Nat /\ ssindex' = ssindex
      BY <1>4, <2>2
    <3>2. ssindex[x[1]] \in Nat
      BY <1>2, <1>6, <3>1
    <3> QED BY <2>2, <3>1, <3>2
  <2> QED BY <1>3, <2>1, <2>2
<1>7. ASSUME NEW c \in Clients, pc'[ReadFrom(c)] \in {"send", "sendlast"}
      PROVE  Newest(c)'
  <2> DEFINE p == ReadFrom(c)
             s == sess[p]
  <2>1. p \in Procs
    BY ProcsOf
  \* What another ReadFrom sends is of another session.
  <2>2. ASSUME Active(c), NEW x \in Accepted', x[1] = s
        PROVE  x \in Accepted
    <3>1. ASSUME NEW d \in Clients, SendEncode(d), x[1] = sess[ReadFrom(d)] PROVE FALSE
      <4>1. d = c
        BY <1>4, <2>2, <3>1 DEF SessionInv, DistinctSessions
      <4>2. pc'[p] \in {"take", "clear"}
        BY <2>1, <3>1, <4>1 DEF SendEncode, Goto, TypeOK, LabelsOK
      <4> QED BY <1>7, <4>2
    <3> QED BY <1>3, <2>2, <3>1
  <2>3. CASE /\ pc[p] \in {"send", "sendlast"} /\ mf'[p] = mf[p]
             /\ ssindex'[s] = ssindex[s] /\ sess'[p] = s
    <3>1. Active(c) /\ Newest(c) /\ mf[p] \in Frames
      BY <1>1, <2>1, <2>3, HeldFrames DEF Active, Holding
    <3>2. \A q \in Procs : mf[q] = mf[p] => q = p
      BY <2>1, <3>1, FramesAssumption DEF SingleOwner
    <3>3. \A l \in Links : ReadLoop(l) # p
      BY DEF ReadLoop, ReadFrom
    <3>4. Name(mf[p])' = Name(mf[p]) /\ frame'[mf[p]].origin = frame[mf[p]].origin
      <4>1. \A d \in Clients : pc[ReadFrom(d)] = "read" => mf[ReadFrom(d)] # mf[p]
        BY <2>3, <3>2, ProcsOf
      <4>2. \A l \in Links : pc[ReadLoop(l)] = "header" => mf[ReadLoop(l)] # mf[p]
        BY <3>2, <3>3, ProcsOf
      <4> QED BY <2>3, <3>1, <4>1, <4>2, NamesKept DEF Name
    <3>5. \A x \in Accepted' : x[1] = s => x[2] < ssindex[s]
      BY <2>2, <3>1 DEF Newest
    <3> QED BY <2>3, <3>1, <3>4, <3>5 DEF Newest, Name
  <2>4. ASSUME NEW n \in Lengths, NEW last \in BOOLEAN, ReadData(c, n, last)
        PROVE  Newest(c)'
    <3>1. Active(c) /\ mf[p] \in Frames /\ mf' = mf /\ sess' = sess /\ s \in Live
      BY <2>1, <2>4, HeldFrames
      DEF ReadData, At, Active, Holding, SessionInv, OwnSession
    <3>2. /\ ssindex' = [ssindex EXCEPT ![s] = @ + 1]
          /\ frame' = [frame EXCEPT ![mf[p]] =
                         [ssid |-> s, index |-> ssindex[s] + 1, origin |-> "client",
                          size |-> n, bodylen |-> n, cap |-> @.cap]]
      BY <2>4, <3>1 DEF ReadData
    <3>3. ssindex \in [Live -> Nat] /\ frame \in [Frames -> FrameType]
      BY DEF TypeOK
    <3>4. ssindex'[s] = ssindex[s] + 1 /\ ssindex[s] \in Nat
      BY <3>1, <3>2, <3>3
    <3>5. frame'[mf[p]].origin = "client" /\ Name(mf[p])' = <<s, ssindex[s] + 1>>
      BY <3>1, <3>2, <3>3 DEF Name
    <3>6. \A x \in Accepted' : x[1] = s => x[2] < ssindex'[s]
      BY <1>1, <2>2, <3>1, <3>4
    <3> QED BY <3>1, <3>4, <3>5, <3>6 DEF Newest, Name
  <2> QED BY <1>7, <2>3, <2>4, DataStays
<1>8. Pending' \cap delivered' = {}
  <2>1. ASSUME NEW d \in Clients, SendEncode(d) PROVE Name(mf[ReadFrom(d)]) \notin Accepted
    <3>1. Newest(d) /\ ssindex[sess[ReadFrom(d)]] \in Nat
      BY <1>1, <1>4, <2>1 DEF SendEncode, SessionInv, OwnSession, TypeOK
    <3> QED BY <3>1 DEF Newest
  <2> QED BY <1>1, <2>1, PendingSteps DEF Accepted
<1>9. \A f, g \in InFlight' : Name(f)' = Name(g)' => f = g
  BY PendingSteps
<1> QED BY <1>5, <1>6, <1>7, <1>8, <1>9, StepOrder DEF NameInv

-----------------------------------------------------------------------------
(* The pool.                                                               *)

\* A frame that is no longer in any place was dropped by a ReadFrom at its read.
LEMMA PoolSteps ==
  ASSUME TypeOK, SingleOwner, [Next]_vars, NEW f \in Frames, Placed(f), ~Placed(f)'
  PROVE  \E c \in Clients : pc[ReadFrom(c)] = "read" /\ mf[ReadFrom(c)] = f
<1>1. ChanTypes /\ HoldsOK /\ mf \in [Procs -> Frames \cup {NoFrame}] /\ f # NoFrame
  BY FramesAssumption DEF TypeOK, ChanTypes, HoldsOK
\* What a goroutine receives it holds, and what it sends is in a channel.
<1>2. ASSUME NEW p \in Procs, NEW a \in Chans, mf[p] = NoFrame, Recv(p, a) PROVE FALSE
  <2>1. PICK x \in Frames :
          /\ InChan(x, a) /\ mf' = [mf EXCEPT ![p] = x]
          /\ \A g, b : b \in Chans => (InChan(g, b)' <=> InChan(g, b) /\ ~(b = a /\ g = x))
    BY <1>1, <1>2, RecvIn
  <2>2. mf'[p] = x /\ \A q \in Procs : q # p => mf'[q] = mf[q]
    BY <1>1, <2>1
  <2> QED BY <1>1, <1>2, <2>1, <2>2 DEF Placed
<1>3. ASSUME NEW p \in Procs, NEW a \in Chans, mf[p] \in Frames, Send(p, a) PROVE FALSE
  <2>1. /\ mf' = [mf EXCEPT ![p] = NoFrame]
        /\ \A g, b : b \in Chans => (InChan(g, b)' <=> InChan(g, b) \/ (b = a /\ g = mf[p]))
    BY <1>1, <1>3, SendIn
  <2>2. \A q \in Procs : q # p => mf'[q] = mf[q]
    BY <1>1, <2>1
  <2> QED BY <1>1, <1>3, <2>1, <2>2 DEF Placed
<1>4. ASSUME NEW p \in Procs, Drop(p) PROVE mf[p] = f
  <2>1. ch' = ch /\ \A q \in Procs : q # p => mf'[q] = mf[q]
    BY <1>1, <1>4 DEF Drop
  <2> QED BY <2>1 DEF Placed, InChan
<1>5. CASE UNCHANGED <<ch, mf>>
  BY <1>5 DEF Placed, InChan
<1>6. CASE Receives
  BY <1>2, <1>6 DEF Receives
<1>7. CASE Forwards
  BY <1>3, <1>7, CarriersOf DEF Forwards, Wires
<1>8. CASE Releases
  BY <1>3, <1>4, <1>8 DEF Releases, Chans
<1>9. ASSUME NEW c \in Clients, SendEncode(c) PROVE FALSE
  BY <1>3, <1>9, ProcsOf, HeldFrames DEF SendEncode, Holding, Chans
<1>10. ASSUME NEW l \in Links, ReadPayload(l) PROVE FALSE
  BY <1>3, <1>10, ProcsOf, HeldFrames DEF ReadPayload, At, Holding, Chans
<1>11. ASSUME NEW l \in Links, WriteDone(l) PROVE FALSE
  BY <1>3, <1>11, ProcsOf, HeldFrames DEF WriteDone, At, Holding, Chans
<1> QED BY <1>5, <1>6, <1>7, <1>8, <1>9, <1>10, <1>11, Moves

-----------------------------------------------------------------------------
(* Theorems.                                                               *)

\* Before any step nothing is in flight.
LEMMA InitFlight == Init => FlightInv /\ Pending = {} /\ delivered = {}
<1> SUFFICES ASSUME Init PROVE FlightInv /\ Pending = {} /\ delivered = {}
  OBVIOUS
<1>1. InFlight = {} /\ Pending = {} /\ delivered = {}
  BY DEF Init, InFlight, Pending
<1>2. \A c \in Clients : pc[ReadFrom(c)] = "idle"
  BY ProcsOf DEF Init, ReadFrom
<1>3. ch["encodeCh"] = <<>>
  BY DEF Init, Chans
<1>4. NameInv
  BY <1>1, <1>2, <1>3 DEF NameInv, Accepted, Active, EncodeOrder
<1> QED BY <1>1, <1>4, InitContent DEF FlightInv

MixerInv == TypeOK /\ SingleOwner /\ SessionInv /\ FlightInv

\* The inductive invariant of the mixer: types, owners, sessions and flight.
LEMMA MixerInvariant == Spec => []MixerInv
<1>1. Init => MixerInv
  BY InitType, InitOwner, InitSession, InitFlight DEF MixerInv
<1>2. MixerInv /\ [Next]_vars => MixerInv'
  BY StepTypes, StepLinks, StepOwner, StepSession, StepContent, StepNames
  DEF MixerInv, FlightInv, TypeOK, ChanTypes, DataOK
<1> QED BY <1>1, <1>2, PTL DEF Spec

\* A block that a new framebuf holds with a byte to spare is always encoded: the
\* panic on a failed encode is NoopCodec's, on a longer block. Neither the frame's
\* earlier uses nor the bodylen a peer names can take that room away.
THEOREM ShortBlocksEncode == Spec => []ShortFramesEncode
<1>1. MixerInv => ShortFramesEncode
  BY DEF MixerInv, FlightInv, ContentInv
<1> QED BY <1>1, MixerInvariant, PTL

\* Frames of one session wait in encodeCh in the order ReadFrom numbered them,
\* whatever other sessions and peers send in between.
THEOREM EncodedInOrder == Spec => []EncodeOrder
<1>1. MixerInv => EncodeOrder
  BY DEF MixerInv, FlightInv, NameInv
<1> QED BY <1>1, MixerInvariant, PTL

\* Two ReadFrom calls in progress never share a session, whatever ids peers
\* register in between.
THEOREM SessionsAreDistinct == Spec => []DistinctSessions
<1>1. MixerInv => DistinctSessions
  BY DEF MixerInv, SessionInv
<1> QED BY <1>1, MixerInvariant, PTL

\* No goroutine but a ReadFrom whose read gave no data loses a frame: write and
\* read errors, links that go away and returns all give theirs back.
THEOREM PoolIsKept == Spec => PoolShrinksOnEmptyReadOnly
<1>1. MixerInv /\ [Next]_vars =>
        \A f \in Frames : Placed(f) /\ ~Placed(f)' =>
          \E c \in Clients : pc[ReadFrom(c)] = "read" /\ mf[ReadFrom(c)] = f
  BY PoolSteps DEF MixerInv
<1> QED BY <1>1, MixerInvariant, PTL DEF Spec, PoolShrinksOnEmptyReadOnly

\* Each step submits a frame with a fresh name, delivers a pending one, or is no
\* step of the transport.
LEMMA StepTransport ==
  ASSUME MixerInv, [Next]_vars
  PROVE  [Transport!Next]_<<Pending, delivered>>
<1>1. ASSUME NEW c \in Clients, SendEncode(c), UNCHANGED delivered,
             Pending' = Pending \cup {Name(mf[ReadFrom(c)])}
      PROVE  Transport!Next
  <2> DEFINE x == Name(mf[ReadFrom(c)])
  <2>1. Newest(c)
    BY <1>1 DEF SendEncode, MixerInv, FlightInv, NameInv
  <2>2. x = <<x[1], x[2]>> /\ x[1] = sess[ReadFrom(c)] /\ x[2] = ssindex[sess[ReadFrom(c)]]
    BY <2>1 DEF Newest, Name
  <2>3. \A y \in Pending \cup delivered : y[1] = x[1] => y[2] < x[2]
    BY <2>1, <2>2 DEF Newest, Accepted
  <2> HIDE DEF x
  <2>4. x \in Pending' /\ Pending' = Pending \cup {<<x[1], x[2]>>}
    BY <1>1, <2>2 DEF x
  <2>5. Transport!Submit(x[1], x[2])
    BY <1>1, <2>3, <2>4 DEF Transport!Submit
  <2> QED BY <2>4, <2>5 DEF Transport!Next
<1>2. ASSUME NEW x \in Pending, Pending' = Pending \ {x}, delivered' = delivered \cup {x}
      PROVE  Transport!Next
  BY <1>2 DEF Transport!Next, Transport!Deliver
<1> QED BY <1>1, <1>2, PendingSteps DEF MixerInv

\* CodecMixer implements FrameTransport: a frame a ReadFrom hands over stays
\* pending, through write errors and links that go away, until it is written
\* whole, and it is written whole once.
THEOREM ImplementsTransport == Spec => TransportSpec
<1>1. Init => Transport!Init
  BY InitFlight DEF Transport!Init
<1>2. MixerInv /\ [Next]_vars => [Transport!Next]_<<Pending, delivered>>
  BY StepTransport
<1> QED BY <1>1, <1>2, MixerInvariant, PTL DEF Spec, TransportSpec, Transport!Spec
=============================================================================
