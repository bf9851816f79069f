------------------------------ MODULE Messages ------------------------------
(***************************************************************************)
(* What cmtp puts on the wire: CMsg (cmsg.go), the header of a frame       *)
(* (cmtp.go) and the copying codec (codec_hash.go), all of them written    *)
(* through misc.ByteRWCloser. One side makes and marshals, the other,      *)
(* which uses its CMsg and its frame again and again, unmarshals what of   *)
(* it has arrived.                                                         *)
(*                                                                         *)
(* A text is the first len bytes of one of the texts there are.            *)
(***************************************************************************)
EXTENDS Integers

CONSTANTS
  Limit,       \* 1024: the longest text of a marshalled CMsg
  MsgHdrLen,   \* code, id and length of the text
  LenSize,     \* the last of these, 4 bytes
  Codes, Ids,  \* the codes and the ids of messages; ids of frames, too
  MsgTexts,    \* the lengths texts have; each length is another text
  Frametypes,  \* the types between FRAME_MAGIC_UNSET and FRAME_MAGIC_LAST
  BadTypes     \* and those outside

ASSUME MessagesAssumption ==
  /\ LenSize \in Nat /\ MsgHdrLen \in Nat /\ LenSize < MsgHdrLen /\ Limit \in Nat
  /\ MsgTexts \subseteq Nat /\ 0 \in MsgTexts
  /\ Frametypes \cap BadTypes = {}

VARIABLES
  travels,     \* what a behaviour is about: "cmsg", "frame"
  tx, rx,      \* a CMsg of either side
  stream,      \* what Marshal of tx returned last, or NoStream
  msgOut,      \* what the last call was and returned
  txFrame, rxFrame,  \* a mixerFrame of either side
  header       \* the header in the framebuf that travels, and its bytes that arrived

msgVars == <<travels, tx, rx, stream, msgOut, txFrame, rxFrame, header>>

NoText == [of |-> 0, len |-> 0]
Least(a, b) == IF a <= b THEN a ELSE b
Cut(text, n) == IF Least(text.len, n) = 0 THEN NoText ELSE [text EXCEPT !.len = Least(@, n)]
NilErr == [of |-> -1, len |-> 0]
NewMsg == [code |-> 0, id |-> 0, msg |-> NoText, err |-> NilErr]
NoStream == [code |-> 0, id |-> 0, elen |-> 0, body |-> NoText, len |-> 0]

\* ByteRWCloser: how much of n bytes Write takes with room bytes left. What fills
\* the rest exactly is a short write, too. Read of have bytes into n.
BrwWrite(room, n) == [n |-> Least(room, n), short |-> room <= n]
BrwRead(have, n) == [n |-> Least(have, n), eof |-> have <= n]

\* NoopCodec.Encode and Decode of n bytes to dst.
NoopCode(dst, n) ==
  IF dst < n THEN [n |-> 0, err |-> "buflen"]
  ELSE IF BrwWrite(dst, n).short THEN [n |-> 0, err |-> "short"] ELSE [n |-> n, err |-> "nil"]

\* The text Marshal and MarshalSize store in a message that has only an error.
WithText(m) == IF m.msg = NoText /\ m.err # NilErr THEN [m EXCEPT !.msg = m.err] ELSE m
MarshalSize(m) == MsgHdrLen + Least(WithText(m).msg.len, Limit)

\* Marshal: the last write, of the length, fails when no text comes after it.
Marshalled(m) ==
  LET text == Cut(WithText(m).msg, Limit)
  IN  [code |-> m.code, id |-> m.id, elen |-> text.len, body |-> text, len |-> MarshalSize(m)]
MarshalFails(m) == BrwWrite(MarshalSize(m) - MsgHdrLen + LenSize, LenSize).short

\* Plausible fault, not used by the specification.
TextLenTrust(elen, plen) == Least(elen, Limit)

\* The length UnMarshal takes from the header: what is there, or 1024 at most.
TextLen(elen, plen) == IF elen > plen THEN plen ELSE Least(elen, Limit)

\* UnMarshal of the first n bytes of s to m. Its empty text has no error.
UnMarshalled(m, s, n) ==
  LET text == Cut(s.body, TextLen(s.elen, n - MsgHdrLen))
      filled == [m EXCEPT !.code = s.code, !.id = s.id]
  IN  IF text = NoText THEN [filled EXCEPT !.msg = NoText, !.err = NilErr]
      ELSE [filled EXCEPT !.msg = text, !.err = text]
-----------------------------------------------------------------------------
NewFrame == [frametype |-> "unset", ssid |-> 1, index |-> 0, sum |-> "none"]
NoHeader == [NewFrame EXCEPT !.frametype = "none"]

MsgInit ==
  /\ travels \in {"cmsg", "frame"}
  /\ tx = NewMsg /\ rx = NewMsg /\ stream = NoStream /\ msgOut = [op |-> "none", n |-> 0]
  /\ txFrame = NewFrame /\ rxFrame = NewFrame
  /\ header = [fields |-> NoHeader, here |-> FALSE]

Does(op, n) == msgOut' = [op |-> op, n |-> n]

\* The literals of the code: a code, an id, a text or an error or neither.
MakeMsg ==
  /\ \E c \in Codes, i \in Ids, n \in MsgTexts, text \in {"msg", "err"} :
       tx' = IF n = 0 THEN [NewMsg EXCEPT !.code = c, !.id = i]
             ELSE [NewMsg EXCEPT !.code = c, !.id = i, ![text] = [of |-> n, len |-> n]]
  /\ Does("make", 0) /\ UNCHANGED <<rx, stream, txFrame, rxFrame, header>>

Marshal ==
  /\ tx' = WithText(tx)
  /\ IF MarshalFails(tx) THEN Does("marshal failed", 0) /\ UNCHANGED stream
     ELSE Does("marshal", 0) /\ stream' = Marshalled(tx)
  /\ UNCHANGED <<rx, txFrame, rxFrame, header>>

\* CMsg.Read to a buffer of n bytes: the beginning of what Marshal returns.
ReadMsg(n) ==
  /\ tx' = WithText(tx)
  /\ IF MarshalFails(tx) THEN Does("marshal failed", 0)
     ELSE Does("read", BrwRead(MarshalSize(tx), n).n)
  /\ UNCHANGED <<rx, stream, txFrame, rxFrame, header>>

UnMarshal(n) ==
  /\ stream # NoStream /\ n <= stream.len
  /\ IF n < MsgHdrLen THEN Does("too few", n) /\ UNCHANGED rx
     ELSE Does("unmarshal", n) /\ rx' = UnMarshalled(rx, stream, n)
  /\ UNCHANGED <<tx, stream, txFrame, rxFrame, header>>

\* Equal calls the Error of both errors, nil or not, once code and text agree.
EqualMsg ==
  /\ LET same == tx.code = rx.code /\ tx.msg = rx.msg
     IN  CASE ~same -> Does("differ", 0)
           [] same /\ NilErr \in {tx.err, rx.err} -> Does("panic", 0)
           [] OTHER -> Does(IF tx.err = rx.err THEN "equal" ELSE "differ", 0)
  /\ UNCHANGED <<tx, rx, stream, txFrame, rxFrame, header>>

\* headerInit and MarshalHeader. The sum is over the fields before it.
MarshalHeader ==
  /\ \E t \in Frametypes \cup BadTypes, s, i \in Ids :
       LET mf == [frametype |-> t, ssid |-> s, index |-> i, sum |-> <<t, s, i>>]
       IN  txFrame' = mf /\ header' = [fields |-> mf, here |-> FALSE]
  /\ Does("header", 0) /\ UNCHANGED <<tx, rx, stream, rxFrame>>

\* The network delivers the header, with the number of another session perhaps.
DeliverHeader ==
  /\ header.fields # NoHeader /\ ~header.here
  /\ \E s \in Ids : header' = [fields |-> [header.fields EXCEPT !.ssid = s], here |-> TRUE]
  /\ Does("deliver", 0) /\ UNCHANGED <<tx, rx, stream, txFrame, rxFrame>>

\* UnMarshalHeader computes the sum of what arrived and overwrites it with the
\* sum that arrived, without comparing them.
UnMarshalHeader ==
  LET empty == [rxFrame EXCEPT !.index = 0, !.frametype = "unset"]
      h == header.fields
  IN  /\ CASE ~header.here -> rxFrame' = empty /\ Does("header too short", 0)
           [] header.here /\ h.frametype \in BadTypes ->
                rxFrame' = [empty EXCEPT !.frametype = h.frametype] /\ Does("invalid", 0)
           [] OTHER -> rxFrame' = h /\ Does("unmarshal header", 0)
      /\ UNCHANGED <<tx, rx, stream, txFrame, header>>

MsgNext ==
  /\ UNCHANGED travels
  /\ \/ /\ travels = "cmsg"
        /\ \/ MakeMsg \/ Marshal \/ EqualMsg
           \/ \E n \in 0 .. MsgHdrLen + Limit : ReadMsg(n) \/ UnMarshal(n)
     \/ travels = "frame" /\ (MarshalHeader \/ DeliverHeader \/ UnMarshalHeader)

MsgSpec == MsgInit /\ [][MsgNext]_msgVars
-----------------------------------------------------------------------------
MsgTypeOK ==
  /\ tx.msg.len \in MsgTexts /\ rx.msg.len \in 0 .. Limit
  /\ stream.len \in {0} \cup (MsgHdrLen + 1 .. MsgHdrLen + Limit)
  /\ \A n \in MsgTexts : NoopCode(n, n).err = "short" /\ NoopCode(n + 1, n) = [n |-> n, err |-> "nil"]

\* However often its CMsg was used before, the receiver has, after UnMarshal, what
\* was marshalled last: code, id, and of the text what arrived, cut at the limit,
\* with nothing of an earlier message left. A text Marshal took from the error of
\* its message arrives as the error's.
MsgArrives ==
  msgOut.op = "unmarshal" =>
    /\ rx.code = stream.code /\ rx.id = stream.id
    /\ rx.msg = Cut(stream.body, msgOut.n - MsgHdrLen)
    /\ rx.err = (IF rx.msg = NoText THEN NilErr ELSE rx.msg)
    /\ msgOut.n = stream.len => rx.msg # NoText
=============================================================================
