----------------------------- MODULE TcpFilter ------------------------------
(***************************************************************************)
(* A TCPFilter of cmtp/filter.go, made by New with or without a connection *)
(* and used by a goroutine that Reads and one that Writes. Write takes a   *)
(* stream in pieces of any size: a prefix with the length of an encrypted  *)
(* address, that address, which it dials, and the body for the connection. *)
(* Read gives the header New has made, if any, and waits for the dial. The *)
(* AES is shared with the other filters of the template.                   *)
(***************************************************************************)
EXTENDS Integers

CONSTANTS
  PrefixLen,   \* tf.hdrlen
  InfoLens,    \* lengths an address may be announced with
  MaxInfo,     \* MAX_HEADERLEN*2
  Pieces,      \* lengths of p in Write
  MaxStream    \* bound: bytes of the stream written

ASSUME FilterAssumption ==
  /\ PrefixLen \in Nat /\ InfoLens \subseteq Nat /\ Pieces \subseteq Nat \ {0}
  /\ MaxInfo \in Nat /\ MaxStream \in Nat

VARIABLES
  info,      \* the length the peer announces, and whether it decrypts
  out,       \* tf.out: state, len(iobuf), ioptr, rw
  in,        \* tf.in: state, rw, bytes of the header left to read
  ioready,   \* tokens in tf.in.ioready
  fclosed,   \* tf.closed is closed; "done" when Close has returned
  aesOpen,   \* nobody has closed the AES of the template
  writing,   \* Write is between the statements 301 to 304
  taken,     \* history: bytes of the stream Write has accepted
  passed,    \* history: bytes written to the dialed connection
  fpanic     \* a goroutine has panicked, which ends the program

filterVars == <<info, out, in, ioready, fclosed, aesOpen, writing, taken, passed, fpanic>>

\* New: with a connection it makes the header, and gives the connection to the
\* template instead of the new filter.
FilterInit ==
  /\ info \in [len : InfoLens, good : BOOLEAN]
  /\ in \in {[state |-> "RESET", rw |-> FALSE, left |-> 0],
             [state |-> "SENDHEADER", rw |-> FALSE, left |-> PrefixLen + info.len]}
  /\ out = [state |-> "RESET", len |-> 0, ptr |-> 0, rw |-> FALSE]
  /\ ioready = 0 /\ fclosed = "no" /\ aesOpen = TRUE /\ writing = FALSE
  /\ taken = 0 /\ passed = 0 /\ fpanic = FALSE

Running == ~fpanic
Writable == Running /\ ~writing
Header == PrefixLen + info.len

\* Plausible fault, not used by the specification.
InfoEndShort == info.len

\* Where the body begins in the buffer.
InfoEnd == Header

\* FMTINFO: decrypt and dial; with an error the state stays and the next
\* Write tries again, without its own bytes.
FmtInfo(o) ==
  IF ~aesOpen
  THEN fpanic' = TRUE /\ out' = o /\ UNCHANGED <<in, writing>>
  ELSE /\ UNCHANGED fpanic
       /\ \/ out' = [o EXCEPT !.state = "FMTINFO"] /\ UNCHANGED <<in, writing>>
          \/ /\ info.good
             /\ out' = [o EXCEPT !.state = "FMTINFO", !.rw = TRUE]
             /\ in' = [in EXCEPT !.rw = TRUE]
             /\ writing' = TRUE

\* What Write does with n more bytes of the prefix or the address. A length
\* that is too large is an error each time, with the bytes kept.
Take(n, o) ==
  /\ taken' = taken + n
  /\ IF o.len < PrefixLen \/ (o.state = "FILLHEADER" /\ info.len > MaxInfo)
     THEN out' = o /\ UNCHANGED <<in, writing, fpanic>>
     ELSE LET p == [o EXCEPT !.ptr = InfoEnd]
          IN IF p.len < p.ptr
             THEN out' = [p EXCEPT !.state = "FILLINFO"] /\ UNCHANGED <<in, writing, fpanic>>
             ELSE FmtInfo(p)

WriteHeader(n) ==
  /\ Writable /\ out.state \in {"RESET", "FILLHEADER", "FILLINFO"}
  /\ Take(n, [out EXCEPT !.state = IF @ = "RESET" THEN "FILLHEADER" ELSE @, !.len = @ + n])
  /\ UNCHANGED <<info, ioready, fclosed, aesOpen, passed>>

WriteAgain ==
  /\ Writable /\ out.state = "FMTINFO"
  /\ FmtInfo(out)
  /\ UNCHANGED <<info, ioready, fclosed, aesOpen, taken, passed>>

\* After the dial: the reader's state is set and it is woken. A reader of the
\* state SENDHEADER may be about to set it itself, which then stays.
WakeReader ==
  /\ Running /\ writing
  /\ \E now \in {"SENDWAITIO"} \cup ({in.state} \cap {"SENDHEADER"}) : in' = [in EXCEPT !.state = now]
  /\ ioready' = ioready + 1
  /\ writing' = FALSE
  /\ out' = [out EXCEPT !.state = IF out.len = out.ptr THEN "FILLBODY" ELSE "FILLTAIL"]
  /\ UNCHANGED <<info, fclosed, aesOpen, taken, passed, fpanic>>

\* FILLTAIL: the rest of the piece the address ended in, in as many Writes as
\* it takes, none of which accepts bytes of its own.
WriteTail ==
  /\ Writable /\ out.state = "FILLTAIL"
  /\ IF ~out.rw THEN fpanic' = TRUE /\ UNCHANGED <<out, passed>>
     ELSE \E nw \in 0..out.len - out.ptr :
            /\ passed' = passed + nw
            /\ out' = [out EXCEPT !.ptr = @ + nw,
                                  !.state = IF out.ptr + nw = out.len THEN "FILLBODY" ELSE @]
            /\ UNCHANGED fpanic
  /\ UNCHANGED <<info, in, ioready, fclosed, aesOpen, writing, taken>>

WriteBody(n) ==
  /\ Writable /\ out.state = "FILLBODY"
  /\ IF ~out.rw THEN fpanic' = TRUE /\ UNCHANGED <<taken, passed>>
     ELSE \E nw \in 0..n : passed' = passed + nw /\ taken' = taken + nw /\ UNCHANGED fpanic
  /\ UNCHANGED <<info, out, in, ioready, fclosed, aesOpen, writing>>

\* A state Write does not know, after Close.
WriteUnset ==
  /\ Writable /\ out.state = "UNSET"
  /\ fpanic' = TRUE
  /\ UNCHANGED <<info, out, in, ioready, fclosed, aesOpen, writing, taken, passed>>

------------------------------------------------------------------------------
(* Read.                                                                   *)

\* Line 166 reads tf.in.rw while Write may be setting it.
ReadReset ==
  /\ Running /\ in.state = "RESET"
  /\ in' = [in EXCEPT !.state = IF in.rw THEN "SENDHEADER" ELSE "SENDWAITIO"]
  /\ UNCHANGED <<info, out, ioready, fclosed, aesOpen, writing, taken, passed, fpanic>>

\* Plausible fault, not used by the specification.
HeaderReadOn == "SENDBODY"

HeaderRead == IF in.rw THEN "SENDBODY" ELSE "SENDWAITIO"

\* At most n bytes of the header, or none when there is none.
ReadHeader(n) ==
  /\ Running /\ in.state = "SENDHEADER"
  /\ in' = [in EXCEPT !.left = IF n < @ THEN @ - n ELSE 0,
                      !.state = IF n < in.left THEN @ ELSE HeaderRead]
  /\ UNCHANGED <<info, out, ioready, fclosed, aesOpen, writing, taken, passed, fpanic>>

\* The reader of SENDWAITIO goes on with the token of the dial. When the
\* filter is closed it returns an error and stays.
ReadWait ==
  /\ Running /\ in.state = "SENDWAITIO" /\ fclosed = "no" /\ ioready > 0
  /\ ioready' = ioready - 1
  /\ in' = [in EXCEPT !.state = IF in.rw THEN "SENDBODY" ELSE @]
  /\ UNCHANGED <<info, out, fclosed, aesOpen, writing, taken, passed, fpanic>>

\* A body state without a connection, or a state Read does not know.
ReadBroken ==
  /\ Running /\ (in.state = "UNSET" \/ (in.state = "SENDBODY" /\ ~in.rw))
  /\ fpanic' = TRUE
  /\ UNCHANGED <<info, out, in, ioready, fclosed, aesOpen, writing, taken, passed>>

------------------------------------------------------------------------------
(* Close, of this filter and of another one of the template.               *)

CloseFilter ==
  /\ Running /\ fclosed = "no"
  /\ fclosed' = "closing" /\ aesOpen' = FALSE
  /\ UNCHANGED <<info, out, in, ioready, writing, taken, passed, fpanic>>

CloseStreams ==
  /\ Running /\ fclosed = "closing"
  /\ fclosed' = "done"
  /\ in' = [state |-> "UNSET", rw |-> FALSE, left |-> 0]
  /\ out' = [state |-> "UNSET", len |-> 0, ptr |-> 0, rw |-> FALSE]
  /\ UNCHANGED <<info, ioready, aesOpen, writing, taken, passed, fpanic>>

CloseSibling ==
  /\ aesOpen /\ Running /\ aesOpen' = FALSE
  /\ UNCHANGED <<info, out, in, ioready, fclosed, writing, taken, passed, fpanic>>

FilterNext ==
  \/ WriteAgain \/ WakeReader \/ WriteTail \/ WriteUnset
  \/ \E n \in Pieces : taken + n <= MaxStream /\ (WriteHeader(n) \/ WriteBody(n))
  \/ ReadReset \/ (\E n \in Pieces : ReadHeader(n)) \/ ReadWait \/ ReadBroken
  \/ CloseFilter \/ CloseStreams \/ CloseSibling

FilterSpec == FilterInit /\ [][FilterNext]_filterVars

------------------------------------------------------------------------------
FilterStates ==
  {"UNSET", "RESET", "SENDHEADER", "SENDWAITIO", "SENDBODY", "FILLHEADER", "FILLINFO",
   "FMTINFO", "FILLTAIL", "FILLBODY"}
FilterTypeOK ==
  /\ out.state \in FilterStates /\ in.state \in FilterStates
  /\ out.len \in 0..MaxStream /\ out.ptr \in 0..MaxStream + Header
  /\ ioready \in 0..1 /\ taken \in 0..MaxStream /\ passed \in 0..MaxStream

\* However the stream is cut into Writes, and however often decrypting,
\* dialing and writing fail in between: the bytes accepted beyond the prefix
\* and the address are those the connection got and those still in the buffer.
BodyIsWhole ==
  out.state \in {"FMTINFO", "FILLTAIL", "FILLBODY"} /\ ~writing /\ fclosed # "done" =>
    taken - Header = passed + IF out.rw THEN out.len - out.ptr ELSE out.len - Header

\* A reader that waits for the dial is woken by it: there is a token for it, or
\* the dial has not come yet. It never reads before the dial, and nobody
\* panics, as long as no filter of the template was closed.
ReaderWoken ==
  /\ in.state = "SENDWAITIO" /\ in.rw => ioready > 0 \/ writing
  /\ in.state = "SENDBODY" /\ ~in.rw => ~aesOpen
  /\ fpanic => ~aesOpen
=============================================================================
