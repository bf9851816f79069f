----------------------------- MODULE QpsServer ------------------------------
(***************************************************************************)
(* The server of example/qps-http-app-server: a goroutine that accepts, a  *)
(* handler for each connection, and a goroutine that counts the events the *)
(* others send to one buffered channel - and sends to that channel itself. *)
(* The ticks and the events of the debug display are left out. A call that *)
(* sends events leaves them in todo, and its goroutine does nothing else   *)
(* before the channel has taken them.                                      *)
(***************************************************************************)
EXTENDS Integers, Sequences, FiniteSets

CONSTANTS
  Conns,       \* connections that clients make
  MaxConn,     \* srv_cfg_max_connections
  Cap,         \* the capacity of the event channel, 10240 more than MaxConn
  Modes,       \* the modes it may be started in
  NetTimeout, KeepaliveTimeout,  \* the options of these names
  MaxReq       \* bound: requests on one connection

ASSUME QpsAssumption ==
  /\ MaxConn \in Nat \ {0} /\ Cap \in Nat \ {0} /\ MaxReq \in Nat
  /\ Modes \subseteq {"short", "keepalive", "readlonly"}
  /\ NetTimeout \in Int /\ KeepaliveTimeout \in Int

VARIABLES
  mode,      \* srv_cfg_mode
  acceptor,  \* what the accepting goroutine does next
  arrived,   \* the connections it has accepted
  qpc,       \* what the handler of a connection does next
  todo,      \* events a handler has to send before that
  busy,      \* the handler answers 503
  nreq,      \* requestCount of a handler
  req,       \* how far httpReadRequest has come
  events,    \* mainEventNotifyChannel
  conns,     \* srv_cfg_var_conn_counter
  status,    \* status_counter
  closing    \* the counting goroutine sends TOTAL_CONN_CLOSED

handler == <<qpc, todo, busy, nreq, req>>
qpsVars == <<mode, acceptor, arrived, handler, events, conns, status, closing>>

One(b) == IF b THEN 1 ELSE 0
Counted == {"init", "closed", "request", "keepalive", "response", "destroyed"}
Ended == {"none", "gone", "leaked"}

\* commandArgsParser: a timeout below one second is one.
AtLeastOne(n) == IF n < 1 THEN 1 ELSE n
ReadTimeOut(n) == AtLeastOne(IF n > 1 THEN KeepaliveTimeout ELSE NetTimeout)

\* A request nothing of which has been read: tries counts the reads, few says
\* that less than 16 bytes came, head that the method was found.
NewRequest == [tries |-> 0, few |-> TRUE, head |-> FALSE]

QpsInit ==
  /\ mode \in Modes
  /\ acceptor = "accept" /\ arrived = {}
  /\ qpc = [c \in Conns |-> "none"] /\ todo = [c \in Conns |-> <<>>]
  /\ busy = [c \in Conns |-> FALSE] /\ nreq = [c \in Conns |-> 0]
  /\ req = [c \in Conns |-> NewRequest]
  /\ events = <<>> /\ conns = 0 /\ closing = FALSE
  /\ status = [e \in Counted |-> 0]

------------------------------------------------------------------------------
(* The accepting goroutine.                                                *)

Room == Len(events) < Cap

Accept(c) ==
  /\ acceptor = "accept" /\ c \notin arrived /\ Room
  /\ arrived' = arrived \cup {c}
  /\ events' = Append(events, "init")
  /\ acceptor' = "add"
  /\ UNCHANGED <<mode, handler, conns, status, closing>>

AddConn ==
  /\ acceptor = "add"
  /\ conns' = conns + 1 /\ acceptor' = "check"
  /\ UNCHANGED <<mode, arrived, handler, events, status, closing>>

AtMax == conns > MaxConn

\* The counter is read again after the addition, and may have gone down.
CheckConn(c) ==
  /\ acceptor = "check" /\ c \in arrived /\ qpc[c] = "none"
  /\ acceptor' = "accept"
  /\ busy' = [busy EXCEPT ![c] = AtMax]
  /\ nreq' = [nreq EXCEPT ![c] = 1]
  /\ qpc' = [qpc EXCEPT ![c] = "read"]
  /\ UNCHANGED <<mode, arrived, todo, req, events, conns, status, closing>>

\* An error of Accept ends the accepting; what runs goes on until the main
\* goroutine has noticed.
AcceptError ==
  /\ acceptor = "accept" /\ acceptor' = "quit"
  /\ UNCHANGED <<mode, arrived, handler, events, conns, status, closing>>

------------------------------------------------------------------------------
(* The handler of connection c.                                            *)

At(c, where) == qpc[c] = where /\ todo[c] = <<>>
GoOn(c, where) == qpc' = [qpc EXCEPT ![c] = where]
Notify(c, es) == todo' = [todo EXCEPT ![c] = es]

Send(c) ==
  /\ todo[c] # <<>> /\ Room
  /\ events' = Append(events, Head(todo[c]))
  /\ todo' = [todo EXCEPT ![c] = Tail(@)]
  /\ UNCHANGED <<mode, acceptor, arrived, qpc, busy, nreq, req, conns, status, closing>>

\* httpReadRawStream: data, five timeouts in a row, or an error.
RawStream == {"done", "timeout", "error"}

\* What the protocol line and header lines read so far may be: no line yet, a
\* line to refuse, part of a header, a line without its end, a whole header.
\* Only one line without a method is looked at for each read, so a line may
\* be found without new data; a header line may not.
Found(r, got) ==
  IF r.head THEN IF got = "done" THEN {"part", "endless", "whole"} ELSE {"part"}
  ELSE {"none", "bad"} \cup IF r.few THEN {} ELSE {"part", "endless", "whole"}

\* The first reads of a request that brought too little, or failed for good.
GivesUp(c, r, got) ==
  \/ got = "timeout" /\ r.few /\ r.tries = ReadTimeOut(nreq[c])
  \/ got = "error" /\ (r.few \/ r.tries = ReadTimeOut(nreq[c]))

Counts(r) == [r EXCEPT !.tries = @ + 1]

RequestEvents(c) == IF nreq[c] > 1 THEN <<"request", "keepalive">> ELSE <<"request">>

\* A read of httpReadRequest and the parsing after it. An answer of 400 or 405
\* is sent from there; the loop at a line without its end never ends; a whole
\* request goes to httpConnectionHandler.
Parsed(c, r, got, found) ==
  CASE found = "bad" -> GoOn(c, "refuse") /\ Notify(c, <<>>)
    [] found = "endless" -> GoOn(c, "spin") /\ Notify(c, <<>>)
    [] found = "whole" ->
         /\ GoOn(c, IF mode = "readlonly" /\ ~busy[c] THEN "raw" ELSE "respond")
         /\ Notify(c, RequestEvents(c))
    [] OTHER ->
         /\ GoOn(c, IF got = "done" /\ r.tries < ReadTimeOut(nreq[c]) THEN "read" ELSE "close")
         /\ Notify(c, <<>>)

ReadRequest(c) ==
  /\ At(c, "read")
  /\ \E got \in RawStream, few \in {req[c].few, FALSE} :
       LET r == [Counts(req[c]) EXCEPT !.few = few]
       IN /\ got # "done" => few = req[c].few
          /\ IF GivesUp(c, r, got)
             THEN GoOn(c, "close") /\ req' = [req EXCEPT ![c] = NewRequest] /\ UNCHANGED todo
             ELSE \E found \in Found(r, got) :
                    /\ found = "whole" => nreq[c] <= MaxReq
                    /\ Parsed(c, r, got, found)
                    /\ req' = [req EXCEPT ![c] = IF qpc'[c] = "read"
                                                 THEN [r EXCEPT !.head = found = "part"]
                                                 ELSE NewRequest]
  /\ UNCHANGED <<mode, acceptor, arrived, busy, nreq, events, conns, status, closing>>

\* httpWriteResponser: all of the text, or an error after the retries.
Written == BOOLEAN

\* httpSendResponse and httpConnectionKeepalive; keepalive is set before the
\* first write and stays set when a write fails.
Respond(c, where, refused) ==
  /\ At(c, where)
  /\ \E header, body \in Written :
       LET quiet == mode = "readlonly"
           stays == ~quiet /\ mode # "short" /\ ~busy[c] /\ ~refused
       IN /\ Notify(c, IF ~quiet /\ header /\ body THEN <<"response">> ELSE <<>>)
          /\ GoOn(c, IF stays THEN "next" ELSE "close")
  /\ UNCHANGED <<mode, acceptor, arrived, busy, nreq, req, events, conns, status, closing>>

\* Plausible fault, not used by QpsNext: reading goes on after a refusal.
RefuseOn(c) ==
  /\ At(c, "refuse") /\ GoOn(c, "read")
  /\ UNCHANGED <<mode, acceptor, arrived, todo, busy, nreq, req, events, conns, status, closing>>

SendResponse(c) == Respond(c, "respond", FALSE)
Refuse(c) == Respond(c, "refuse", TRUE)

\* The keepalive loop of httpConnectionHandler.
NextRequest(c) ==
  /\ At(c, "next")
  /\ GoOn(c, "read")
  /\ nreq' = [nreq EXCEPT ![c] = @ + 1]
  /\ UNCHANGED <<mode, acceptor, arrived, todo, busy, req, events, conns, status, closing>>

\* The loop of mode readlonly is left without a word to the counter.
ReadOnly(c) ==
  /\ At(c, "raw")
  /\ \E got \in RawStream : GoOn(c, IF got = "done" THEN "raw" ELSE "leaked")
  /\ UNCHANGED <<mode, acceptor, arrived, todo, busy, nreq, req, events, conns, status, closing>>

\* httpConnectionKeepalive.
CloseConn(c) ==
  /\ At(c, "close")
  /\ GoOn(c, "gone") /\ Notify(c, <<"destroyed">>)
  /\ UNCHANGED <<mode, acceptor, arrived, busy, nreq, req, events, conns, status, closing>>

------------------------------------------------------------------------------
(* The counting goroutine.                                                 *)

\* Plausible fault, not used by the specification.
EndsTwice(e) == e \in {"destroyed", "closed"}

Ends(e) == e = "destroyed"

CountEvent ==
  /\ ~closing /\ events # <<>>
  /\ events' = Tail(events)
  /\ closing' = Ends(Head(events))
  /\ conns' = conns - One(closing')
  /\ status' = IF closing' THEN status
               ELSE [status EXCEPT ![Head(events)] = @ + 1]
  /\ UNCHANGED <<mode, acceptor, arrived, handler>>

CountClosed ==
  /\ closing /\ Room
  /\ events' = Append(events, "closed")
  /\ closing' = FALSE
  /\ status' = [status EXCEPT !["destroyed"] = @ + 1]
  /\ UNCHANGED <<mode, acceptor, arrived, handler, conns>>

Handler(c) ==
  \/ Send(c) \/ ReadRequest(c) \/ SendResponse(c) \/ Refuse(c) \/ NextRequest(c)
  \/ ReadOnly(c) \/ CloseConn(c)
Counter == CountEvent \/ CountClosed

QpsNext ==
  \/ AcceptError \/ AddConn \/ Counter
  \/ \E c \in Conns : Accept(c) \/ CheckConn(c) \/ Handler(c)

\* The Go scheduler runs the counter and every handler, whose reads and writes
\* have deadlines.
QpsFairness ==
  /\ WF_qpsVars(Counter)
  /\ \A c \in Conns : SF_qpsVars(Handler(c))

QpsSpec == QpsInit /\ [][QpsNext]_qpsVars

------------------------------------------------------------------------------
QpsTypeOK ==
  /\ mode \in Modes
  /\ acceptor \in {"accept", "add", "check", "quit"} /\ arrived \subseteq Conns
  /\ qpc \in [Conns -> Ended \cup {"read", "spin", "refuse", "respond", "raw", "next", "close"}]
  /\ Len(events) <= Cap /\ \A c \in Conns : Len(todo[c]) <= 2
  /\ conns \in 0..Cardinality(Conns) /\ closing \in BOOLEAN

InChannel(e) == Cardinality({i \in DOMAIN events : events[i] = e})
Sent(e) == status[e] + InChannel(e)

\* The atomic counter is the number of connections that somebody still has to
\* take off: a handler that runs, one that left the readlonly loop and never
\* will, a "destroyed" on its way. The events account for the same number. And
\* however accepting and the counter's decrements interleave, no more than
\* MaxConn connections are served with anything but 503.
SlotsAgree ==
  /\ conns = Cardinality({c \in Conns : qpc[c] \notin {"none", "gone"} \/ todo[c] # <<>>})
             + One(acceptor = "check") + InChannel("destroyed")
  /\ conns = Sent("init") - Sent("closed") - One(closing) - One(acceptor = "add")
  /\ Cardinality({c \in Conns : qpc[c] \notin {"none", "gone"} /\ ~busy[c]}) <= MaxConn

\* The counter waits for room in the channel only it makes room in.
Jammed == closing /\ ~Room

\* Every connection is done with, as its reads, writes and requests have their
\* limits - unless a header line comes in two parts, which the handler spins
\* on for ever, or the counter is jammed.
HandlersEnd ==
  \A c \in Conns : qpc[c] = "read" ~> \/ qpc[c] \in {"gone", "spin", "leaked", "raw"} \/ Jammed
=============================================================================
