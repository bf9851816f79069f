---------------------------- MODULE SessionLocks ----------------------------
(***************************************************************************)
(* The session tables of cmtp/cmtp.go statement by statement: initssid and *)
(* clearssid under tf.mutex, growindex under the mutex of its session,     *)
(* WriteTo's look-up under none. CodecMixer takes each of them as one step;*)
(* the refinement of SessionTable below is what entitles it to.            *)
(***************************************************************************)
EXTENDS Integers, FiniteSets

CONSTANTS
  Clients,    \* callers of ReadFrom
  Links,      \* readLoop goroutines
  Waiters,    \* callers of WriteTo
  WireSsids,  \* session ids in the headers a peer sends
  NoProc,     \* a mutex that is free
  MaxSsid,    \* bound: highest session id handed out
  MaxIndex,   \* bound: highest frame index of a session
  MaxChan     \* bound: session channels made

\* Any value is accepted in a header; 0 makes initssid count on.
ASSUME WireAssumption == WireSsids \subseteq 0..MaxSsid
ASSUME BoundsAssumption == MaxSsid \in Nat \ {0} /\ MaxIndex \in Nat \ {0} /\ MaxChan \in Nat \ {0}

INIT_SSID == 1
INIT_INDEX == 1
NilCh == 0

ReadFroms == {"ReadFrom"} \X Clients
ReadLoops == {"readLoop"} \X Links
WriteTos  == {"WriteTo"} \X Waiters
Procs == ReadFroms \cup ReadLoops \cup WriteTos
ASSUME NoProcAssumption == NoProc \notin Procs

VARIABLES
  ssid,      \* tf.ssid
  holder,    \* who holds tf.mutex
  codecs,    \* the sessions in tf.sscodecList
  ssmutex,   \* tf.ssmutex: who holds the mutex of each session in it
  ssindex,   \* tf.ssindex
  ssWriteCh, \* tf.ssWriteCh: the channel of each session in it
  made,      \* channels made so far; the newest has this number
  closed,    \* channels closed
  pc,        \* the statement each goroutine is at
  sess,      \* the ssid each goroutine works on
  source,    \* framesource of each WriteTo
  crash      \* the panic or fatal error that ended the process

vars == <<ssid, holder, codecs, ssmutex, ssindex, ssWriteCh, made, closed, pc, sess,
          source, crash>>
maps == <<codecs, ssmutex, ssindex, ssWriteCh>>
chans == <<made, closed>>

InitLabels == {"initCodec", "initMutex", "initIndex", "initChan"}
ClearLabels == {"clearCodec", "clearMutex", "clearIndex", "clearClose", "clearChan"}
GrowLabels == {"grow", "growUnlock"}
Labels == InitLabels \cup ClearLabels \cup GrowLabels
            \cup {"idle", "init", "session", "lookup", "wait", "clear"}
Faults == {"none", "nilMutex", "unlockFree", "closeClosed", "mapRace"}

\* Types; tf.mutex is held exactly inside initssid and clearssid, so their early
\* returns release it too.
TypeOK ==
  /\ ssid \in 1..MaxSsid
  /\ holder \in Procs \cup {NoProc}
  /\ codecs \subseteq 1..MaxSsid
  /\ DOMAIN ssmutex \subseteq 1..MaxSsid
  /\ \A s \in DOMAIN ssmutex : ssmutex[s] \in Procs \cup {NoProc}
  /\ DOMAIN ssindex \subseteq 1..MaxSsid
  /\ \A s \in DOMAIN ssindex : ssindex[s] \in INIT_INDEX..MaxIndex
  /\ DOMAIN ssWriteCh \subseteq 1..MaxSsid
  /\ \A s \in DOMAIN ssWriteCh : ssWriteCh[s] \in 1..made
  /\ made \in 1..MaxChan /\ closed \subseteq 1..made
  /\ pc \in [Procs -> Labels]
  /\ sess \in [Procs -> 0..MaxSsid]
  /\ source \in [Waiters -> 0..MaxChan]
  /\ crash \in Faults
  /\ holder # NoProc <=> \E p \in Procs : pc[p] \in InitLabels \cup ClearLabels
  /\ \A p \in Procs : pc[p] \in InitLabels \cup ClearLabels => holder = p

Init ==
  /\ ssid = INIT_SSID
  /\ holder = NoProc
  /\ codecs = {INIT_SSID}
  /\ ssmutex = [s \in {INIT_SSID} |-> NoProc]
  /\ ssindex = [s \in {INIT_SSID} |-> INIT_INDEX]
  /\ ssWriteCh = [s \in {INIT_SSID} |-> 1]
  /\ made = 1 /\ closed = {}
  /\ pc = [p \in Procs |-> "idle"]
  /\ sess = [p \in Procs |-> 0]
  /\ source = [w \in Waiters |-> NilCh]
  /\ crash = "none"

-----------------------------------------------------------------------------
At(p, label) == crash = "none" /\ pc[p] = label
Goto(p, label) == pc' = [pc EXCEPT ![p] = label]

With(map, s, x) == [t \in DOMAIN map \cup {s} |-> IF t = s THEN x ELSE map[t]]
Without(map, s) == [t \in DOMAIN map \ {s} |-> map[t]]

\* Where initssid and clearssid return to.
AfterInit(p) == IF p \in ReadFroms THEN "session" ELSE "idle"

-----------------------------------------------------------------------------
(* Plausible faults of the operations below, to measure the properties     *)
(* with; Next uses none of them.                                           *)

\* The look-up of initssid is done before tf.mutex is taken.
InitLockLate(p) ==
  /\ At(p, "init")
  /\ LET s == IF sess[p] = 0 THEN ssid + 1 ELSE sess[p] IN
       /\ s <= MaxSsid /\ made < MaxChan
       /\ ssid' = IF sess[p] = 0 THEN s ELSE ssid
       /\ sess' = [sess EXCEPT ![p] = s]
       /\ Goto(p, IF s \in codecs THEN AfterInit(p) ELSE "initCodec")
  /\ UNCHANGED <<holder, maps, chans, source, crash>>

\* initssid registers the session without looking whether it is there.
InitAlways(p) ==
  /\ At(p, "init") /\ holder = NoProc
  /\ LET s == IF sess[p] = 0 THEN ssid + 1 ELSE sess[p] IN
       /\ s <= MaxSsid /\ made < MaxChan
       /\ ssid' = IF sess[p] = 0 THEN s ELSE ssid
       /\ sess' = [sess EXCEPT ![p] = s]
       /\ Goto(p, "initCodec") /\ holder' = p
  /\ UNCHANGED <<maps, chans, source, crash>>

\* clearssid does not look whether somebody else has cleared the session.
ClearAlways(p) ==
  /\ At(p, "clear") /\ holder = NoProc
  /\ Goto(p, "clearCodec") /\ holder' = p
  /\ UNCHANGED <<ssid, maps, chans, sess, source, crash>>

\* clearssid forgets the index of the session.
ClearIndexKeep(p) ==
  /\ At(p, "clearIndex")
  /\ Goto(p, "clearClose")
  /\ UNCHANGED <<ssid, holder, maps, chans, sess, source, crash>>

-----------------------------------------------------------------------------
(* The callers.                                                            *)

StartReadFrom(c) ==
  LET p == <<"ReadFrom", c>> IN
  /\ At(p, "idle")
  /\ sess' = [sess EXCEPT ![p] = 0]
  /\ Goto(p, "init")
  /\ UNCHANGED <<ssid, holder, maps, chans, source, crash>>

\* A header names session s, or none (0): initssid then takes a new number.
StartReadLoop(l, s) ==
  LET p == <<"readLoop", l>> IN
  /\ At(p, "idle")
  /\ sess' = [sess EXCEPT ![p] = s]
  /\ Goto(p, "init")
  /\ UNCHANGED <<ssid, holder, maps, chans, source, crash>>

StartWriteTo(w, s) ==
  LET p == <<"WriteTo", w>> IN
  /\ At(p, "idle")
  /\ sess' = [sess EXCEPT ![p] = s]
  /\ Goto(p, "lookup")
  /\ UNCHANGED <<ssid, holder, maps, chans, source, crash>>

\* framesource := tf.ssWriteCh[ssid], with no lock held.
Lookup(w) ==
  LET p == <<"WriteTo", w>> IN
  /\ At(p, "lookup")
  /\ source' = [source EXCEPT ![w] =
                  IF sess[p] \in DOMAIN ssWriteCh THEN ssWriteCh[sess[p]] ELSE NilCh]
  /\ Goto(p, "wait")
  /\ UNCHANGED <<ssid, holder, maps, chans, sess, crash>>

\* The receive returns once the channel is closed; a nil channel blocks.
Wake(w) ==
  LET p == <<"WriteTo", w>> IN
  /\ At(p, "wait") /\ source[w] \in closed
  /\ Goto(p, "clear")
  /\ UNCHANGED <<ssid, holder, maps, chans, sess, source, crash>>

EndReadFrom(c) ==
  LET p == <<"ReadFrom", c>> IN
  /\ At(p, "session")
  /\ Goto(p, "clear")
  /\ UNCHANGED <<ssid, holder, maps, chans, sess, source, crash>>

-----------------------------------------------------------------------------
(* initssid(ssid), 0 for a new one.                                        *)

InitLock(p) ==
  /\ At(p, "init") /\ holder = NoProc
  /\ LET s == IF sess[p] = 0 THEN ssid + 1 ELSE sess[p] IN
       /\ s <= MaxSsid /\ made < MaxChan
       /\ ssid' = IF sess[p] = 0 THEN s ELSE ssid
       /\ sess' = [sess EXCEPT ![p] = s]
       /\ IF s \in codecs
          THEN Goto(p, AfterInit(p)) /\ UNCHANGED holder
          ELSE Goto(p, "initCodec") /\ holder' = p
  /\ UNCHANGED <<maps, chans, source, crash>>

InitCodec(p) ==
  /\ At(p, "initCodec")
  /\ codecs' = codecs \cup {sess[p]}
  /\ Goto(p, "initMutex")
  /\ UNCHANGED <<ssid, holder, ssmutex, ssindex, ssWriteCh, chans, sess, source, crash>>

InitMutex(p) ==
  /\ At(p, "initMutex")
  /\ ssmutex' = With(ssmutex, sess[p], NoProc)
  /\ Goto(p, "initIndex")
  /\ UNCHANGED <<ssid, holder, codecs, ssindex, ssWriteCh, chans, sess, source, crash>>

InitIndex(p) ==
  /\ At(p, "initIndex")
  /\ ssindex' = With(ssindex, sess[p], INIT_INDEX)
  /\ Goto(p, "initChan")
  /\ UNCHANGED <<ssid, holder, codecs, ssmutex, ssWriteCh, chans, sess, source, crash>>

\* The new channel is stored, and tf.mutex released.
InitChan(p) ==
  /\ At(p, "initChan") /\ made < MaxChan
  /\ made' = made + 1
  /\ ssWriteCh' = With(ssWriteCh, sess[p], made')
  /\ holder' = NoProc
  /\ Goto(p, AfterInit(p))
  /\ UNCHANGED <<ssid, codecs, ssmutex, ssindex, closed, sess, source, crash>>

-----------------------------------------------------------------------------
(* growindex(ssid).                                                        *)

GrowLock(p) ==
  /\ p \in ReadFroms /\ At(p, "session")
  /\ IF sess[p] \notin DOMAIN ssmutex
     THEN crash' = "nilMutex" /\ UNCHANGED <<ssmutex, pc>>
     ELSE /\ ssmutex[sess[p]] = NoProc
          /\ sess[p] \in DOMAIN ssindex => ssindex[sess[p]] < MaxIndex
          /\ ssmutex' = [ssmutex EXCEPT ![sess[p]] = p]
          /\ Goto(p, "grow")
          /\ UNCHANGED crash
  /\ UNCHANGED <<ssid, holder, codecs, ssindex, ssWriteCh, chans, sess, source>>

\* A session that is not in the map would be added to it, from zero.
Grow(p) ==
  /\ At(p, "grow")
  /\ ssindex' = With(ssindex, sess[p],
                     IF sess[p] \in DOMAIN ssindex THEN ssindex[sess[p]] + 1 ELSE 1)
  /\ Goto(p, "growUnlock")
  /\ UNCHANGED <<ssid, holder, codecs, ssmutex, ssWriteCh, chans, sess, source, crash>>

\* The mutex to unlock is looked up again.
GrowUnlock(p) ==
  /\ At(p, "growUnlock")
  /\ IF sess[p] \notin DOMAIN ssmutex \/ ssmutex[sess[p]] = NoProc
     THEN /\ crash' = IF sess[p] \notin DOMAIN ssmutex THEN "nilMutex" ELSE "unlockFree"
          /\ UNCHANGED <<ssmutex, pc>>
     ELSE /\ ssmutex' = [ssmutex EXCEPT ![sess[p]] = NoProc]
          /\ Goto(p, "session")
          /\ UNCHANGED crash
  /\ UNCHANGED <<ssid, holder, codecs, ssindex, ssWriteCh, chans, sess, source>>

-----------------------------------------------------------------------------
(* clearssid(ssid).                                                        *)

ClearLock(p) ==
  /\ At(p, "clear") /\ holder = NoProc
  /\ IF sess[p] \in codecs
     THEN Goto(p, "clearCodec") /\ holder' = p
     ELSE Goto(p, "idle") /\ UNCHANGED holder
  /\ UNCHANGED <<ssid, maps, chans, sess, source, crash>>

ClearCodec(p) ==
  /\ At(p, "clearCodec")
  /\ codecs' = codecs \ {sess[p]}
  /\ Goto(p, "clearMutex")
  /\ UNCHANGED <<ssid, holder, ssmutex, ssindex, ssWriteCh, chans, sess, source, crash>>

ClearMutex(p) ==
  /\ At(p, "clearMutex")
  /\ ssmutex' = Without(ssmutex, sess[p])
  /\ Goto(p, "clearIndex")
  /\ UNCHANGED <<ssid, holder, codecs, ssindex, ssWriteCh, chans, sess, source, crash>>

ClearIndex(p) ==
  /\ At(p, "clearIndex")
  /\ ssindex' = Without(ssindex, sess[p])
  /\ Goto(p, "clearClose")
  /\ UNCHANGED <<ssid, holder, codecs, ssmutex, ssWriteCh, chans, sess, source, crash>>

\* close of a nil or of a closed channel panics.
ClearClose(p) ==
  /\ At(p, "clearClose")
  /\ IF sess[p] \notin DOMAIN ssWriteCh \/ ssWriteCh[sess[p]] \in closed
     THEN crash' = "closeClosed" /\ UNCHANGED <<closed, pc>>
     ELSE /\ closed' = closed \cup {ssWriteCh[sess[p]]}
          /\ Goto(p, "clearChan")
          /\ UNCHANGED crash
  /\ UNCHANGED <<ssid, holder, maps, made, sess, source>>

ClearChan(p) ==
  /\ At(p, "clearChan")
  /\ ssWriteCh' = Without(ssWriteCh, sess[p])
  /\ holder' = NoProc
  /\ Goto(p, "idle")
  /\ UNCHANGED <<ssid, codecs, ssmutex, ssindex, chans, sess, source, crash>>

-----------------------------------------------------------------------------
(* Go's maps are not made for concurrent use: a write that meets another   *)
(* access of the same map may end the process, or pass unnoticed.          *)

Writes(label) ==
  CASE label \in {"initCodec", "clearCodec"} -> {"sscodecList"}
    [] label \in {"initMutex", "clearMutex"} -> {"ssmutex"}
    [] label \in {"initIndex", "clearIndex", "grow"} -> {"ssindex"}
    [] label \in {"initChan", "clearChan"} -> {"ssWriteCh"}
    [] OTHER -> {}
Reads(label) ==
  CASE label \in {"session", "growUnlock"} -> {"ssmutex"}
    [] label \in {"lookup", "clearClose"} -> {"ssWriteCh"}
    [] OTHER -> {}

Race(p, q) ==
  p # q /\ Writes(pc[p]) \cap (Writes(pc[q]) \cup Reads(pc[q])) # {}

MapRace ==
  /\ crash = "none"
  /\ \E p, q \in Procs : Race(p, q)
  /\ crash' = "mapRace"
  /\ UNCHANGED <<ssid, holder, maps, chans, pc, sess, source>>

-----------------------------------------------------------------------------
InitStep(p) ==
  InitLock(p) \/ InitCodec(p) \/ InitMutex(p) \/ InitIndex(p) \/ InitChan(p)
ClearStep(p) ==
  \/ ClearLock(p) \/ ClearCodec(p) \/ ClearMutex(p) \/ ClearIndex(p)
  \/ ClearClose(p) \/ ClearChan(p)
GrowStep(p) == GrowLock(p) \/ Grow(p) \/ GrowUnlock(p)

Next ==
  \/ \E c \in Clients : StartReadFrom(c) \/ EndReadFrom(c)
  \/ \E l \in Links, s \in WireSsids : StartReadLoop(l, s)
  \/ \E w \in Waiters : Lookup(w) \/ Wake(w) \/ \E s \in 1..MaxSsid : StartWriteTo(w, s)
  \/ \E p \in Procs : InitStep(p) \/ ClearStep(p) \/ GrowStep(p)
  \/ MapRace

Spec == Init /\ [][Next]_vars

-----------------------------------------------------------------------------
(* Properties.                                                             *)

\* Whenever tf.mutex is free the four maps know the same sessions, growindex
\* included, which writes one of them under another lock.
TablesAgree ==
  holder = NoProc => /\ DOMAIN ssmutex = codecs
                     /\ DOMAIN ssindex = codecs
                     /\ DOMAIN ssWriteCh = codecs

\* growindex never meets a session without its mutex, not even between its two
\* look-ups, and clearssid never closes a channel twice.
NoFault == crash \in {"none", "mapRace"}

\* A WriteTo that waits is never forgotten: its channel is closed, or is the
\* channel of a session that some clearssid will close.
WaitersReachable ==
  \A w \in Waiters : pc[<<"WriteTo", w>>] = "wait" =>
    \/ source[w] = NilCh
    \/ source[w] \in closed
    \/ \E s \in DOMAIN ssWriteCh : ssWriteCh[s] = source[w]

\* The tables as the other goroutines may think of them, one step per call.
Table == INSTANCE SessionTable WITH
  First <- INIT_SSID, FirstIndex <- INIT_INDEX, Sessions <- 1..MaxSsid,
  table <- [s \in codecs |-> IF s \in DOMAIN ssindex THEN ssindex[s] ELSE INIT_INDEX]
TableSpec == Table!Spec

\* cmtp.go:467 "lock for session index by ssid": with its lock held, the index
\* map is not written by two goroutines at once.
IndexIsLocked ==
  \A p, q \in Procs : p # q /\ pc[p] = "grow" => "ssindex" \notin Writes(pc[q])
=============================================================================
