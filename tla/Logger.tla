------------------------------- MODULE Logger -------------------------------
(***************************************************************************)
(* The LoggerT of logger/logger.go: named log channels, the writers that   *)
(* have to be closed with them, and the suppression of repeated messages.  *)
(* A method that holds l.mu from its first to its last statement is one    *)
(* step; Listlog reads l.list before WriteToList takes the lock.           *)
(***************************************************************************)
EXTENDS Integers, FiniteSets

CONSTANTS
  Procs,      \* goroutines that use the logger
  Nobody,     \* l.mu is free
  Msgs,       \* messages
  Uses,       \* the wrappers of WriteToList that are called
  Touched,    \* names passed to SetChannelDedup, SetWriter, AddListlog, ...
  Outs,       \* io.WriteClosers; each is handed to the logger once
  NoOut,      \* an io.Writer the logger does not own
  DupLimit,   \* 199: repeats after which a hint is written
  MaxDups     \* bound: messages suppressed

ASSUME DupAssumption == DupLimit \in Nat /\ MaxDups \in Nat

\* The channels NewLogger makes, and those among them that drop repeats.
Std == {"stdout", "stderr", "debug", "app", "err", "sys"}
StdDedup == {"stdout", "stderr", "err", "sys"}
Names == Std \cup Touched
ASSUME TouchedAssumption == Procs \cap {Nobody} = {} /\ NoOut \notin Outs

\* The channels each wrapper writes to; Stdout stands for Print as well.
Wrapper ==
  [Stdout |-> {"debug", "stdout"},
   Stderr |-> {"debug", "stderr"}, Applog |-> {"debug", "app"},
   Errlog |-> {"debug", "err", "sys", "stderr"}, Syslog |-> {"debug", "sys"},
   Debug |-> {"debug"}]
ASSUME UsesAssumption == Uses \subseteq DOMAIN Wrapper

\* Debug puts a tag before the message; "" is the message before the first.
Line(w, m) == <<IF w = "Debug" THEN "[DEBUG]" ELSE "", m>>
NoLine == <<"", "">>
Lines == {NoLine} \cup {Line(w, m) : w \in {"Stdout", "Debug"}, m \in Msgs}

VARIABLES
  mu,         \* who holds l.mu
  logChs,     \* names in l.logChs
  out,        \* the writer behind each of them
  closers,    \* l.closers, a function on some names
  list,       \* l.list
  dedups,     \* l.dedups
  closed,     \* l.closed
  dedup,      \* l.dedup
  last,       \* l.last
  dupCount,   \* l.dupCount
  dupTime,    \* l.dupTime: "zero" until the first hint is made
  pc,         \* "idle", "range" over l.list, "listed", "relock" in SetWriter
  names,      \* the names each Listlog has collected
  given,      \* history: WriteClosers handed over
  shut,       \* history: WriteClosers closed
  misuse,     \* history: a WriteCloser was closed twice, or written after it
  dropped,    \* history: messages taken for repeats
  hinted,     \* history: of these, the ones in a hint that a channel got
  lost,       \* history: and the ones in a hint that no channel got
  crash       \* l.list was ranged over and written at once

logVars == <<logChs, out, closers, list, dedups, closed, dedup>>
dupVars == <<last, dupCount, dupTime, dropped, hinted, lost>>
outVars == <<given, shut, misuse>>
vars == <<mu, logVars, dupVars, outVars, pc, names, crash>>

\* Types; a channel of l.list and one with a closer is in l.logChs.
TypeOK ==
  /\ mu \in Procs \cup {Nobody}
  /\ Std \subseteq logChs /\ logChs \subseteq Names /\ list \subseteq logChs
  /\ out \in [Names -> Outs \cup {NoOut}]
  /\ DOMAIN closers \subseteq logChs /\ \A n \in DOMAIN closers : closers[n] \in Outs
  /\ dedups \in [Names -> BOOLEAN] /\ closed \in [Names -> BOOLEAN] /\ dedup \in BOOLEAN
  /\ last \in Lines /\ dupCount \in 0..DupLimit /\ dupTime \in {"zero", "set"}
  /\ pc \in [Procs -> {"idle", "range", "listed", "relock"}]
  /\ names \in [Procs -> SUBSET Names]
  /\ shut \subseteq given /\ given \subseteq Outs
  /\ misuse \in BOOLEAN /\ crash \in BOOLEAN
  /\ dropped \in 0..MaxDups /\ hinted \in 0..MaxDups /\ lost \in 0..MaxDups
  /\ mu # Nobody <=> \E p \in Procs : pc[p] = "relock" /\ mu = p

Init ==
  /\ mu = Nobody
  /\ logChs = Std
  /\ out = [n \in Names |-> NoOut] /\ closers = [n \in {} |-> NoOut]
  /\ list = {}
  /\ dedups = [n \in Names |-> n \in StdDedup]
  /\ closed = [n \in Names |-> FALSE]
  /\ dedup = TRUE
  /\ last = NoLine /\ dupCount = 0 /\ dupTime = "zero"
  /\ pc = [p \in Procs |-> "idle"] /\ names = [p \in Procs |-> {}]
  /\ given = {} /\ shut = {} /\ misuse = FALSE
  /\ dropped = 0 /\ hinted = 0 /\ lost = 0
  /\ crash = FALSE

Idle(p) == ~crash /\ mu = Nobody /\ pc[p] = "idle"

-----------------------------------------------------------------------------
(* closeLogChannel of a set of names.                                      *)

CloseOuts(S) ==
  LET gone == {n \in S \cap logChs : ~closed[n]}
      outs == {closers[n] : n \in gone \cap DOMAIN closers} IN
  /\ shut' = shut \cup outs
  /\ misuse' = (misuse \/ outs \cap shut # {})

\* Plausible fault, not used by Next: closeLogChannel deletes nothing.
ClosersKept(S) == closers

ClosersLeft(S) == [n \in DOMAIN closers \ {m \in S : ~closed[m]} |-> closers[n]]
ClosedBy(S) == [n \in Names |-> closed[n] \/ n \in S \cap logChs]

\* Writing l.list while a Listlog ranges over it may end the process.
ListRace == crash' \in {FALSE, \E q \in Procs : pc[q] = "range"}

-----------------------------------------------------------------------------
(* Plausible faults of the operations below, not used by Next.             *)

\* AddListlogCloser takes the place of a writer without closing it.
AddCloserOnly(p, n, o) ==
  /\ Idle(p) /\ o \in Outs \ given
  /\ given' = given \cup {o}
  /\ closers' = [m \in DOMAIN closers \cup {n} |-> IF m = n THEN o ELSE closers[m]]
  /\ logChs' = logChs \cup {n} /\ list' = list \cup {n}
  /\ out' = [out EXCEPT ![n] = o]
  /\ dedups' = [dedups EXCEPT ![n] = FALSE] /\ closed' = [closed EXCEPT ![n] = FALSE]
  /\ ListRace
  /\ UNCHANGED <<mu, dedup, dupVars, shut, misuse, pc, names>>

\* AddListlog opens the channel again with the dedup it had.
AddListlogDedup(p, n) ==
  /\ Idle(p)
  /\ CloseOuts({n})
  /\ closers' = ClosersLeft({n} \cap logChs)
  /\ logChs' = logChs \cup {n} /\ list' = list \cup {n}
  /\ out' = [out EXCEPT ![n] = NoOut]
  /\ closed' = [closed EXCEPT ![n] = FALSE]
  /\ ListRace
  /\ UNCHANGED <<mu, dedups, dedup, dupVars, given, pc, names>>

\* SetWriter returns its error without releasing l.mu.
SetWriterKeep(p, n) ==
  /\ Idle(p)
  /\ mu' = p
  /\ pc' = [pc EXCEPT ![p] = IF n \in logChs THEN "relock" ELSE "idle"]
  /\ UNCHANGED <<logVars, dupVars, outVars, names, crash>>

\* The next other message does not reset the count.
CountKeep(same, late) == IF same THEN dupCount + 1 ELSE dupCount

-----------------------------------------------------------------------------
(* The methods.                                                            *)

SetChannelDedup(p, n, on) ==
  /\ Idle(p) /\ n \in logChs
  /\ dedups' = [dedups EXCEPT ![n] = on]
  /\ dedup' = \E m \in logChs : ~closed[m] /\ dedups'[m]
  /\ UNCHANGED <<mu, logChs, out, closers, list, closed, dupVars, outVars, pc, names, crash>>

\* SetWriter and SetWriteCloser: with l.mu held they call CloseLogChannel,
\* which takes l.mu.
SetWriter(p, n) ==
  /\ Idle(p) /\ n \in logChs
  /\ mu' = p
  /\ pc' = [pc EXCEPT ![p] = "relock"]
  /\ UNCHANGED <<logVars, dupVars, outVars, names, crash>>

\* CloseLogChannel(name), and Close() of all names.
CloseLogChannels(p, S) ==
  /\ Idle(p)
  /\ CloseOuts(S)
  /\ closers' = ClosersLeft(S)
  /\ closed' = ClosedBy(S)
  /\ UNCHANGED <<mu, logChs, out, list, dedups, dedup, dupVars, given, pc, names, crash>>

RemoveListLog(p, n) ==
  /\ Idle(p)
  /\ list' = list \ {n}
  /\ CloseOuts({n})
  /\ closers' = ClosersLeft({n})
  /\ closed' = ClosedBy({n})
  /\ ListRace
  /\ UNCHANGED <<mu, logChs, out, dedups, dedup, dupVars, given, pc, names>>

AddListlog(p, n) ==
  /\ Idle(p)
  /\ CloseOuts({n})
  /\ closers' = ClosersLeft({n})
  /\ logChs' = logChs \cup {n} /\ list' = list \cup {n}
  /\ out' = [out EXCEPT ![n] = NoOut]
  /\ dedups' = [dedups EXCEPT ![n] = FALSE] /\ closed' = [closed EXCEPT ![n] = FALSE]
  /\ ListRace
  /\ UNCHANGED <<mu, dedup, dupVars, given, pc, names>>

AddListlogCloser(p, n, o) ==
  /\ Idle(p) /\ o \in Outs \ given
  /\ CloseOuts({n})
  /\ given' = given \cup {o}
  /\ closers' = [m \in DOMAIN closers \cup {n} |-> IF m = n THEN o ELSE closers[m]]
  /\ logChs' = logChs \cup {n} /\ list' = list \cup {n}
  /\ out' = [out EXCEPT ![n] = o]
  /\ dedups' = [dedups EXCEPT ![n] = FALSE] /\ closed' = [closed EXCEPT ![n] = FALSE]
  /\ ListRace
  /\ UNCHANGED <<mu, dedup, dupVars, pc, names>>

\* dupcheck: what l.dupCount becomes, and the repeats a hint is made for.
\* late: l.dupTime, 5 seconds after the last hint, is over.
Count(same, late) ==
  IF same /\ ~late /\ dupCount < DupLimit THEN dupCount + 1 ELSE 0
Hint(same, late) ==
  IF ~same THEN dupCount ELSE IF late \/ dupCount >= DupLimit THEN dupCount + 1 ELSE 0

\* WriteToList(S, v). The hint goes to the open channels of S that drop repeats
\* and is forgotten, whether there is one or not.
Written(S, v, late) ==
  LET same == dedup /\ last = v
      hint == IF dedup THEN Hint(same, late) ELSE 0
      \* A hint goes to the channels that may have dropped lines, this one too.
      live == {n \in S : ~closed[n] /\ (same /\ dedups[n] => hint > 0)}
      taken == \E n \in S : ~closed[n] /\ dedups[n] IN
  /\ same => dropped < MaxDups
  /\ dupTime = "zero" => late
  /\ last' = IF dedup THEN v ELSE last
  /\ dupCount' = IF dedup THEN Count(same, late) ELSE dupCount
  /\ dropped' = IF same THEN dropped + 1 ELSE dropped
  /\ dupTime' = IF hint > 0 THEN "set" ELSE dupTime
  /\ hinted' = IF taken THEN hinted + hint ELSE hinted
  /\ lost' = IF taken THEN lost ELSE lost + hint
  /\ misuse' = (misuse \/ \E n \in live : out[n] \in shut)

Write(p, w, m, late) ==
  /\ Idle(p)
  /\ Written(Wrapper[w], Line(w, m), late)
  /\ UNCHANGED <<mu, logVars, given, shut, pc, names, crash>>

\* Listlog: misc.ListToSlice(l.list) without the lock, then WriteToList.
ListRange(p) ==
  /\ ~crash /\ pc[p] = "idle"
  /\ pc' = [pc EXCEPT ![p] = "range"]
  /\ UNCHANGED <<mu, logVars, dupVars, outVars, names, crash>>

ListNames(p) ==
  /\ ~crash /\ pc[p] = "range"
  /\ names' = [names EXCEPT ![p] = list]
  /\ pc' = [pc EXCEPT ![p] = "listed"]
  /\ UNCHANGED <<mu, logVars, dupVars, outVars, crash>>

ListWrite(p, m, late) ==
  /\ ~crash /\ mu = Nobody /\ pc[p] = "listed"
  /\ Written(names[p], Line("Stdout", m), late)
  /\ names' = [names EXCEPT ![p] = {}]
  /\ pc' = [pc EXCEPT ![p] = "idle"]
  /\ UNCHANGED <<mu, logVars, given, shut, crash>>

Next == \E p \in Procs :
  \/ \E n \in Touched :
       \/ \E on \in BOOLEAN : SetChannelDedup(p, n, on)
       \/ SetWriter(p, n) \/ CloseLogChannels(p, {n}) \/ RemoveListLog(p, n)
       \/ AddListlog(p, n) \/ (\E o \in Outs : AddListlogCloser(p, n, o))
  \/ CloseLogChannels(p, logChs)
  \/ \E m \in Msgs, late \in BOOLEAN :
       (\E w \in Uses : Write(p, w, m, late)) \/ ListWrite(p, m, late)
  \/ ListRange(p) \/ ListNames(p)

Spec == Init /\ [][Next]_vars

-----------------------------------------------------------------------------
\* The logger closes each WriteCloser it was given at most once and never
\* writes to one it has closed, not even by the stale names of a Listlog.
NoMisuse == ~misuse

\* The WriteClosers not yet closed are the ones in l.closers: none is leaked
\* when its channel gets another writer, and Close reaches them all.
ClosersOwned ==
  /\ given \ shut = {closers[n] : n \in DOMAIN closers}
  /\ \A n, m \in DOMAIN closers : closers[n] = closers[m] => n = m

\* Every message taken for a repeat is in the count that runs, or in exactly one
\* hint: one that a channel got or, if no open channel of the message after it
\* drops repeats, one that none got: against logger.go:258 it is lost.
DupsCounted == dropped = hinted + lost + dupCount

\* l.dedup, kept by SetChannelDedup alone, still covers every open channel
\* after others were closed, removed and opened again.
DedupCovers == (\E n \in logChs : ~closed[n] /\ dedups[n]) => dedup

\* The dedup misses no channel that asked for it, and no hint counts a repeat
\* that another counted, or leaves one out.
DedupSound == DedupCovers /\ DupsCounted
=============================================================================
