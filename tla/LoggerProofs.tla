---------------------------- MODULE LoggerProofs ----------------------------
(***************************************************************************)
(* The logger closes what it was given once and writes to none of it       *)
(* afterwards, for every set of channels, writers and goroutines, and its  *)
(* dedup loses no repeat.                                                  *)
(***************************************************************************)
EXTENDS Logger, TLAPS

\* A channel has a closer exactly while the WriteCloser behind it is the
\* logger's to close: this is what a name read long ago still tells Listlog.
OutsInv ==
  /\ \A n \in DOMAIN closers : ~closed[n] /\ closers[n] = out[n]
  /\ \A n \in Names : ~closed[n] /\ out[n] # NoOut => n \in DOMAIN closers

LoggerInv == TypeOK /\ OutsInv /\ ClosersOwned /\ NoMisuse /\ DedupCovers /\ DupsCounted

\* The parts of TypeOK that change together.
ChannelsOK ==
  /\ Std \subseteq logChs /\ logChs \subseteq Names /\ list \subseteq logChs
  /\ out \in [Names -> Outs \cup {NoOut}]
  /\ DOMAIN closers \subseteq logChs /\ \A n \in DOMAIN closers : closers[n] \in Outs
  /\ dedups \in [Names -> BOOLEAN] /\ closed \in [Names -> BOOLEAN]
  /\ shut \subseteq given /\ given \subseteq Outs
DupsOK ==
  /\ dedup \in BOOLEAN
  /\ last \in Lines /\ dupCount \in 0..DupLimit /\ dupTime \in {"zero", "set"}
  /\ dropped \in 0..MaxDups /\ hinted \in 0..MaxDups /\ lost \in 0..MaxDups
CallsOK ==
  /\ mu \in Procs \cup {Nobody}
  /\ pc \in [Procs -> {"idle", "range", "listed", "relock"}]
  /\ names \in [Procs -> SUBSET Names]
  /\ misuse \in BOOLEAN /\ crash \in BOOLEAN
  /\ mu # Nobody <=> \E p \in Procs : pc[p] = "relock" /\ mu = p

LEMMA TypeParts == TypeOK <=> ChannelsOK /\ DupsOK /\ CallsOK
BY DEF TypeOK, ChannelsOK, DupsOK, CallsOK

LEMMA StdNames == Std \subseteq Names /\ Touched \subseteq Names
BY DEF Names

-----------------------------------------------------------------------------
\* closeLogChannel closes the writers it takes out of l.closers, all of them
\* for the first time.
LEMMA Closing ==
  ASSUME LoggerInv, NEW S \in SUBSET Names, CloseOuts(S)
  PROVE  /\ shut' = shut \cup {closers[n] : n \in S \cap DOMAIN closers}
         /\ {closers[n] : n \in S \cap DOMAIN closers} \subseteq given
         /\ misuse' = misuse /\ ~misuse
         /\ given \ shut' = {closers[n] : n \in DOMAIN closers \ S}
<1> DEFINE outs == {closers[n] : n \in S \cap DOMAIN closers}
           gone == {n \in S \cap logChs : ~closed[n]}
<1>1. gone \cap DOMAIN closers = S \cap DOMAIN closers
  BY DEF LoggerInv, TypeOK, OutsInv
<1>2. shut' = shut \cup outs /\ misuse' = (misuse \/ outs \cap shut # {})
  BY <1>1 DEF CloseOuts
<1>3. outs \subseteq given /\ outs \cap shut = {}
  BY DEF LoggerInv, ClosersOwned
<1>4. given \ (shut \cup outs) = {closers[n] : n \in DOMAIN closers \ S}
  BY DEF LoggerInv, ClosersOwned
<1>5. misuse = FALSE
  BY TypeParts DEF LoggerInv, NoMisuse, CallsOK
<1>6. misuse' = FALSE
  BY <1>2, <1>3, <1>5
<1> QED BY <1>2, <1>3, <1>4, <1>5, <1>6

LEMMA Left ==
  ASSUME LoggerInv, NEW S \in SUBSET Names
  PROVE  ClosersLeft(S) = [n \in DOMAIN closers \ S |-> closers[n]]
<1>1. DOMAIN closers \ {m \in S : ~closed[m]} = DOMAIN closers \ S
  BY DEF LoggerInv, OutsInv
<1> QED BY <1>1 DEF ClosersLeft

\* What is left of l.closers when some channels are closed, and when one of
\* them has got a new closer.
LEMMA ClosersShrink ==
  ASSUME LoggerInv, NEW S \in SUBSET Names, CloseOuts(S), given' = given,
         closers' = ClosersLeft(S)
  PROVE  /\ ClosersOwned' /\ NoMisuse' /\ misuse' = misuse
         /\ shut' \subseteq given'
         /\ DOMAIN closers' = DOMAIN closers \ S
         /\ \A n \in DOMAIN closers' : closers'[n] = closers[n]
<1>1. closers' = [n \in DOMAIN closers \ S |-> closers[n]]
  BY Left
<1>2. /\ DOMAIN closers' = DOMAIN closers \ S
      /\ \A n \in DOMAIN closers' : closers'[n] = closers[n]
  BY <1>1
<1>3. given' \ shut' = {closers'[n] : n \in DOMAIN closers'}
  BY <1>2, Closing
<1>4. \A n, m \in DOMAIN closers' : closers'[n] = closers'[m] => n = m
  BY <1>2 DEF LoggerInv, ClosersOwned
<1>5. shut' \subseteq given'
  BY Closing DEF LoggerInv, TypeOK
<1> QED BY <1>2, <1>3, <1>4, <1>5, Closing DEF ClosersOwned, NoMisuse

\* The channels that stay open, and the dedup that covers them.
LEMMA DedupStays ==
  ASSUME LoggerInv, dedup' = dedup,
         \A n \in logChs' : ~closed'[n] /\ dedups'[n] => n \in logChs /\ ~closed[n] /\ dedups[n]
  PROVE  DedupCovers'
BY DEF LoggerInv, DedupCovers

LEMMA CountStays ==
  ASSUME LoggerInv, UNCHANGED <<dedup, dupVars>>
  PROVE  DupsOK' /\ DupsCounted'
BY TypeParts DEF LoggerInv, DupsOK, DupsCounted, dupVars

\* Calls that do not touch the state of Listlog and SetWriter; l.list may be
\* written while a Listlog ranges over it.
LEMMA CallsStay ==
  ASSUME LoggerInv, mu' = mu, pc' = pc, names' = names, misuse' = misuse,
         crash' = crash \/ ListRace
  PROVE  CallsOK'
<1>1. crash' \in BOOLEAN
  BY TypeParts DEF LoggerInv, CallsOK, ListRace
<1> QED BY <1>1, TypeParts DEF LoggerInv, CallsOK

LEMMA AllTypes ==
  ASSUME ChannelsOK', DupsOK', CallsOK'
  PROVE  TypeOK'
BY DEF TypeOK, ChannelsOK, DupsOK, CallsOK

-----------------------------------------------------------------------------
(* The methods.                                                            *)

LEMMA SetChannelDedupStep ==
  ASSUME LoggerInv, NEW p \in Procs, NEW n \in Touched, NEW on \in BOOLEAN,
         SetChannelDedup(p, n, on)
  PROVE  LoggerInv'
<1>1. /\ logChs' = logChs /\ out' = out /\ closers' = closers /\ list' = list
      /\ closed' = closed /\ last' = last /\ dupCount' = dupCount /\ dropped' = dropped
      /\ hinted' = hinted /\ lost' = lost /\ dupTime' = dupTime
      /\ given' = given /\ shut' = shut /\ misuse' = misuse
      /\ mu' = mu /\ pc' = pc /\ names' = names /\ crash' = crash
      /\ dedups' = [dedups EXCEPT ![n] = on]
      /\ dedup' = \E m \in logChs : ~closed[m] /\ dedups'[m]
  BY DEF SetChannelDedup, dupVars, outVars
<1>2. ChannelsOK'
  BY <1>1, TypeParts DEF LoggerInv, ChannelsOK
<1>3. DupsOK' /\ DupsCounted'
  <2>1. dedup' \in BOOLEAN
    BY <1>1
  <2> QED BY <1>1, <2>1, TypeParts DEF LoggerInv, DupsOK, DupsCounted
<1>4. CallsOK'
  BY <1>1, CallsStay
<1>5. DedupCovers'
  BY <1>1 DEF DedupCovers
<1>6. OutsInv' /\ ClosersOwned' /\ NoMisuse'
  BY <1>1 DEF LoggerInv, OutsInv, ClosersOwned, NoMisuse
<1> QED BY <1>2, <1>3, <1>4, <1>5, <1>6, AllTypes DEF LoggerInv

LEMMA SetWriterStep ==
  ASSUME LoggerInv, NEW p \in Procs, NEW n \in Touched, SetWriter(p, n)
  PROVE  LoggerInv'
<1>1. /\ logChs' = logChs /\ out' = out /\ closers' = closers /\ list' = list /\ dedups' = dedups
      /\ closed' = closed /\ dedup' = dedup /\ UNCHANGED dupVars
      /\ given' = given /\ shut' = shut /\ misuse' = misuse /\ names' = names /\ crash' = crash
      /\ mu = Nobody /\ mu' = p /\ pc' = [pc EXCEPT ![p] = "relock"]
  BY DEF SetWriter, Idle, logVars, outVars
<1>2. ChannelsOK'
  BY <1>1, TypeParts DEF LoggerInv, ChannelsOK
<1>3. DupsOK' /\ DupsCounted'
  BY <1>1, CountStays
<1>4. CallsOK'
  BY <1>1, TypeParts, TouchedAssumption DEF LoggerInv, CallsOK
<1>5. DedupCovers'
  BY <1>1, DedupStays
<1>6. OutsInv' /\ ClosersOwned' /\ NoMisuse'
  BY <1>1 DEF LoggerInv, OutsInv, ClosersOwned, NoMisuse
<1> QED BY <1>2, <1>3, <1>4, <1>5, <1>6, AllTypes DEF LoggerInv

\* What closing a set of channels, in l.list or not, does to the rest.
LEMMA ClosingStep ==
  ASSUME LoggerInv, NEW S \in SUBSET Names,
         CloseOuts(S), closers' = ClosersLeft(S), closed' = ClosedBy(S),
         UNCHANGED <<mu, logChs, out, dedups, dedup, dupVars, given, pc, names>>,
         list' \subseteq list, crash' = crash \/ ListRace
  PROVE  LoggerInv'
<1>1. /\ mu' = mu /\ logChs' = logChs /\ out' = out /\ dedups' = dedups /\ dedup' = dedup
      /\ given' = given /\ pc' = pc /\ names' = names /\ UNCHANGED dupVars
  OBVIOUS
<1>2. /\ ClosersOwned' /\ NoMisuse' /\ misuse' = misuse /\ shut' \subseteq given'
      /\ DOMAIN closers' = DOMAIN closers \ S
      /\ \A n \in DOMAIN closers' : closers'[n] = closers[n]
  BY <1>1, ClosersShrink
<1>3. /\ closed' \in [Names -> BOOLEAN]
      /\ \A n \in Names : closed'[n] <=> closed[n] \/ n \in S \cap logChs
  BY TypeParts DEF LoggerInv, ChannelsOK, ClosedBy
<1>4. ChannelsOK'
  BY <1>1, <1>2, <1>3, TypeParts DEF LoggerInv, ChannelsOK
<1>5. DupsOK' /\ DupsCounted'
  BY <1>1, CountStays
<1>6. CallsOK'
  BY <1>1, <1>2, CallsStay
<1>7. DedupCovers'
  BY <1>1, <1>3, DedupStays, TypeParts DEF LoggerInv, ChannelsOK
<1>8. OutsInv'
  <2>1. \A n \in DOMAIN closers' : ~closed'[n] /\ closers'[n] = out'[n]
    BY <1>1, <1>2, <1>3, TypeParts DEF LoggerInv, OutsInv, ChannelsOK
  <2>2. \A n \in Names : ~closed'[n] /\ out'[n] # NoOut => n \in DOMAIN closers'
    BY <1>1, <1>2, <1>3, TypeParts DEF LoggerInv, OutsInv, ChannelsOK
  <2> QED BY <2>1, <2>2 DEF OutsInv
<1> QED BY <1>2, <1>4, <1>5, <1>6, <1>7, <1>8, AllTypes DEF LoggerInv

LEMMA CloseLogChannelsStep ==
  ASSUME LoggerInv, NEW p \in Procs, NEW S \in SUBSET Names, CloseLogChannels(p, S)
  PROVE  LoggerInv'
BY ClosingStep DEF CloseLogChannels

LEMMA RemoveListLogStep ==
  ASSUME LoggerInv, NEW p \in Procs, NEW n \in Touched, RemoveListLog(p, n)
  PROVE  LoggerInv'
BY ClosingStep, StdNames DEF RemoveListLog

\* What AddListlog and AddListlogCloser have in common: the channel is open
\* again, and drops no repeats.
LEMMA OpeningStep ==
  ASSUME LoggerInv, NEW n \in Touched, NEW o \in Outs \cup {NoOut},
         UNCHANGED <<mu, dedup, dupVars, pc, names>>, ListRace,
         logChs' = logChs \cup {n}, list' = list \cup {n},
         out' = [out EXCEPT ![n] = o],
         dedups' = [dedups EXCEPT ![n] = FALSE], closed' = [closed EXCEPT ![n] = FALSE],
         shut' \subseteq given', given' \subseteq Outs, misuse' = misuse,
         ClosersOwned', NoMisuse',
         DOMAIN closers' = (DOMAIN closers \ {n}) \cup (IF o = NoOut THEN {} ELSE {n}),
         \A m \in DOMAIN closers' : closers'[m] = IF m = n THEN o ELSE closers[m]
  PROVE  LoggerInv'
<1>1. n \in Names
  BY StdNames
<1>2. /\ \A m \in Names : closed'[m] <=> closed[m] /\ m # n
      /\ \A m \in Names : dedups'[m] <=> dedups[m] /\ m # n
      /\ \A m \in Names : out'[m] = IF m = n THEN o ELSE out[m]
  BY <1>1, TypeParts DEF LoggerInv, ChannelsOK
<1>3. ChannelsOK'
  <2>1. /\ out' \in [Names -> Outs \cup {NoOut}]
        /\ dedups' \in [Names -> BOOLEAN] /\ closed' \in [Names -> BOOLEAN]
    BY <1>1, TypeParts DEF LoggerInv, ChannelsOK
  <2>2. Std \subseteq logChs' /\ logChs' \subseteq Names /\ list' \subseteq logChs'
    BY <1>1, TypeParts DEF LoggerInv, ChannelsOK
  <2>3. DOMAIN closers' \subseteq logChs' /\ \A m \in DOMAIN closers' : closers'[m] \in Outs
    BY TypeParts DEF LoggerInv, ChannelsOK
  <2> QED BY <2>1, <2>2, <2>3 DEF ChannelsOK
<1>4. DupsOK' /\ DupsCounted'
  BY CountStays
<1>5. CallsOK'
  BY CallsStay
<1>6. DedupCovers'
  BY <1>1, <1>2, <1>3, DedupStays DEF ChannelsOK
<1>7. OutsInv'
  <2>1. \A m \in DOMAIN closers' : ~closed'[m] /\ closers'[m] = out'[m]
    BY <1>1, <1>2, <1>3 DEF LoggerInv, OutsInv, ChannelsOK
  <2>2. \A m \in Names : ~closed'[m] /\ out'[m] # NoOut => m \in DOMAIN closers'
    BY <1>1, <1>2 DEF LoggerInv, OutsInv
  <2> QED BY <2>1, <2>2 DEF OutsInv
<1> QED BY <1>3, <1>4, <1>5, <1>6, <1>7, AllTypes DEF LoggerInv

LEMMA AddListlogStep ==
  ASSUME LoggerInv, NEW p \in Procs, NEW n \in Touched, AddListlog(p, n)
  PROVE  LoggerInv'
<1>1. {n} \in SUBSET Names /\ CloseOuts({n}) /\ given' = given /\ closers' = ClosersLeft({n})
  BY StdNames DEF AddListlog
<1>2. /\ ClosersOwned' /\ NoMisuse' /\ misuse' = misuse /\ shut' \subseteq given'
      /\ DOMAIN closers' = DOMAIN closers \ {n}
      /\ \A m \in DOMAIN closers' : closers'[m] = closers[m]
  BY <1>1, ClosersShrink
<1>3. given' \subseteq Outs
  BY <1>1, TypeParts DEF LoggerInv, ChannelsOK
<1>4. /\ NoOut \in Outs \cup {NoOut}
      /\ DOMAIN closers' = (DOMAIN closers \ {n}) \cup (IF NoOut = NoOut THEN {} ELSE {n})
      /\ \A m \in DOMAIN closers' : closers'[m] = IF m = n THEN NoOut ELSE closers[m]
  BY <1>2
<1>5. /\ UNCHANGED <<mu, dedup, dupVars, pc, names>> /\ ListRace
      /\ logChs' = logChs \cup {n} /\ list' = list \cup {n}
      /\ out' = [out EXCEPT ![n] = NoOut]
      /\ dedups' = [dedups EXCEPT ![n] = FALSE] /\ closed' = [closed EXCEPT ![n] = FALSE]
  BY DEF AddListlog
<1> QED BY <1>2, <1>3, <1>4, <1>5, OpeningStep

\* The writer that had the place is closed, the new one is nobody else's.
LEMMA AddListlogCloserStep ==
  ASSUME LoggerInv, NEW p \in Procs, NEW n \in Touched, NEW o \in Outs,
         AddListlogCloser(p, n, o)
  PROVE  LoggerInv'
<1>1. /\ {n} \in SUBSET Names /\ CloseOuts({n})
      /\ o \in Outs \ given /\ given' = given \cup {o} /\ o # NoOut
  BY StdNames, TouchedAssumption DEF AddListlogCloser
<1>2. /\ DOMAIN closers' = DOMAIN closers \cup {n}
      /\ \A m \in DOMAIN closers' : closers'[m] = IF m = n THEN o ELSE closers[m]
  BY DEF AddListlogCloser
<1>3. /\ misuse' = misuse /\ ~misuse
      /\ shut' \subseteq given /\ o \notin shut'
      /\ given \ shut' = {closers[m] : m \in DOMAIN closers \ {n}}
  BY <1>1, Closing, TypeParts DEF LoggerInv, ChannelsOK
<1>4. ClosersOwned'
  <2>1. given' \ shut' = {closers'[m] : m \in DOMAIN closers'}
    BY <1>1, <1>2, <1>3
  <2>2. \A m \in DOMAIN closers : closers[m] # o
    BY <1>1 DEF LoggerInv, ClosersOwned
  <2>3. \A m, k \in DOMAIN closers' : closers'[m] = closers'[k] => m = k
    BY <1>2, <2>2 DEF LoggerInv, ClosersOwned
  <2> QED BY <2>1, <2>3 DEF ClosersOwned
<1>5. shut' \subseteq given' /\ given' \subseteq Outs
  BY <1>1, <1>3, TypeParts DEF LoggerInv, ChannelsOK
<1>6. NoMisuse'
  BY <1>3 DEF NoMisuse
<1> QED BY <1>1, <1>2, <1>3, <1>4, <1>5, <1>6, OpeningStep DEF AddListlogCloser

-----------------------------------------------------------------------------
(* WriteToList.                                                            *)

\* A channel that is open has a writer that is open.
LEMMA OpenOuts ==
  ASSUME LoggerInv, NEW n \in Names, ~closed[n]
  PROVE  out[n] \notin shut
<1>1. CASE out[n] = NoOut
  BY <1>1, TouchedAssumption, TypeParts DEF LoggerInv, ChannelsOK
<1>2. CASE out[n] # NoOut
  BY <1>2 DEF LoggerInv, OutsInv, ClosersOwned
<1> QED BY <1>1, <1>2

\* Whatever the names are, and however old.
LEMMA WrittenStep ==
  ASSUME LoggerInv, NEW S \in SUBSET Names, NEW v \in Lines, NEW late \in BOOLEAN,
         Written(S, v, late), dedup' = dedup
  PROVE  misuse' = misuse /\ ~misuse /\ DupsOK' /\ DupsCounted'
<1> DEFINE same == dedup /\ last = v
           hint == IF dedup THEN Hint(same, late) ELSE 0
           live == {n \in S : ~closed[n] /\ (same /\ dedups[n] => hint > 0)}
           taken == \E n \in S : ~closed[n] /\ dedups[n]
<1>1. /\ same => dropped < MaxDups
      /\ last' = IF dedup THEN v ELSE last
      /\ dupCount' = IF dedup THEN Count(same, late) ELSE dupCount
      /\ dropped' = IF same THEN dropped + 1 ELSE dropped
      /\ dupTime' = IF hint > 0 THEN "set" ELSE dupTime
      /\ hinted' = IF taken THEN hinted + hint ELSE hinted
      /\ lost' = IF taken THEN lost ELSE lost + hint
      /\ misuse' = (misuse \/ \E n \in live : out[n] \in shut)
  BY DEF Written
<1>2. ~\E n \in live : out[n] \in shut
  BY OpenOuts
<1>3. misuse' = misuse /\ ~misuse
  <2>1. misuse = FALSE
    BY TypeParts DEF LoggerInv, NoMisuse, CallsOK
  <2>2. misuse' = FALSE
    BY <1>1, <1>2, <2>1
  <2> QED BY <2>1, <2>2
<1>4. /\ dropped \in Nat /\ hinted \in Nat /\ lost \in Nat /\ dupCount \in 0..DupLimit
      /\ dropped \in 0..MaxDups /\ dropped = hinted + lost + dupCount
  BY TypeParts DEF LoggerInv, DupsOK, DupsCounted
<1>5. /\ hint \in Nat /\ dupCount' \in 0..DupLimit
      /\ dropped' \in 0..MaxDups /\ dropped' = hinted + lost + hint + dupCount'
  <2>1. CASE ~dedup
    BY <1>1, <1>4, <2>1
  <2>2. CASE dedup /\ last # v
    BY <1>1, <1>4, <2>2, DupAssumption DEF Hint, Count
  <2>3. CASE dedup /\ last = v
    BY <1>1, <1>4, <2>3, DupAssumption DEF Hint, Count
  <2> QED BY <2>1, <2>2, <2>3
<1>6. /\ hinted' \in 0..MaxDups /\ lost' \in 0..MaxDups
      /\ dropped' = hinted' + lost' + dupCount'
  <2> HIDE DEF hint, taken
  <2>1. CASE taken
    BY <1>1, <1>4, <1>5, <2>1, DupAssumption
  <2>2. CASE ~taken
    BY <1>1, <1>4, <1>5, <2>2, DupAssumption
  <2> QED BY <2>1, <2>2
<1>7. last' \in Lines
  BY <1>1, TypeParts DEF LoggerInv, DupsOK
<1>8. dupTime' \in {"zero", "set"}
  BY <1>1, TypeParts DEF LoggerInv, DupsOK
<1> QED BY <1>3, <1>5, <1>6, <1>7, <1>8, TypeParts DEF LoggerInv, DupsOK, DupsCounted

LEMMA LineType ==
  ASSUME NEW w \in DOMAIN Wrapper, NEW m \in Msgs
  PROVE  Line(w, m) \in Lines
<1>1. CASE w = "Debug"
  BY <1>1 DEF Lines
<1>2. CASE w # "Debug"
  <2>1. Line(w, m) = Line("Stdout", m)
    BY <1>2 DEF Line
  <2> QED BY <2>1 DEF Lines
<1> QED BY <1>1, <1>2

LEMMA WriteStep ==
  ASSUME LoggerInv, NEW p \in Procs, NEW w \in Uses, NEW m \in Msgs, NEW late \in BOOLEAN,
         Write(p, w, m, late)
  PROVE  LoggerInv'
<1>1. /\ mu' = mu /\ UNCHANGED logVars /\ given' = given /\ shut' = shut
      /\ pc' = pc /\ names' = names /\ crash' = crash
      /\ Written(Wrapper[w], Line(w, m), late)
  BY DEF Write
<1>2. Wrapper[w] \in SUBSET Names /\ Line(w, m) \in Lines
  <2>1. w \in DOMAIN Wrapper
    BY UsesAssumption
  <2>2. Wrapper[w] \in SUBSET Std
    BY <2>1 DEF Wrapper, Std
  <2> QED BY <2>1, <2>2, LineType, StdNames
<1>3. /\ logChs' = logChs /\ out' = out /\ closers' = closers /\ list' = list /\ dedups' = dedups
      /\ closed' = closed /\ dedup' = dedup
  BY <1>1 DEF logVars
<1>4. misuse' = misuse /\ ~misuse /\ DupsOK' /\ DupsCounted'
  BY <1>1, <1>2, <1>3, WrittenStep
<1>5. ChannelsOK'
  BY <1>1, <1>3, TypeParts DEF LoggerInv, ChannelsOK
<1>6. CallsOK'
  BY <1>1, <1>4, CallsStay
<1>7. DedupCovers'
  BY <1>3, DedupStays
<1>8. OutsInv' /\ ClosersOwned' /\ NoMisuse'
  BY <1>1, <1>3, <1>4 DEF LoggerInv, OutsInv, ClosersOwned, NoMisuse
<1> QED BY <1>4, <1>5, <1>6, <1>7, <1>8, AllTypes DEF LoggerInv

LEMMA ListStep ==
  ASSUME LoggerInv, NEW p \in Procs, ListRange(p) \/ ListNames(p)
  PROVE  LoggerInv'
<1>1. /\ mu' = mu /\ UNCHANGED <<logVars, dupVars, outVars, crash>>
      /\ pc[p] \in {"idle", "range"} /\ \E label \in {"range", "listed"} : pc' = [pc EXCEPT ![p] = label]
      /\ names' = names \/ names' = [names EXCEPT ![p] = list]
  BY DEF ListRange, ListNames
<1>2. /\ logChs' = logChs /\ out' = out /\ closers' = closers /\ list' = list /\ dedups' = dedups
      /\ closed' = closed /\ dedup' = dedup /\ given' = given /\ shut' = shut
      /\ misuse' = misuse /\ crash' = crash
  BY <1>1 DEF logVars, outVars
<1>3. ChannelsOK'
  BY <1>2, TypeParts DEF LoggerInv, ChannelsOK
<1>4. DupsOK' /\ DupsCounted'
  BY <1>1, <1>2, CountStays
<1>5. CallsOK'
  <2>1. names' \in [Procs -> SUBSET Names]
    BY <1>1, TypeParts DEF LoggerInv, CallsOK, ChannelsOK
  <2>2. pc' \in [Procs -> {"idle", "range", "listed", "relock"}]
    BY <1>1, TypeParts DEF LoggerInv, CallsOK
  <2>3. \A q \in Procs : pc'[q] = "relock" <=> pc[q] = "relock"
    BY <1>1, TypeParts DEF LoggerInv, CallsOK
  <2> QED BY <1>1, <1>2, <2>1, <2>2, <2>3, TypeParts DEF LoggerInv, CallsOK
<1>6. DedupCovers'
  BY <1>2, DedupStays
<1>7. OutsInv' /\ ClosersOwned' /\ NoMisuse'
  BY <1>2 DEF LoggerInv, OutsInv, ClosersOwned, NoMisuse
<1> QED BY <1>3, <1>4, <1>5, <1>6, <1>7, AllTypes DEF LoggerInv

LEMMA ListWriteStep ==
  ASSUME LoggerInv, NEW p \in Procs, NEW m \in Msgs, NEW late \in BOOLEAN,
         ListWrite(p, m, late)
  PROVE  LoggerInv'
<1>1. /\ mu' = mu /\ UNCHANGED logVars /\ given' = given /\ shut' = shut /\ crash' = crash
      /\ pc[p] = "listed" /\ pc' = [pc EXCEPT ![p] = "idle"]
      /\ names' = [names EXCEPT ![p] = {}]
      /\ Written(names[p], Line("Stdout", m), late)
  BY DEF ListWrite
<1>2. names[p] \in SUBSET Names /\ Line("Stdout", m) \in Lines
  BY TypeParts DEF LoggerInv, CallsOK, Lines
<1>3. /\ logChs' = logChs /\ out' = out /\ closers' = closers /\ list' = list /\ dedups' = dedups
      /\ closed' = closed /\ dedup' = dedup
  BY <1>1 DEF logVars
<1>4. misuse' = misuse /\ ~misuse /\ DupsOK' /\ DupsCounted'
  BY <1>1, <1>2, <1>3, WrittenStep
<1>5. ChannelsOK'
  BY <1>1, <1>3, TypeParts DEF LoggerInv, ChannelsOK
<1>6. CallsOK'
  <2>1. names' \in [Procs -> SUBSET Names] /\ pc' \in [Procs -> {"idle", "range", "listed", "relock"}]
    BY <1>1, TypeParts DEF LoggerInv, CallsOK
  <2>2. \A q \in Procs : pc'[q] = "relock" <=> pc[q] = "relock"
    BY <1>1, TypeParts DEF LoggerInv, CallsOK
  <2> QED BY <1>1, <1>4, <2>1, <2>2, TypeParts DEF LoggerInv, CallsOK
<1>7. DedupCovers'
  BY <1>3, DedupStays
<1>8. OutsInv' /\ ClosersOwned' /\ NoMisuse'
  BY <1>1, <1>3, <1>4 DEF LoggerInv, OutsInv, ClosersOwned, NoMisuse
<1> QED BY <1>4, <1>5, <1>6, <1>7, <1>8, AllTypes DEF LoggerInv

-----------------------------------------------------------------------------
(* The theorems.                                                           *)

LEMMA LoggerInit == Init => LoggerInv
<1> SUFFICES ASSUME Init
             PROVE  LoggerInv
  OBVIOUS
<1>1. ChannelsOK
  BY StdNames DEF Init, ChannelsOK
<1>2. DupsOK
  BY DupAssumption DEF Init, DupsOK, Lines
<1>3. CallsOK
  BY DEF Init, CallsOK
<1>4. OutsInv /\ ClosersOwned /\ NoMisuse
  BY DEF Init, OutsInv, ClosersOwned, NoMisuse
<1>5. DedupCovers /\ DupsCounted
  BY DEF Init, DedupCovers, DupsCounted
<1> QED BY <1>1, <1>2, <1>3, <1>4, <1>5, TypeParts DEF LoggerInv

LEMMA LoggerStep == LoggerInv /\ [Next]_vars => LoggerInv'
<1> SUFFICES ASSUME LoggerInv, [Next]_vars
             PROVE  LoggerInv'
  OBVIOUS
<1>1. ASSUME NEW p \in Procs, NEW n \in Touched,
             \/ \E on \in BOOLEAN : SetChannelDedup(p, n, on)
             \/ SetWriter(p, n) \/ CloseLogChannels(p, {n}) \/ RemoveListLog(p, n)
             \/ AddListlog(p, n) \/ (\E o \in Outs : AddListlogCloser(p, n, o))
      PROVE  LoggerInv'
  <2>1. {n} \in SUBSET Names
    BY StdNames
  <2> QED BY <1>1, <2>1, SetChannelDedupStep, SetWriterStep, CloseLogChannelsStep,
             RemoveListLogStep, AddListlogStep, AddListlogCloserStep
<1>2. ASSUME NEW p \in Procs, CloseLogChannels(p, logChs)
      PROVE  LoggerInv'
  BY <1>2, CloseLogChannelsStep, TypeParts DEF LoggerInv, ChannelsOK
<1>3. ASSUME NEW p \in Procs, NEW m \in Msgs, NEW late \in BOOLEAN,
             (\E w \in Uses : Write(p, w, m, late)) \/ ListWrite(p, m, late)
      PROVE  LoggerInv'
  BY <1>3, WriteStep, ListWriteStep
<1>4. ASSUME NEW p \in Procs, ListRange(p) \/ ListNames(p)
      PROVE  LoggerInv'
  BY <1>4, ListStep
<1>5. ASSUME UNCHANGED vars
      PROVE  LoggerInv'
  <2>1. TypeOK'
    BY <1>5 DEF vars, logVars, dupVars, outVars, LoggerInv, TypeOK
  <2>2. OutsInv' /\ ClosersOwned' /\ NoMisuse' /\ DedupCovers' /\ DupsCounted'
    BY <1>5 DEF vars, logVars, dupVars, outVars, LoggerInv, OutsInv, ClosersOwned, NoMisuse,
                DedupCovers, DupsCounted
  <2> QED BY <2>1, <2>2 DEF LoggerInv
<1> QED BY <1>1, <1>2, <1>3, <1>4, <1>5 DEF Next

LEMMA LoggerHolds == Spec => []LoggerInv
BY LoggerInit, LoggerStep, PTL DEF Spec

\* The maps of the logger keep to each other: only a known channel is listed,
\* has a closer, or is written to.
THEOREM LoggerTypeCorrect == Spec => []TypeOK
<1>1. LoggerInv => TypeOK
  BY DEF LoggerInv
<1> QED BY <1>1, LoggerHolds, PTL

\* No WriteCloser is closed twice or written to once it is closed, whatever
\* happened to the channels between the two halves of a Listlog.
THEOREM ClosedOnceNeverWritten == Spec => []NoMisuse
<1>1. LoggerInv => NoMisuse
  BY DEF LoggerInv
<1> QED BY <1>1, LoggerHolds, PTL

\* Close reaches every WriteCloser that is still open.
THEOREM ClosersReachAll == Spec => []ClosersOwned
<1>1. LoggerInv => ClosersOwned
  BY DEF LoggerInv
<1> QED BY <1>1, LoggerHolds, PTL

\* Every repeat that was suppressed is in the count that runs or in exactly one
\* hint, whether a channel got it or none; and l.dedup, which one method keeps, covers the
\* open channels all the others leave behind.
THEOREM DedupIsSound == Spec => []DedupSound
<1>1. LoggerInv => DedupSound
  BY DEF LoggerInv, DedupSound
<1> QED BY <1>1, LoggerHolds, PTL
=============================================================================
