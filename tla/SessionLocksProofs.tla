------------------------- MODULE SessionLocksProofs -------------------------
(***************************************************************************)
(* The statements of initssid, growindex and clearssid, interleaved at     *)
(* will, are one step per call to everybody else: SessionLocks implements  *)
(* SessionTable for every set of callers, links and waiters, and none of   *)
(* its look-ups meets a half-registered session.                           *)
(***************************************************************************)
EXTENDS SessionLocks, TLAPS

Working == InitLabels \cup ClearLabels
InSession == {"session"} \cup GrowLabels

\* The statements between which each map has the holder's session.
HasCodec == {"initMutex", "initIndex", "initChan", "clearCodec"}
HasMutex == {"initIndex", "initChan", "clearCodec", "clearMutex"}
HasIndex == {"initChan", "clearCodec", "clearMutex", "clearIndex"}
HasChan  == ClearLabels

\* Sessions somebody changes under tf.mutex.
Changing(s) == \E p \in Procs : pc[p] \in Working /\ sess[p] = s

MapsInv ==
  /\ \A s \in 1..MaxSsid : ~Changing(s) =>
       /\ s \in DOMAIN ssmutex <=> s \in codecs
       /\ s \in DOMAIN ssindex <=> s \in codecs
       /\ s \in DOMAIN ssWriteCh <=> s \in codecs
  /\ \A p \in Procs : pc[p] \in Working =>
       /\ sess[p] \in codecs <=> pc[p] \in HasCodec
       /\ sess[p] \in DOMAIN ssmutex <=> pc[p] \in HasMutex
       /\ sess[p] \in DOMAIN ssindex <=> pc[p] \in HasIndex
       /\ sess[p] \in DOMAIN ssWriteCh <=> pc[p] \in HasChan

\* Each kind of goroutine goes through its own statements; 0 asks for a new session.
RolesInv ==
  /\ \A p \in ReadFroms : /\ pc[p] \notin {"lookup", "wait"}
                          /\ pc[p] = "init" => sess[p] = 0
  /\ \A p \in ReadLoops : pc[p] \in {"idle", "init"} \cup InitLabels
  /\ \A p \in WriteTos : pc[p] \in {"idle", "lookup", "wait", "clear"} \cup ClearLabels
  /\ \A p \in Procs : pc[p] \notin {"idle", "init"} => sess[p] # 0

Owns(p) == p \in ReadFroms /\ pc[p] \notin {"idle", "init"}
Uses(p) == p \in ReadFroms /\ pc[p] \in InitLabels \cup InSession
Dead(s) == s <= ssid /\ \A p \in ReadFroms : Uses(p) => sess[p] # s

OwnersInv ==
  /\ \A p \in ReadFroms : Owns(p) => sess[p] <= ssid
  /\ \A p, q \in ReadFroms : Owns(p) /\ Owns(q) /\ sess[p] = sess[q] => p = q
  /\ \A p \in ReadFroms : pc[p] \in InSession => sess[p] \in codecs /\ ~Changing(sess[p])
  /\ \A p \in ReadFroms : pc[p] \in GrowLabels => /\ sess[p] \in DOMAIN ssmutex
                                                  /\ ssmutex[sess[p]] = p
  /\ \A p \in ReadFroms : pc[p] = "grow" => ssindex[sess[p]] < MaxIndex

ChansInv ==
  /\ \A s, t \in DOMAIN ssWriteCh : ssWriteCh[s] = ssWriteCh[t] => s = t
  /\ \A s \in DOMAIN ssWriteCh : ssWriteCh[s] \in closed <=>
       \E p \in Procs : pc[p] = "clearChan" /\ sess[p] = s
  /\ \A w \in Waiters : LET p == <<"WriteTo", w>> IN
       /\ pc[p] = "wait" => \/ source[w] = NilCh \/ source[w] \in closed
                            \/ sess[p] \in DOMAIN ssWriteCh /\ ssWriteCh[sess[p]] = source[w]
       /\ pc[p] = "wait" /\ source[w] \in closed => Dead(sess[p])
       /\ pc[p] \in {"clear"} \cup ClearLabels => Dead(sess[p])

LocksInv == TypeOK /\ MapsInv /\ RolesInv /\ OwnersInv /\ ChansInv /\ NoFault

-----------------------------------------------------------------------------
(* Goroutines and their types.                                             *)

\* A goroutine is of one kind.
LEMMA Kinds ==
  /\ \A c \in Clients : <<"ReadFrom", c>> \in Procs /\ <<"ReadFrom", c>> \in ReadFroms
  /\ \A l \in Links : <<"readLoop", l>> \in Procs /\ <<"readLoop", l>> \in ReadLoops
  /\ \A w \in Waiters : <<"WriteTo", w>> \in Procs /\ <<"WriteTo", w>> \in WriteTos
  /\ \A p \in Procs : p \in ReadFroms \/ p \in ReadLoops \/ p \in WriteTos
  /\ \A p \in ReadFroms : p \in Procs /\ p \notin ReadLoops /\ p \notin WriteTos
  /\ \A p \in ReadLoops : p \in Procs /\ p \notin WriteTos
  /\ \A p \in WriteTos : p \in Procs /\ \E w \in Waiters : p = <<"WriteTo", w>>
  /\ \A p \in ReadFroms : \E c \in Clients : p = <<"ReadFrom", c>>
  /\ \A v, w \in Waiters : <<"WriteTo", v>> = <<"WriteTo", w>> => v = w
BY DEF Procs, ReadFroms, ReadLoops, WriteTos

\* What tf.mutex excludes.
LEMMA OneWorker ==
  ASSUME TypeOK, NEW p \in Procs, pc[p] \in Working
  PROVE  holder = p /\ \A q \in Procs : pc[q] \in Working => q = p
BY DEF TypeOK, Working

\* The three ways tf.mutex changes hands.
MutexOK ==
  /\ holder \in Procs \cup {NoProc}
  /\ pc \in [Procs -> Labels]
  /\ holder # NoProc <=> \E p \in Procs : pc[p] \in Working
  /\ \A p \in Procs : pc[p] \in Working => holder = p

LEMMA MutexMoves ==
  ASSUME MutexOK, NEW p \in Procs, NEW label \in Labels, Goto(p, label)
  PROVE  /\ UNCHANGED holder /\ (pc[p] \in Working <=> label \in Working) => MutexOK'
         /\ holder = NoProc /\ holder' = p /\ label \in Working => MutexOK'
         /\ holder' = NoProc /\ pc[p] \in Working /\ label \notin Working => MutexOK'
<1>1. /\ pc' \in [Procs -> Labels] /\ pc'[p] = label
      /\ \A q \in Procs : q # p => pc'[q] = pc[q]
  BY DEF MutexOK, Goto
<1>2. ASSUME UNCHANGED holder, pc[p] \in Working <=> label \in Working
      PROVE  MutexOK'
  BY <1>1, <1>2 DEF MutexOK
<1>3. ASSUME holder = NoProc, holder' = p, label \in Working
      PROVE  MutexOK'
  BY <1>1, <1>3, NoProcAssumption DEF MutexOK
<1>4. ASSUME holder' = NoProc, pc[p] \in Working, label \notin Working
      PROVE  MutexOK'
  BY <1>1, <1>4 DEF MutexOK
<1> QED BY <1>2, <1>3, <1>4

\* The rest of TypeOK.
TablesOK ==
  /\ ssid \in 1..MaxSsid
  /\ codecs \subseteq 1..MaxSsid
  /\ DOMAIN ssmutex \subseteq 1..MaxSsid
  /\ \A s \in DOMAIN ssmutex : ssmutex[s] \in Procs \cup {NoProc}
  /\ DOMAIN ssindex \subseteq 1..MaxSsid
  /\ \A s \in DOMAIN ssindex : ssindex[s] \in INIT_INDEX..MaxIndex
  /\ sess \in [Procs -> 0..MaxSsid]

ChansOK ==
  /\ DOMAIN ssWriteCh \subseteq 1..MaxSsid
  /\ \A s \in DOMAIN ssWriteCh : ssWriteCh[s] \in 1..made
  /\ made \in 1..MaxChan /\ closed \subseteq 1..made
  /\ source \in [Waiters -> 0..MaxChan]

LEMMA TypeParts == TypeOK <=> TablesOK /\ ChansOK /\ MutexOK /\ crash \in Faults
BY DEF TypeOK, TablesOK, ChansOK, MutexOK, Working

\* Whose session is being changed, before and after a goroutine goes on.
LEMMA ChangingIs ==
  ASSUME TypeOK
  PROVE  /\ holder = NoProc => \A s : ~Changing(s)
         /\ \A p \in Procs : pc[p] \in Working => \A s : Changing(s) <=> s = sess[p]
BY OneWorker DEF Changing, TypeOK, Working

LEMMA Moves ==
  ASSUME TypeOK, NEW p \in Procs, NEW label \in Labels, Goto(p, label)
  PROVE  /\ pc'[p] = label
         /\ \A q \in Procs : q # p => pc'[q] = pc[q]
BY DEF TypeOK, Goto

LEMMA ChangingMoves ==
  ASSUME TypeOK, NEW p \in Procs, NEW label \in Labels, Goto(p, label),
         \A q \in Procs : q # p => sess'[q] = sess[q]
  PROVE  /\ pc[p] \in Working /\ label \in Working => \A s : Changing(s)' <=> s = sess'[p]
         /\ holder = NoProc /\ label \in Working => \A s : Changing(s)' <=> s = sess'[p]
         /\ pc[p] \in Working /\ label \notin Working => \A s : ~Changing(s)'
         /\ pc[p] \notin Working /\ label \notin Working => \A s : Changing(s)' <=> Changing(s)
<1>1. /\ pc'[p] = label
      /\ \A q \in Procs : q # p => pc'[q] = pc[q] /\ sess'[q] = sess[q]
  BY Moves
<1>2. /\ pc[p] \in Working => \A q \in Procs : q # p => pc[q] \notin Working
      /\ holder = NoProc => \A q \in Procs : pc[q] \notin Working
  BY OneWorker DEF TypeOK, Working
<1>3. ASSUME pc[p] \notin Working, label \notin Working, NEW s
      PROVE  Changing(s)' <=> Changing(s)
  <2>1. Changing(s) => Changing(s)'
    BY <1>1, <1>3 DEF Changing
  <2>2. Changing(s)' => Changing(s)
    BY <1>1, <1>3 DEF Changing
  <2> QED BY <2>1, <2>2
<1>4. ASSUME pc[p] \in Working \/ holder = NoProc, label \in Working, NEW s
      PROVE  Changing(s)' <=> s = sess'[p]
  BY <1>1, <1>2, <1>4 DEF Changing
<1>5. ASSUME pc[p] \in Working, label \notin Working, NEW s
      PROVE  ~Changing(s)'
  BY <1>1, <1>2, <1>5 DEF Changing
<1> QED BY <1>3, <1>4, <1>5

-----------------------------------------------------------------------------
(* The statements done under tf.mutex: the goroutine that holds it works   *)
(* on one session, and leaves what the maps say of the others.             *)

Untouched(s) ==
  /\ s \in codecs' <=> s \in codecs
  /\ s \in DOMAIN ssmutex' <=> s \in DOMAIN ssmutex
  /\ s \in DOMAIN ssindex' <=> s \in DOMAIN ssindex
  /\ s \in DOMAIN ssWriteCh' <=> s \in DOMAIN ssWriteCh
  /\ s \in DOMAIN ssmutex => ssmutex'[s] = ssmutex[s]
  /\ s \in DOMAIN ssindex => ssindex'[s] = ssindex[s]

Works(p, label) ==
  /\ crash = "none" /\ crash' = "none"
  /\ pc[p] \in Working /\ pc'[p] = label
  /\ \A q \in Procs : q # p => pc'[q] = pc[q]
  /\ UNCHANGED <<ssid, sess, source>>
  /\ \A s : s # sess[p] => Untouched(s)

\* What the maps say of the session of the holder of tf.mutex.
Fits(p) ==
  /\ sess[p] \in codecs <=> pc[p] \in HasCodec
  /\ sess[p] \in DOMAIN ssmutex <=> pc[p] \in HasMutex
  /\ sess[p] \in DOMAIN ssindex <=> pc[p] \in HasIndex
  /\ sess[p] \in DOMAIN ssWriteCh <=> pc[p] \in HasChan

LEMMA WorkerMaps ==
  ASSUME LocksInv, NEW p \in Procs, NEW label \in Working, Goto(p, label),
         Works(p, label), Fits(p)'
  PROVE  MapsInv'
<1>1. \A s : Changing(s) <=> s = sess[p]
  BY ChangingIs DEF LocksInv, Works
<1>2. \A s : Changing(s)' <=> s = sess[p]
  BY ChangingMoves DEF LocksInv, Works, Working, Labels
<1>3. ASSUME NEW s \in 1..MaxSsid, s # sess[p]
      PROVE  /\ s \in DOMAIN ssmutex' <=> s \in codecs'
             /\ s \in DOMAIN ssindex' <=> s \in codecs'
             /\ s \in DOMAIN ssWriteCh' <=> s \in codecs'
  BY <1>1, <1>3 DEF LocksInv, MapsInv, Works, Untouched
<1>4. \A q \in Procs : q # p => pc'[q] \notin Working
  BY OneWorker DEF LocksInv, Works
<1> QED BY <1>2, <1>3, <1>4 DEF MapsInv, Fits

LEMMA WorkerOwners ==
  ASSUME LocksInv, NEW p \in Procs, NEW label \in Working \cup {"idle", "session"},
         Goto(p, label), Works(p, label), label = "session" => sess[p] \in codecs'
  PROVE  OwnersInv'
<1>1. \A s : Changing(s) <=> s = sess[p]
  BY ChangingIs DEF LocksInv, Works
<1>2. \A s : Changing(s)' => Changing(s)
  BY <1>1, ChangingMoves DEF LocksInv, Works, Working, Labels
<1>3. \A q \in ReadFroms : q \in Procs /\ (Owns(q)' => Owns(q))
  BY Kinds DEF Owns, Works, Working, InitLabels, ClearLabels
<1>4. \A q \in ReadFroms : q # p /\ pc'[q] \in InSession =>
                           /\ pc'[q] = pc[q] /\ sess'[q] = sess[q] /\ sess[q] # sess[p]
                           /\ ~Changing(sess[q])'
  BY <1>1, <1>2, Kinds DEF LocksInv, OwnersInv, InSession, GrowLabels, Works
<1>4a. pc'[p] \in InSession => pc'[p] = "session" /\ ~Changing(sess[p])'
  BY ChangingMoves DEF LocksInv, InSession, GrowLabels, Works, Working, InitLabels, ClearLabels, Labels
<1>5. /\ \A q \in ReadFroms : Owns(q)' => sess'[q] <= ssid'
      /\ \A q, r \in ReadFroms : Owns(q)' /\ Owns(r)' /\ sess'[q] = sess'[r] => q = r
  BY <1>3 DEF LocksInv, OwnersInv, Works
<1>6. \A q \in ReadFroms : pc'[q] \in InSession => sess'[q] \in codecs'
  BY <1>4, <1>4a DEF LocksInv, OwnersInv, Works, Untouched
<1>7. \A q \in ReadFroms : pc'[q] \in GrowLabels => /\ sess'[q] \in DOMAIN ssmutex'
                                                    /\ ssmutex'[sess'[q]] = q
  BY <1>4, <1>4a DEF LocksInv, OwnersInv, InSession, GrowLabels, Works, Untouched
<1>8. \A q \in ReadFroms : pc'[q] = "grow" => sess'[q] \in DOMAIN ssindex
  <2> SUFFICES ASSUME NEW q \in ReadFroms, pc'[q] = "grow"
               PROVE  sess'[q] \in DOMAIN ssindex
    OBVIOUS
  <2>1. sess[q] \in codecs /\ ~Changing(sess[q]) /\ sess'[q] = sess[q]
    BY <1>4, <1>4a DEF LocksInv, OwnersInv, InSession, GrowLabels
  <2> QED BY <2>1 DEF LocksInv, MapsInv, TypeOK
<1>9. \A q \in ReadFroms : pc'[q] = "grow" => ssindex'[sess'[q]] < MaxIndex
  BY <1>4, <1>4a, <1>8 DEF LocksInv, OwnersInv, InSession, GrowLabels, Works, Untouched
<1>10. \A q \in ReadFroms : pc'[q] \in InSession => ~Changing(sess[q])'
  <2> TAKE q \in ReadFroms
  <2>1. CASE q = p
    BY <1>4a, <2>1
  <2>2. CASE q # p
    BY <1>4, <2>2
  <2> QED BY <2>1, <2>2
<1> QED BY <1>5, <1>6, <1>7, <1>9, <1>10 DEF OwnersInv

\* The statements that leave the channels alone.
LEMMA WorkerChans ==
  ASSUME LocksInv, NEW p \in Procs, NEW label \in Working \ {"clearChan"}, Goto(p, label),
         Works(p, label), pc[p] # "clearChan", pc[p] \in InitLabels <=> label \in InitLabels,
         UNCHANGED <<ssWriteCh, closed>>
  PROVE  ChansInv'
<1>1. \A s : Dead(s) => Dead(s)'
  BY Kinds DEF Dead, Uses, Works, Working, InSession, GrowLabels, InitLabels, ClearLabels
<1>2. \A s : (\E q \in Procs : pc[q] = "clearChan" /\ sess[q] = s) <=>
             (\E q \in Procs : pc'[q] = "clearChan" /\ sess'[q] = s)
  BY DEF Works
<1>3. \A w \in Waiters : LET q == <<"WriteTo", w>> IN
        /\ pc'[q] = "wait" => pc[q] = "wait"
        /\ pc'[q] \in {"clear"} \cup ClearLabels => pc[q] \in {"clear"} \cup ClearLabels
  BY Kinds DEF Works, Working, InitLabels, ClearLabels
<1> QED BY <1>1, <1>2, <1>3 DEF LocksInv, ChansInv, Works

LEMMA InitCodecStep ==
  ASSUME LocksInv, NEW p \in Procs, InitCodec(p)
  PROVE  LocksInv'
<1>1. pc[p] = "initCodec" /\ pc'[p] = "initMutex" /\ Goto(p, "initMutex")
  BY Moves DEF LocksInv, InitCodec, At, Labels, InitLabels, ClearLabels
<1>2. sess[p] \in 1..MaxSsid
  BY <1>1 DEF LocksInv, TypeOK, RolesInv
<1>3. Works(p, "initMutex")
  BY <1>1, Moves DEF LocksInv, InitCodec, At, Works, Untouched, Labels, Working, InitLabels, ClearLabels
<1>4. TablesOK' /\ ChansOK' /\ crash' \in Faults
  BY <1>1, <1>2, TypeParts, BoundsAssumption
  DEF LocksInv, InitCodec, At, TablesOK, ChansOK, chans, Faults, INIT_INDEX
<1>5. TypeOK'
  <2>1. MutexOK'
    BY <1>1, TypeParts, MutexMoves DEF LocksInv, InitCodec, Working, Labels, InitLabels, ClearLabels
  <2>2. (TablesOK /\ ChansOK /\ MutexOK /\ crash \in Faults => TypeOK)'
    BY TypeParts, PTL
  <2> QED BY <1>4, <2>1, <2>2
<1>6. MapsInv'
  <2>1. Fits(p)
    BY <1>1 DEF LocksInv, MapsInv, Fits, Working, InitLabels, ClearLabels
  <2>2. Fits(p)'
    BY <1>1, <2>1 DEF InitCodec, Fits, HasCodec, HasMutex, HasIndex, HasChan, ClearLabels
  <2> QED BY <1>1, <1>3, <2>2, WorkerMaps DEF Working, InitLabels, ClearLabels
<1>7. RolesInv'
  BY <1>1, <1>3, Kinds DEF LocksInv, RolesInv, Works, InitLabels, ClearLabels
<1>8. OwnersInv'
  BY <1>1, <1>3, WorkerOwners DEF Working, InitLabels, ClearLabels
<1>9. ChansInv'
  BY <1>1, <1>3, WorkerChans DEF InitCodec, chans, Working, InitLabels, ClearLabels
<1> QED BY <1>3, <1>5, <1>6, <1>7, <1>8, <1>9 DEF LocksInv, Works, NoFault

LEMMA InitMutexStep ==
  ASSUME LocksInv, NEW p \in Procs, InitMutex(p)
  PROVE  LocksInv'
<1>1. pc[p] = "initMutex" /\ pc'[p] = "initIndex" /\ Goto(p, "initIndex")
  BY Moves DEF LocksInv, InitMutex, At, Labels, InitLabels, ClearLabels
<1>2. sess[p] \in 1..MaxSsid
  BY <1>1 DEF LocksInv, TypeOK, RolesInv
<1>m. /\ DOMAIN ssmutex' = DOMAIN ssmutex \cup {sess[p]}
      /\ ssmutex'[sess[p]] = NoProc
      /\ \A t \in DOMAIN ssmutex : t # sess[p] => ssmutex'[t] = ssmutex[t]
  BY DEF InitMutex, With
<1>3. Works(p, "initIndex")
  BY <1>1, Moves, <1>m DEF LocksInv, InitMutex, At, Works, Untouched, Labels, Working, InitLabels, ClearLabels
<1>4. TablesOK' /\ ChansOK' /\ crash' \in Faults
  BY <1>1, <1>2, TypeParts, BoundsAssumption, <1>m
  DEF LocksInv, InitMutex, At, TablesOK, ChansOK, chans, Faults, INIT_INDEX
<1>5. TypeOK'
  <2>1. MutexOK'
    BY <1>1, TypeParts, MutexMoves DEF LocksInv, InitMutex, Working, Labels, InitLabels, ClearLabels
  <2>2. (TablesOK /\ ChansOK /\ MutexOK /\ crash \in Faults => TypeOK)'
    BY TypeParts, PTL
  <2> QED BY <1>4, <2>1, <2>2
<1>6. MapsInv'
  <2>1. Fits(p)
    BY <1>1 DEF LocksInv, MapsInv, Fits, Working, InitLabels, ClearLabels
  <2>2. Fits(p)'
    BY <1>1, <2>1, <1>m DEF InitMutex, Fits, HasCodec, HasMutex, HasIndex, HasChan, ClearLabels
  <2> QED BY <1>1, <1>3, <2>2, WorkerMaps DEF Working, InitLabels, ClearLabels
<1>7. RolesInv'
  BY <1>1, <1>3, Kinds DEF LocksInv, RolesInv, Works, InitLabels, ClearLabels
<1>8. OwnersInv'
  BY <1>1, <1>3, WorkerOwners DEF Working, InitLabels, ClearLabels
<1>9. ChansInv'
  BY <1>1, <1>3, WorkerChans DEF InitMutex, chans, Working, InitLabels, ClearLabels
<1> QED BY <1>3, <1>5, <1>6, <1>7, <1>8, <1>9 DEF LocksInv, Works, NoFault

LEMMA InitIndexStep ==
  ASSUME LocksInv, NEW p \in Procs, InitIndex(p)
  PROVE  LocksInv'
<1>1. pc[p] = "initIndex" /\ pc'[p] = "initChan" /\ Goto(p, "initChan")
  BY Moves DEF LocksInv, InitIndex, At, Labels, InitLabels, ClearLabels
<1>2. sess[p] \in 1..MaxSsid
  BY <1>1 DEF LocksInv, TypeOK, RolesInv
<1>m. /\ DOMAIN ssindex' = DOMAIN ssindex \cup {sess[p]}
      /\ ssindex'[sess[p]] = INIT_INDEX
      /\ \A t \in DOMAIN ssindex : t # sess[p] => ssindex'[t] = ssindex[t]
  BY DEF InitIndex, With
<1>3. Works(p, "initChan")
  BY <1>1, Moves, <1>m DEF LocksInv, InitIndex, At, Works, Untouched, Labels, Working, InitLabels, ClearLabels
<1>4. TablesOK' /\ ChansOK' /\ crash' \in Faults
  BY <1>1, <1>2, TypeParts, BoundsAssumption, <1>m
  DEF LocksInv, InitIndex, At, TablesOK, ChansOK, chans, Faults, INIT_INDEX
<1>5. TypeOK'
  <2>1. MutexOK'
    BY <1>1, TypeParts, MutexMoves DEF LocksInv, InitIndex, Working, Labels, InitLabels, ClearLabels
  <2>2. (TablesOK /\ ChansOK /\ MutexOK /\ crash \in Faults => TypeOK)'
    BY TypeParts, PTL
  <2> QED BY <1>4, <2>1, <2>2
<1>6. MapsInv'
  <2>1. Fits(p)
    BY <1>1 DEF LocksInv, MapsInv, Fits, Working, InitLabels, ClearLabels
  <2>2. Fits(p)'
    BY <1>1, <2>1, <1>m DEF InitIndex, Fits, HasCodec, HasMutex, HasIndex, HasChan, ClearLabels
  <2> QED BY <1>1, <1>3, <2>2, WorkerMaps DEF Working, InitLabels, ClearLabels
<1>7. RolesInv'
  BY <1>1, <1>3, Kinds DEF LocksInv, RolesInv, Works, InitLabels, ClearLabels
<1>8. OwnersInv'
  BY <1>1, <1>3, WorkerOwners DEF Working, InitLabels, ClearLabels
<1>9. ChansInv'
  BY <1>1, <1>3, WorkerChans DEF InitIndex, chans, Working, InitLabels, ClearLabels
<1> QED BY <1>3, <1>5, <1>6, <1>7, <1>8, <1>9 DEF LocksInv, Works, NoFault

LEMMA ClearCodecStep ==
  ASSUME LocksInv, NEW p \in Procs, ClearCodec(p)
  PROVE  LocksInv'
<1>1. pc[p] = "clearCodec" /\ pc'[p] = "clearMutex" /\ Goto(p, "clearMutex")
  BY Moves DEF LocksInv, ClearCodec, At, Labels, InitLabels, ClearLabels
<1>2. sess[p] \in 1..MaxSsid
  BY <1>1 DEF LocksInv, TypeOK, RolesInv
<1>3. Works(p, "clearMutex")
  BY <1>1, Moves DEF LocksInv, ClearCodec, At, Works, Untouched, Labels, Working, InitLabels, ClearLabels
<1>4. TablesOK' /\ ChansOK' /\ crash' \in Faults
  BY <1>1, <1>2, TypeParts, BoundsAssumption
  DEF LocksInv, ClearCodec, At, TablesOK, ChansOK, chans, Faults, INIT_INDEX
<1>5. TypeOK'
  <2>1. MutexOK'
    BY <1>1, TypeParts, MutexMoves DEF LocksInv, ClearCodec, Working, Labels, InitLabels, ClearLabels
  <2>2. (TablesOK /\ ChansOK /\ MutexOK /\ crash \in Faults => TypeOK)'
    BY TypeParts, PTL
  <2> QED BY <1>4, <2>1, <2>2
<1>6. MapsInv'
  <2>1. Fits(p)
    BY <1>1 DEF LocksInv, MapsInv, Fits, Working, InitLabels, ClearLabels
  <2>2. Fits(p)'
    BY <1>1, <2>1 DEF ClearCodec, Fits, HasCodec, HasMutex, HasIndex, HasChan, ClearLabels
  <2> QED BY <1>1, <1>3, <2>2, WorkerMaps DEF Working, InitLabels, ClearLabels
<1>7. RolesInv'
  BY <1>1, <1>3, Kinds DEF LocksInv, RolesInv, Works, InitLabels, ClearLabels
<1>8. OwnersInv'
  BY <1>1, <1>3, WorkerOwners DEF Working, InitLabels, ClearLabels
<1>9. ChansInv'
  BY <1>1, <1>3, WorkerChans DEF ClearCodec, chans, Working, InitLabels, ClearLabels
<1> QED BY <1>3, <1>5, <1>6, <1>7, <1>8, <1>9 DEF LocksInv, Works, NoFault

LEMMA ClearMutexStep ==
  ASSUME LocksInv, NEW p \in Procs, ClearMutex(p)
  PROVE  LocksInv'
<1>1. pc[p] = "clearMutex" /\ pc'[p] = "clearIndex" /\ Goto(p, "clearIndex")
  BY Moves DEF LocksInv, ClearMutex, At, Labels, InitLabels, ClearLabels
<1>2. sess[p] \in 1..MaxSsid
  BY <1>1 DEF LocksInv, TypeOK, RolesInv
<1>m. /\ DOMAIN ssmutex' = DOMAIN ssmutex \ {sess[p]}
      /\ \A t \in DOMAIN ssmutex : t # sess[p] => ssmutex'[t] = ssmutex[t]
  BY DEF ClearMutex, Without
<1>3. Works(p, "clearIndex")
  BY <1>1, Moves, <1>m DEF LocksInv, ClearMutex, At, Works, Untouched, Labels, Working, InitLabels, ClearLabels
<1>4. TablesOK' /\ ChansOK' /\ crash' \in Faults
  BY <1>1, <1>2, TypeParts, BoundsAssumption, <1>m
  DEF LocksInv, ClearMutex, At, TablesOK, ChansOK, chans, Faults, INIT_INDEX
<1>5. TypeOK'
  <2>1. MutexOK'
    BY <1>1, TypeParts, MutexMoves DEF LocksInv, ClearMutex, Working, Labels, InitLabels, ClearLabels
  <2>2. (TablesOK /\ ChansOK /\ MutexOK /\ crash \in Faults => TypeOK)'
    BY TypeParts, PTL
  <2> QED BY <1>4, <2>1, <2>2
<1>6. MapsInv'
  <2>1. Fits(p)
    BY <1>1 DEF LocksInv, MapsInv, Fits, Working, InitLabels, ClearLabels
  <2>2. Fits(p)'
    BY <1>1, <2>1, <1>m DEF ClearMutex, Fits, HasCodec, HasMutex, HasIndex, HasChan, ClearLabels
  <2> QED BY <1>1, <1>3, <2>2, WorkerMaps DEF Working, InitLabels, ClearLabels
<1>7. RolesInv'
  BY <1>1, <1>3, Kinds DEF LocksInv, RolesInv, Works, InitLabels, ClearLabels
<1>8. OwnersInv'
  BY <1>1, <1>3, WorkerOwners DEF Working, InitLabels, ClearLabels
<1>9. ChansInv'
  BY <1>1, <1>3, WorkerChans DEF ClearMutex, chans, Working, InitLabels, ClearLabels
<1> QED BY <1>3, <1>5, <1>6, <1>7, <1>8, <1>9 DEF LocksInv, Works, NoFault

LEMMA ClearIndexStep ==
  ASSUME LocksInv, NEW p \in Procs, ClearIndex(p)
  PROVE  LocksInv'
<1>1. pc[p] = "clearIndex" /\ pc'[p] = "clearClose" /\ Goto(p, "clearClose")
  BY Moves DEF LocksInv, ClearIndex, At, Labels, InitLabels, ClearLabels
<1>2. sess[p] \in 1..MaxSsid
  BY <1>1 DEF LocksInv, TypeOK, RolesInv
<1>m. /\ DOMAIN ssindex' = DOMAIN ssindex \ {sess[p]}
      /\ \A t \in DOMAIN ssindex : t # sess[p] => ssindex'[t] = ssindex[t]
  BY DEF ClearIndex, Without
<1>3. Works(p, "clearClose")
  BY <1>1, Moves, <1>m DEF LocksInv, ClearIndex, At, Works, Untouched, Labels, Working, InitLabels, ClearLabels
<1>4. TablesOK' /\ ChansOK' /\ crash' \in Faults
  BY <1>1, <1>2, TypeParts, BoundsAssumption, <1>m
  DEF LocksInv, ClearIndex, At, TablesOK, ChansOK, chans, Faults, INIT_INDEX
<1>5. TypeOK'
  <2>1. MutexOK'
    BY <1>1, TypeParts, MutexMoves DEF LocksInv, ClearIndex, Working, Labels, InitLabels, ClearLabels
  <2>2. (TablesOK /\ ChansOK /\ MutexOK /\ crash \in Faults => TypeOK)'
    BY TypeParts, PTL
  <2> QED BY <1>4, <2>1, <2>2
<1>6. MapsInv'
  <2>1. Fits(p)
    BY <1>1 DEF LocksInv, MapsInv, Fits, Working, InitLabels, ClearLabels
  <2>2. Fits(p)'
    BY <1>1, <2>1, <1>m DEF ClearIndex, Fits, HasCodec, HasMutex, HasIndex, HasChan, ClearLabels
  <2> QED BY <1>1, <1>3, <2>2, WorkerMaps DEF Working, InitLabels, ClearLabels
<1>7. RolesInv'
  BY <1>1, <1>3, Kinds DEF LocksInv, RolesInv, Works, InitLabels, ClearLabels
<1>8. OwnersInv'
  BY <1>1, <1>3, WorkerOwners DEF Working, InitLabels, ClearLabels
<1>9. ChansInv'
  BY <1>1, <1>3, WorkerChans DEF ClearIndex, chans, Working, InitLabels, ClearLabels
<1> QED BY <1>3, <1>5, <1>6, <1>7, <1>8, <1>9 DEF LocksInv, Works, NoFault

\* The new channel has a number of its own.
LEMMA InitChanStep ==
  ASSUME LocksInv, NEW p \in Procs, InitChan(p)
  PROVE  LocksInv'
<1>0. pc[p] = "initChan" /\ AfterInit(p) \in {"idle", "session"} /\ Goto(p, AfterInit(p))
  BY DEF InitChan, At, AfterInit
<1>1. /\ pc'[p] = AfterInit(p)
      /\ \A q \in Procs : q # p => pc'[q] = pc[q]
  BY <1>0, Moves DEF LocksInv, Labels
<1>2. sess[p] \in 1..MaxSsid
  BY <1>0 DEF LocksInv, TypeOK, RolesInv
<1>m. /\ DOMAIN ssWriteCh' = DOMAIN ssWriteCh \cup {sess[p]}
      /\ ssWriteCh'[sess[p]] = made + 1
      /\ \A t \in DOMAIN ssWriteCh : t # sess[p] => ssWriteCh'[t] = ssWriteCh[t]
  BY DEF InitChan, With
<1>3. Works(p, AfterInit(p))
  BY <1>0, <1>1, <1>m DEF InitChan, At, Works, Untouched, Working, InitLabels
<1>4. TablesOK' /\ ChansOK' /\ crash' \in Faults
  <2>1. TablesOK' /\ crash' \in Faults
    BY TypeParts DEF LocksInv, InitChan, TablesOK
  <2>2. made' = made + 1 /\ made' \in 1..MaxChan /\ closed' = closed /\ source' = source
    BY TypeParts, BoundsAssumption DEF LocksInv, InitChan, ChansOK
  <2>3. \A s \in DOMAIN ssWriteCh' : ssWriteCh'[s] \in 1..made'
    BY <1>m, <2>2, TypeParts DEF LocksInv, ChansOK
  <2>4. DOMAIN ssWriteCh' \subseteq 1..MaxSsid /\ closed' \subseteq 1..made'
    BY <1>2, <1>m, <2>2, TypeParts DEF LocksInv, ChansOK
  <2> QED BY <2>1, <2>2, <2>3, <2>4, TypeParts DEF LocksInv, ChansOK
<1>5. TypeOK'
  <2>1. MutexOK'
    BY <1>0, TypeParts, MutexMoves DEF LocksInv, InitChan, Working, Labels, InitLabels, ClearLabels
  <2>2. (TablesOK /\ ChansOK /\ MutexOK /\ crash \in Faults => TypeOK)'
    BY TypeParts, PTL
  <2> QED BY <1>4, <2>1, <2>2
<1>6. Fits(p)
  BY <1>0 DEF LocksInv, MapsInv, Fits, Working, InitLabels
<1>7. MapsInv'
  <2>1. \A s : Changing(s) <=> s = sess[p]
    BY <1>0, ChangingIs DEF LocksInv, Working, InitLabels
  <2>2. ASSUME NEW s \in 1..MaxSsid
        PROVE  /\ s \in DOMAIN ssmutex' <=> s \in codecs'
               /\ s \in DOMAIN ssindex' <=> s \in codecs'
               /\ s \in DOMAIN ssWriteCh' <=> s \in codecs'
    <3>1. CASE s = sess[p]
      BY <1>0, <1>6, <1>m, <3>1 DEF InitChan, Fits, HasCodec, HasMutex, HasIndex
    <3>2. CASE s # sess[p]
      BY <1>3, <2>1, <3>2 DEF LocksInv, MapsInv, Works, Untouched
    <3> QED BY <3>1, <3>2
  <2>3. \A q \in Procs : pc'[q] \notin Working
    BY <1>0, <1>1, OneWorker DEF LocksInv, Working, InitLabels, ClearLabels
  <2> QED BY <2>2, <2>3 DEF MapsInv
<1>8. RolesInv'
  BY <1>0, <1>1, <1>3, Kinds DEF LocksInv, RolesInv, Works, AfterInit, InitLabels, ClearLabels
<1>9. OwnersInv'
  BY <1>0, <1>3, <1>6, WorkerOwners DEF Fits, HasCodec, InitChan
<1>10. ChansInv'
  <2>1. sess[p] \notin DOMAIN ssWriteCh
    BY <1>0, <1>6 DEF Fits, HasChan, ClearLabels
  <2>2. \A q \in Procs : pc[q] # "clearChan" /\ pc'[q] # "clearChan"
    BY <1>0, <1>1, OneWorker DEF LocksInv, Working, InitLabels, ClearLabels
  <2>3. \A s : Dead(s) => Dead(s)'
    BY <1>0, <1>1, <1>3, Kinds DEF Dead, Uses, Works, InitLabels
  <2>4. \A w \in Waiters : LET q == <<"WriteTo", w>> IN
          /\ q # p /\ pc'[q] = pc[q] /\ sess'[q] = sess[q] /\ source'[w] = source[w]
    BY <1>0, <1>1, Kinds DEF LocksInv, RolesInv, InitChan, ClearLabels
  <2>5. \A s, t \in DOMAIN ssWriteCh' : ssWriteCh'[s] = ssWriteCh'[t] => s = t
    BY <1>m, <2>1 DEF LocksInv, TypeOK, ChansInv
  <2>6. \A s \in DOMAIN ssWriteCh' : ssWriteCh'[s] \notin closed'
    BY <1>m, <2>1, <2>2 DEF LocksInv, TypeOK, ChansInv, InitChan
  <2> QED BY <1>m, <2>1, <2>2, <2>3, <2>4, <2>5, <2>6 DEF LocksInv, ChansInv, InitChan
<1> QED BY <1>3, <1>5, <1>7, <1>8, <1>9, <1>10 DEF LocksInv, Works, NoFault

\* The session of a clearssid is nobody's any more.
LEMMA ClearedIsDead ==
  ASSUME LocksInv, NEW p \in Procs, pc[p] \in ClearLabels
  PROVE  Dead(sess[p])
<1>1. CASE p \in ReadFroms
  BY <1>1, Kinds DEF LocksInv, OwnersInv, Owns, Dead, Uses, ClearLabels, InitLabels, InSession, GrowLabels
<1>2. CASE p \in WriteTos
  BY <1>2, Kinds DEF LocksInv, ChansInv
<1>3. CASE p \in ReadLoops
  BY <1>3 DEF LocksInv, RolesInv, ClearLabels, InitLabels
<1> QED BY <1>1, <1>2, <1>3, Kinds

\* It closes the channel of its session, which it finds, and which is open.
LEMMA ClearCloseStep ==
  ASSUME LocksInv, NEW p \in Procs, ClearClose(p)
  PROVE  LocksInv'
<1>0. pc[p] = "clearClose" /\ pc[p] \in ClearLabels /\ pc[p] \in Working
  BY DEF ClearClose, At, Working, ClearLabels
<1>1. sess[p] \in DOMAIN ssWriteCh /\ ssWriteCh[sess[p]] \notin closed
  <2>1. sess[p] \in DOMAIN ssWriteCh
    BY <1>0 DEF LocksInv, MapsInv, HasChan
  <2>2. \A q \in Procs : pc[q] # "clearChan"
    BY <1>0, OneWorker DEF LocksInv, Working, ClearLabels
  <2> QED BY <2>1, <2>2 DEF LocksInv, ChansInv
<1>2. /\ closed' = closed \cup {ssWriteCh[sess[p]]}
      /\ Goto(p, "clearChan") /\ crash' = crash
  BY <1>1 DEF ClearClose
<1>3. /\ pc'[p] = "clearChan"
      /\ \A q \in Procs : q # p => pc'[q] = pc[q]
  BY <1>2, Moves DEF LocksInv, Labels, ClearLabels
<1>4. Works(p, "clearChan")
  BY <1>0, <1>2, <1>3 DEF ClearClose, At, Works, Untouched, maps
<1>5. TypeOK'
  <2>1. MutexOK'
    BY <1>0, <1>2, TypeParts, MutexMoves DEF LocksInv, ClearClose, Working, Labels, ClearLabels
  <2>2. TablesOK' /\ ChansOK' /\ crash' \in Faults
    BY <1>1, <1>2, TypeParts DEF LocksInv, ClearClose, TablesOK, ChansOK, maps
  <2>3. (TablesOK /\ ChansOK /\ MutexOK /\ crash \in Faults => TypeOK)'
    BY TypeParts, PTL
  <2> QED BY <2>1, <2>2, <2>3
<1>6. MapsInv'
  <2>1. Fits(p)
    BY <1>0 DEF LocksInv, MapsInv, Fits
  <2>2. Fits(p)'
    BY <1>0, <1>3, <2>1 DEF ClearClose, maps, Fits, HasCodec, HasMutex, HasIndex, HasChan, ClearLabels
  <2> QED BY <1>2, <1>4, <2>2, WorkerMaps DEF Working, ClearLabels
<1>7. RolesInv'
  BY <1>0, <1>3, <1>4, Kinds DEF LocksInv, RolesInv, Works, InitLabels, ClearLabels
<1>8. OwnersInv'
  BY <1>2, <1>4, WorkerOwners DEF Working, ClearLabels
<1>9. ChansInv'
  <2>1. Dead(sess[p])
    BY <1>0, ClearedIsDead
  <2>2. \A s : Dead(s) => Dead(s)'
    BY <1>3, <1>4, Kinds DEF Dead, Uses, Works, InitLabels, InSession, GrowLabels
  <2>3. \A q \in Procs : pc[q] # "clearChan" /\ (pc'[q] = "clearChan" <=> q = p)
    BY <1>0, <1>3, OneWorker DEF LocksInv, Working, ClearLabels
  <2>4. \A s \in DOMAIN ssWriteCh : ssWriteCh[s] \in closed' <=> s = sess[p]
    BY <1>1, <1>2, <2>3 DEF LocksInv, ChansInv
  <2>5. \A w \in Waiters : LET q == <<"WriteTo", w>> IN
          /\ q \in Procs
          /\ pc'[q] = "wait" => pc[q] = "wait"
          /\ pc'[q] \in {"clear"} \cup ClearLabels => pc[q] \in {"clear"} \cup ClearLabels
          /\ pc[q] = "wait" /\ source[w] \in closed' => Dead(sess[q])
    <3> SUFFICES ASSUME NEW w \in Waiters, NEW q, q = <<"WriteTo", w>>
                 PROVE  /\ q \in Procs
                        /\ pc'[q] = "wait" => pc[q] = "wait"
                        /\ pc'[q] \in {"clear"} \cup ClearLabels => pc[q] \in {"clear"} \cup ClearLabels
                        /\ pc[q] = "wait" /\ source[w] \in closed' => Dead(sess[q])
      OBVIOUS
    <3>1. q \in Procs
      BY Kinds
    <3>2. /\ pc'[q] = "wait" => pc[q] = "wait"
          /\ pc'[q] \in {"clear"} \cup ClearLabels => pc[q] \in {"clear"} \cup ClearLabels
      BY <1>0, <1>3, <3>1
    <3>3. ASSUME pc[q] = "wait", source[w] \in closed'
          PROVE  Dead(sess[q])
      <4>1. \/ source[w] = NilCh \/ source[w] \in closed
            \/ sess[q] \in DOMAIN ssWriteCh /\ ssWriteCh[sess[q]] = source[w]
        BY <3>3 DEF LocksInv, ChansInv
      <4>2. CASE source[w] \in closed
        BY <3>3, <4>2 DEF LocksInv, ChansInv
      <4>3. CASE sess[q] \in DOMAIN ssWriteCh /\ ssWriteCh[sess[q]] = source[w]
        BY <2>1, <2>4, <3>3, <4>3
      <4>4. source[w] # NilCh
        BY <1>1, <1>2, <3>3 DEF LocksInv, TypeOK, NilCh
      <4> QED BY <4>1, <4>2, <4>3, <4>4
    <3> QED BY <3>1, <3>2, <3>3
  <2>6. ssWriteCh' = ssWriteCh /\ sess' = sess /\ source' = source /\ closed \subseteq closed'
    BY <1>2 DEF ClearClose, maps
  <2> QED BY <2>2, <2>3, <2>4, <2>5, <2>6 DEF LocksInv, ChansInv
<1> QED BY <1>4, <1>5, <1>6, <1>7, <1>8, <1>9 DEF LocksInv, Works, NoFault

\* The last map forgets the session, and tf.mutex is free again.
LEMMA ClearChanStep ==
  ASSUME LocksInv, NEW p \in Procs, ClearChan(p)
  PROVE  LocksInv'
<1>0. pc[p] = "clearChan" /\ pc[p] \in Working /\ Goto(p, "idle")
  BY DEF ClearChan, At, Working, ClearLabels
<1>1. /\ pc'[p] = "idle"
      /\ \A q \in Procs : q # p => pc'[q] = pc[q]
  BY <1>0, Moves DEF LocksInv, Labels
<1>m. /\ DOMAIN ssWriteCh' = DOMAIN ssWriteCh \ {sess[p]}
      /\ \A t \in DOMAIN ssWriteCh : t # sess[p] => ssWriteCh'[t] = ssWriteCh[t]
  BY DEF ClearChan, Without
<1>2. Works(p, "idle")
  BY <1>0, <1>1, <1>m DEF ClearChan, At, Works, Untouched, chans
<1>3. TypeOK'
  <2>1. MutexOK'
    BY <1>0, TypeParts, MutexMoves DEF LocksInv, ClearChan, Working, Labels, InitLabels, ClearLabels
  <2>2. TablesOK' /\ ChansOK' /\ crash' \in Faults
    BY <1>m, TypeParts DEF LocksInv, ClearChan, TablesOK, ChansOK, chans
  <2>3. (TablesOK /\ ChansOK /\ MutexOK /\ crash \in Faults => TypeOK)'
    BY TypeParts, PTL
  <2> QED BY <2>1, <2>2, <2>3
<1>4. \A q \in Procs : pc'[q] \notin Working /\ (pc[q] = "clearChan" <=> q = p)
  BY <1>0, <1>1, OneWorker DEF LocksInv, Working, InitLabels, ClearLabels
<1>5. MapsInv'
  <2>1. \A s : Changing(s) <=> s = sess[p]
    BY <1>0, ChangingIs DEF LocksInv
  <2>2. ASSUME NEW s \in 1..MaxSsid
        PROVE  /\ s \in DOMAIN ssmutex' <=> s \in codecs'
               /\ s \in DOMAIN ssindex' <=> s \in codecs'
               /\ s \in DOMAIN ssWriteCh' <=> s \in codecs'
    <3>1. CASE s = sess[p]
      BY <1>0, <1>m, <3>1 DEF LocksInv, MapsInv, ClearChan, HasCodec, HasMutex, HasIndex
    <3>2. CASE s # sess[p]
      BY <1>2, <2>1, <3>2 DEF LocksInv, MapsInv, Works, Untouched
    <3> QED BY <3>1, <3>2
  <2> QED BY <1>4, <2>2 DEF MapsInv
<1>6. RolesInv'
  BY <1>0, <1>1, <1>2, Kinds DEF LocksInv, RolesInv, Works, InitLabels, ClearLabels
<1>7. OwnersInv'
  BY <1>0, <1>2, WorkerOwners
<1>8. ChansInv'
  <2>1. \A s : Dead(s) => Dead(s)'
    BY <1>1, <1>2, Kinds DEF Dead, Uses, Works, InitLabels, InSession, GrowLabels
  <2>2. \A w \in Waiters : LET q == <<"WriteTo", w>> IN
          /\ pc'[q] = "wait" => pc[q] = "wait"
          /\ pc'[q] \in {"clear"} \cup ClearLabels => pc[q] \in {"clear"} \cup ClearLabels
    BY <1>1, Kinds DEF ClearLabels
  <2>3. \A s \in DOMAIN ssWriteCh : ssWriteCh[s] \in closed <=> s = sess[p]
    BY <1>4 DEF LocksInv, ChansInv
  <2>4. \A s \in DOMAIN ssWriteCh' : ssWriteCh'[s] \notin closed
    BY <1>m, <2>3
  <2>5. \A q \in Procs : pc'[q] # "clearChan"
    BY <1>4 DEF Working, ClearLabels
  <2>6. \A s, t \in DOMAIN ssWriteCh' : ssWriteCh'[s] = ssWriteCh'[t] => s = t
    BY <1>m DEF LocksInv, ChansInv
  <2>7. sess' = sess /\ source' = source /\ closed' = closed
    BY DEF ClearChan, chans
  <2>8. \A w \in Waiters : LET q == <<"WriteTo", w>> IN
          pc[q] = "wait" => \/ source[w] = NilCh \/ source[w] \in closed
                            \/ sess[q] \in DOMAIN ssWriteCh' /\ ssWriteCh'[sess[q]] = source[w]
    BY <1>m, <2>3 DEF LocksInv, ChansInv
  <2> QED BY <2>1, <2>2, <2>4, <2>5, <2>6, <2>7, <2>8 DEF LocksInv, ChansInv
<1> QED BY <1>2, <1>3, <1>5, <1>6, <1>7, <1>8 DEF LocksInv, Works, NoFault

-----------------------------------------------------------------------------
(* The statements done outside tf.mutex, and those that take it.           *)

\* A goroutine that neither enters nor leaves tf.mutex, nor touches a map.
LEMMA AsideMaps ==
  ASSUME LocksInv, NEW p \in Procs, NEW label \in Labels, Goto(p, label),
         pc[p] \notin Working, label \notin Working,
         \A q \in Procs : q # p => sess'[q] = sess[q],
         codecs' = codecs, DOMAIN ssmutex' = DOMAIN ssmutex,
         DOMAIN ssindex' = DOMAIN ssindex, DOMAIN ssWriteCh' = DOMAIN ssWriteCh
  PROVE  MapsInv'
<1>1. \A s : Changing(s)' <=> Changing(s)
  BY ChangingMoves DEF LocksInv
<1>2. \A q \in Procs : pc'[q] \in Working => q # p /\ pc'[q] = pc[q] /\ sess'[q] = sess[q]
  BY Moves DEF LocksInv
<1> QED BY <1>1, <1>2 DEF LocksInv, MapsInv

LEMMA AsideOwners ==
  ASSUME LocksInv, NEW p \in Procs, NEW label \in Labels, Goto(p, label),
         pc[p] \notin Working, label \notin Working \cup InSession,
         ssid' = ssid, codecs' = codecs, ssmutex' = ssmutex, ssindex' = ssindex,
         \A q \in Procs : q # p => sess'[q] = sess[q],
         p \in ReadFroms => label = "init" \/ (Owns(p) /\ sess'[p] = sess[p])
  PROVE  OwnersInv'
<1>1. /\ pc'[p] = label
      /\ \A q \in Procs : q # p => pc'[q] = pc[q]
  BY Moves DEF LocksInv
<1>2. \A s : Changing(s)' <=> Changing(s)
  BY ChangingMoves DEF LocksInv, InSession
<1>3. \A q \in ReadFroms : Owns(q)' => Owns(q) /\ sess'[q] = sess[q]
  BY <1>1, Kinds DEF Owns
<1>4. \A q \in ReadFroms : pc'[q] \in InSession => pc'[q] = pc[q] /\ sess'[q] = sess[q]
  BY <1>1, Kinds
<1>5. /\ \A q \in ReadFroms : Owns(q)' => sess'[q] <= ssid'
      /\ \A q, r \in ReadFroms : Owns(q)' /\ Owns(r)' /\ sess'[q] = sess'[r] => q = r
  BY <1>3 DEF LocksInv, OwnersInv
<1>6. ASSUME NEW q \in ReadFroms, pc'[q] \in InSession
      PROVE  sess'[q] \in codecs' /\ ~Changing(sess[q])'
  BY <1>2, <1>4, <1>6 DEF LocksInv, OwnersInv
<1>7. \A q \in ReadFroms : pc'[q] \in GrowLabels => /\ sess'[q] \in DOMAIN ssmutex'
                                                    /\ ssmutex'[sess'[q]] = q
  BY <1>4 DEF LocksInv, OwnersInv, InSession, GrowLabels
<1>8. \A q \in ReadFroms : pc'[q] = "grow" => ssindex'[sess'[q]] < MaxIndex
  BY <1>4 DEF LocksInv, OwnersInv, InSession, GrowLabels
<1> QED BY <1>5, <1>6, <1>7, <1>8 DEF OwnersInv

LEMMA AsideChans ==
  ASSUME LocksInv, NEW p \in Procs, NEW label \in Labels, Goto(p, label),
         UNCHANGED <<ssWriteCh, closed, source>>,
         \A q \in Procs : q # p => sess'[q] = sess[q],
         pc[p] # "clearChan", label \notin {"wait", "clearChan"},
         \A s \in 0..MaxSsid : Dead(s) => Dead(s)',
         p \in WriteTos /\ label \in {"clear"} \cup ClearLabels => sess'[p] = sess[p] /\ Dead(sess[p])
  PROVE  ChansInv'
<1>1. /\ pc'[p] = label
      /\ \A q \in Procs : q # p => pc'[q] = pc[q]
  BY Moves DEF LocksInv
<1>2. \A s : (\E q \in Procs : pc[q] = "clearChan" /\ sess[q] = s) <=>
             (\E q \in Procs : pc'[q] = "clearChan" /\ sess'[q] = s)
  BY <1>1
<1>3. \A w \in Waiters : LET q == <<"WriteTo", w>> IN
        /\ sess[q] \in 0..MaxSsid
        /\ pc'[q] = "wait" => pc[q] = "wait" /\ sess'[q] = sess[q]
        /\ pc'[q] \in {"clear"} \cup ClearLabels => sess'[q] = sess[q] /\ Dead(sess[q])
  <2> SUFFICES ASSUME NEW w \in Waiters, NEW q, q = <<"WriteTo", w>>
               PROVE  /\ pc'[q] = "wait" => pc[q] = "wait" /\ sess'[q] = sess[q]
                      /\ pc'[q] \in {"clear"} \cup ClearLabels => sess'[q] = sess[q] /\ Dead(sess[q])
    BY Kinds DEF LocksInv, TypeOK
  <2>1. CASE q = p
    BY <1>1, <2>1, Kinds
  <2>2. CASE q # p
    <3>1. q \in Procs /\ pc'[q] = pc[q] /\ sess'[q] = sess[q]
      BY <1>1, <2>2, Kinds
    <3> QED BY <3>1 DEF LocksInv, ChansInv
  <2> QED BY <2>1, <2>2
<1> QED BY <1>2, <1>3 DEF LocksInv, ChansInv

LEMMA StartReadFromStep ==
  ASSUME LocksInv, NEW c \in Clients, StartReadFrom(c)
  PROVE  LocksInv'
<1> DEFINE p == <<"ReadFrom", c>>
<1>0. p \in Procs /\ p \in ReadFroms /\ pc[p] = "idle" /\ Goto(p, "init") /\ crash = "none"
  BY Kinds DEF StartReadFrom, At
<1>1. /\ pc'[p] = "init"
      /\ \A q \in Procs : q # p => pc'[q] = pc[q] /\ sess'[q] = sess[q]
  BY <1>0, Moves DEF LocksInv, StartReadFrom, Labels, TypeOK
<1>2. /\ ssid' = ssid /\ holder' = holder /\ codecs' = codecs /\ ssmutex' = ssmutex
      /\ ssindex' = ssindex /\ ssWriteCh' = ssWriteCh /\ made' = made /\ closed' = closed
      /\ crash' = crash
  BY DEF StartReadFrom, maps, chans
<1> HIDE DEF p
<1>3. TypeOK'
  <2>0. sess' \in [Procs -> 0..MaxSsid]
    <3>1. sess \in [Procs -> 0..MaxSsid]
      BY DEF LocksInv, TypeOK
    <3>2. sess' = [sess EXCEPT ![<<"ReadFrom", c>>] = 0]
      BY DEF StartReadFrom
    <3>3. 0 \in 0..MaxSsid
      BY WireAssumption, BoundsAssumption
    <3> QED BY <3>1, <3>2, <3>3
  <2>1. TablesOK' /\ crash' \in Faults
    BY <1>2, <2>0, TypeParts DEF LocksInv, TablesOK
  <2>2. ChansOK'
    BY <1>0, <1>2, TypeParts, BoundsAssumption DEF LocksInv, StartReadFrom, ChansOK, NilCh
  <2>3. MutexOK'
    BY <1>0, <1>2, TypeParts, MutexMoves DEF LocksInv, Working, Labels, InitLabels, ClearLabels
  <2>4. (TablesOK /\ ChansOK /\ MutexOK /\ crash \in Faults => TypeOK)'
    BY TypeParts, PTL
  <2> QED BY <2>1, <2>2, <2>3, <2>4
<1>4. MapsInv'
  BY <1>0, <1>1, <1>2, AsideMaps DEF Working, Labels, InitLabels, ClearLabels
<1>5. RolesInv'
  BY <1>0, <1>1, Kinds DEF LocksInv, RolesInv, TypeOK, StartReadFrom, p, InitLabels, ClearLabels
<1>6. OwnersInv'
  <2>1. p \in ReadFroms => "init" = "init" \/ (Owns(p) /\ sess'[p] = sess[p])
    OBVIOUS
  <2>2. "idle" \notin Working /\ "init" \in Labels /\ "init" \notin Working \cup InSession
    BY DEF Labels, Working, InitLabels, ClearLabels, InSession, GrowLabels
  <2> QED BY <1>0, <1>1, <1>2, <2>1, <2>2, AsideOwners
<1>7. ChansInv'
  <2>1. \A s_1 : Dead(s_1) => Dead(s_1)'
    BY <1>0, <1>1, <1>2, Kinds DEF Dead, Uses, InSession, GrowLabels, InitLabels, StartReadFrom, p
  <2>2. source' = source
    BY DEF StartReadFrom
  <2>3. p \in WriteTos /\ "init" \in {"clear"} \cup ClearLabels => sess'[p] = sess[p] /\ Dead(sess[p])
    BY <1>0, Kinds DEF LocksInv, ChansInv, StartReadFrom, ClearLabels, p
  <2> QED BY <1>0, <1>1, <1>2, <2>1, <2>2, <2>3, AsideChans DEF Labels, ClearLabels
<1> QED BY <1>0, <1>2, <1>3, <1>4, <1>5, <1>6, <1>7 DEF LocksInv, NoFault

LEMMA StartReadLoopStep ==
  ASSUME LocksInv, NEW l \in Links, NEW s \in WireSsids, StartReadLoop(l, s)
  PROVE  LocksInv'
<1> DEFINE p == <<"readLoop", l>>
<1>0. p \in Procs /\ p \in ReadLoops /\ pc[p] = "idle" /\ Goto(p, "init") /\ crash = "none"
  BY Kinds DEF StartReadLoop, At
<1>1. /\ pc'[p] = "init"
      /\ \A q \in Procs : q # p => pc'[q] = pc[q] /\ sess'[q] = sess[q]
  BY <1>0, Moves DEF LocksInv, StartReadLoop, Labels, TypeOK
<1>2. /\ ssid' = ssid /\ holder' = holder /\ codecs' = codecs /\ ssmutex' = ssmutex
      /\ ssindex' = ssindex /\ ssWriteCh' = ssWriteCh /\ made' = made /\ closed' = closed
      /\ crash' = crash
  BY DEF StartReadLoop, maps, chans
<1> HIDE DEF p
<1>3. TypeOK'
  <2>0. sess' \in [Procs -> 0..MaxSsid]
    <3>1. sess \in [Procs -> 0..MaxSsid]
      BY DEF LocksInv, TypeOK
    <3>2. sess' = [sess EXCEPT ![<<"readLoop", l>>] = s]
      BY DEF StartReadLoop
    <3>3. s \in 0..MaxSsid
      BY WireAssumption, BoundsAssumption
    <3> QED BY <3>1, <3>2, <3>3
  <2>1. TablesOK' /\ crash' \in Faults
    BY <1>2, <2>0, TypeParts DEF LocksInv, TablesOK
  <2>2. ChansOK'
    BY <1>0, <1>2, TypeParts, BoundsAssumption DEF LocksInv, StartReadLoop, ChansOK, NilCh
  <2>3. MutexOK'
    BY <1>0, <1>2, TypeParts, MutexMoves DEF LocksInv, Working, Labels, InitLabels, ClearLabels
  <2>4. (TablesOK /\ ChansOK /\ MutexOK /\ crash \in Faults => TypeOK)'
    BY TypeParts, PTL
  <2> QED BY <2>1, <2>2, <2>3, <2>4
<1>4. MapsInv'
  BY <1>0, <1>1, <1>2, AsideMaps DEF Working, Labels, InitLabels, ClearLabels
<1>5. RolesInv'
  BY <1>0, <1>1, Kinds DEF LocksInv, RolesInv, TypeOK, StartReadLoop, p, InitLabels, ClearLabels
<1>6. OwnersInv'
  <2>1. p \in ReadFroms => "init" = "init" \/ (Owns(p) /\ sess'[p] = sess[p])
    OBVIOUS
  <2>2. "idle" \notin Working /\ "init" \in Labels /\ "init" \notin Working \cup InSession
    BY DEF Labels, Working, InitLabels, ClearLabels, InSession, GrowLabels
  <2> QED BY <1>0, <1>1, <1>2, <2>1, <2>2, AsideOwners
<1>7. ChansInv'
  <2>1. \A s_1 : Dead(s_1) => Dead(s_1)'
    BY <1>0, <1>1, <1>2, Kinds DEF Dead, Uses, InSession, GrowLabels, InitLabels, StartReadLoop, p
  <2>2. source' = source
    BY DEF StartReadLoop
  <2>3. p \in WriteTos /\ "init" \in {"clear"} \cup ClearLabels => sess'[p] = sess[p] /\ Dead(sess[p])
    BY <1>0, Kinds DEF LocksInv, ChansInv, StartReadLoop, ClearLabels, p
  <2> QED BY <1>0, <1>1, <1>2, <2>1, <2>2, <2>3, AsideChans DEF Labels, ClearLabels
<1> QED BY <1>0, <1>2, <1>3, <1>4, <1>5, <1>6, <1>7 DEF LocksInv, NoFault

LEMMA StartWriteToStep ==
  ASSUME LocksInv, NEW w \in Waiters, NEW s \in 1..MaxSsid, StartWriteTo(w, s)
  PROVE  LocksInv'
<1> DEFINE p == <<"WriteTo", w>>
<1>0. p \in Procs /\ p \in WriteTos /\ pc[p] = "idle" /\ Goto(p, "lookup") /\ crash = "none"
  BY Kinds DEF StartWriteTo, At
<1>1. /\ pc'[p] = "lookup"
      /\ \A q \in Procs : q # p => pc'[q] = pc[q] /\ sess'[q] = sess[q]
  BY <1>0, Moves DEF LocksInv, StartWriteTo, Labels, TypeOK
<1>2. /\ ssid' = ssid /\ holder' = holder /\ codecs' = codecs /\ ssmutex' = ssmutex
      /\ ssindex' = ssindex /\ ssWriteCh' = ssWriteCh /\ made' = made /\ closed' = closed
      /\ crash' = crash
  BY DEF StartWriteTo, maps, chans
<1> HIDE DEF p
<1>3. TypeOK'
  <2>0. sess' \in [Procs -> 0..MaxSsid]
    <3>1. sess \in [Procs -> 0..MaxSsid]
      BY DEF LocksInv, TypeOK
    <3>2. sess' = [sess EXCEPT ![<<"WriteTo", w>>] = s]
      BY DEF StartWriteTo
    <3>3. s \in 0..MaxSsid
      BY WireAssumption, BoundsAssumption
    <3> QED BY <3>1, <3>2, <3>3
  <2>1. TablesOK' /\ crash' \in Faults
    BY <1>2, <2>0, TypeParts DEF LocksInv, TablesOK
  <2>2. ChansOK'
    BY <1>0, <1>2, TypeParts, BoundsAssumption DEF LocksInv, StartWriteTo, ChansOK, NilCh
  <2>3. MutexOK'
    BY <1>0, <1>2, TypeParts, MutexMoves DEF LocksInv, Working, Labels, InitLabels, ClearLabels
  <2>4. (TablesOK /\ ChansOK /\ MutexOK /\ crash \in Faults => TypeOK)'
    BY TypeParts, PTL
  <2> QED BY <2>1, <2>2, <2>3, <2>4
<1>4. MapsInv'
  BY <1>0, <1>1, <1>2, AsideMaps DEF Working, Labels, InitLabels, ClearLabels
<1>5. RolesInv'
  BY <1>0, <1>1, Kinds DEF LocksInv, RolesInv, TypeOK, StartWriteTo, p, InitLabels, ClearLabels
<1>6. OwnersInv'
  <2>1. p \in ReadFroms => "lookup" = "init" \/ (Owns(p) /\ sess'[p] = sess[p])
    BY <1>0, Kinds DEF Owns, StartWriteTo
  <2>2. "idle" \notin Working /\ "lookup" \in Labels /\ "lookup" \notin Working \cup InSession
    BY DEF Labels, Working, InitLabels, ClearLabels, InSession, GrowLabels
  <2> QED BY <1>0, <1>1, <1>2, <2>1, <2>2, AsideOwners
<1>7. ChansInv'
  <2>1. \A s_1 : Dead(s_1) => Dead(s_1)'
    BY <1>0, <1>1, <1>2, Kinds DEF Dead, Uses, InSession, GrowLabels, InitLabels, StartWriteTo, p
  <2>2. source' = source
    BY DEF StartWriteTo
  <2>3. p \in WriteTos /\ "lookup" \in {"clear"} \cup ClearLabels => sess'[p] = sess[p] /\ Dead(sess[p])
    BY <1>0, Kinds DEF LocksInv, ChansInv, StartWriteTo, ClearLabels, p
  <2> QED BY <1>0, <1>1, <1>2, <2>1, <2>2, <2>3, AsideChans DEF Labels, ClearLabels
<1> QED BY <1>0, <1>2, <1>3, <1>4, <1>5, <1>6, <1>7 DEF LocksInv, NoFault

LEMMA EndReadFromStep ==
  ASSUME LocksInv, NEW c \in Clients, EndReadFrom(c)
  PROVE  LocksInv'
<1> DEFINE p == <<"ReadFrom", c>>
<1>0. p \in Procs /\ p \in ReadFroms /\ pc[p] = "session" /\ Goto(p, "clear") /\ crash = "none"
  BY Kinds DEF EndReadFrom, At
<1>1. /\ pc'[p] = "clear"
      /\ \A q \in Procs : q # p => pc'[q] = pc[q] /\ sess'[q] = sess[q]
  BY <1>0, Moves DEF LocksInv, EndReadFrom, Labels, TypeOK
<1>2. /\ ssid' = ssid /\ holder' = holder /\ codecs' = codecs /\ ssmutex' = ssmutex
      /\ ssindex' = ssindex /\ ssWriteCh' = ssWriteCh /\ made' = made /\ closed' = closed
      /\ crash' = crash
  BY DEF EndReadFrom, maps, chans
<1> HIDE DEF p
<1>3. TypeOK'
  <2>0. sess' \in [Procs -> 0..MaxSsid]
    BY DEF LocksInv, TypeOK, EndReadFrom
  <2>1. TablesOK' /\ crash' \in Faults
    BY <1>2, <2>0, TypeParts DEF LocksInv, TablesOK
  <2>2. ChansOK'
    BY <1>0, <1>2, TypeParts, BoundsAssumption DEF LocksInv, EndReadFrom, ChansOK, NilCh
  <2>3. MutexOK'
    BY <1>0, <1>2, TypeParts, MutexMoves DEF LocksInv, Working, Labels, InitLabels, ClearLabels
  <2>4. (TablesOK /\ ChansOK /\ MutexOK /\ crash \in Faults => TypeOK)'
    BY TypeParts, PTL
  <2> QED BY <2>1, <2>2, <2>3, <2>4
<1>4. MapsInv'
  BY <1>0, <1>1, <1>2, AsideMaps DEF Working, Labels, InitLabels, ClearLabels
<1>5. RolesInv'
  BY <1>0, <1>1, Kinds DEF LocksInv, RolesInv, TypeOK, EndReadFrom, p, InitLabels, ClearLabels
<1>6. OwnersInv'
  <2>1. p \in ReadFroms => "clear" = "init" \/ (Owns(p) /\ sess'[p] = sess[p])
    BY <1>0, Kinds DEF Owns, EndReadFrom
  <2>2. "session" \notin Working /\ "clear" \in Labels /\ "clear" \notin Working \cup InSession
    BY DEF Labels, Working, InitLabels, ClearLabels, InSession, GrowLabels
  <2> QED BY <1>0, <1>1, <1>2, <2>1, <2>2, AsideOwners
<1>7. ChansInv'
  <2>1. \A s_1 : Dead(s_1) => Dead(s_1)'
    BY <1>0, <1>1, <1>2, Kinds DEF Dead, Uses, InSession, GrowLabels, InitLabels, EndReadFrom, p
  <2>2. source' = source
    BY DEF EndReadFrom
  <2>3. p \in WriteTos /\ "clear" \in {"clear"} \cup ClearLabels => sess'[p] = sess[p] /\ Dead(sess[p])
    BY <1>0, Kinds DEF LocksInv, ChansInv, EndReadFrom, ClearLabels, p
  <2> QED BY <1>0, <1>1, <1>2, <2>1, <2>2, <2>3, AsideChans DEF Labels, ClearLabels
<1> QED BY <1>0, <1>2, <1>3, <1>4, <1>5, <1>6, <1>7 DEF LocksInv, NoFault

\* Only the channel of a session that is gone is closed.
LEMMA WakeStep ==
  ASSUME LocksInv, NEW w \in Waiters, Wake(w)
  PROVE  LocksInv'
<1> DEFINE p == <<"WriteTo", w>>
<1>0. p \in Procs /\ p \in WriteTos /\ pc[p] = "wait" /\ Goto(p, "clear") /\ crash = "none"
  BY Kinds DEF Wake, At
<1>1. /\ pc'[p] = "clear"
      /\ \A q \in Procs : q # p => pc'[q] = pc[q] /\ sess'[q] = sess[q]
  BY <1>0, Moves DEF LocksInv, Wake, Labels, TypeOK
<1>2. /\ ssid' = ssid /\ holder' = holder /\ codecs' = codecs /\ ssmutex' = ssmutex
      /\ ssindex' = ssindex /\ ssWriteCh' = ssWriteCh /\ made' = made /\ closed' = closed
      /\ crash' = crash
  BY DEF Wake, maps, chans
<1> HIDE DEF p
<1>3. TypeOK'
  <2>0. sess' \in [Procs -> 0..MaxSsid]
    BY DEF LocksInv, TypeOK, Wake
  <2>1. TablesOK' /\ crash' \in Faults
    BY <1>2, <2>0, TypeParts DEF LocksInv, TablesOK
  <2>2. ChansOK'
    BY <1>0, <1>2, TypeParts, BoundsAssumption DEF LocksInv, Wake, ChansOK, NilCh
  <2>3. MutexOK'
    BY <1>0, <1>2, TypeParts, MutexMoves DEF LocksInv, Working, Labels, InitLabels, ClearLabels
  <2>4. (TablesOK /\ ChansOK /\ MutexOK /\ crash \in Faults => TypeOK)'
    BY TypeParts, PTL
  <2> QED BY <2>1, <2>2, <2>3, <2>4
<1>4. MapsInv'
  BY <1>0, <1>1, <1>2, AsideMaps DEF Working, Labels, InitLabels, ClearLabels
<1>5. RolesInv'
  BY <1>0, <1>1, Kinds DEF LocksInv, RolesInv, TypeOK, Wake, p, InitLabels, ClearLabels
<1>6. OwnersInv'
  <2>1. p \in ReadFroms => "clear" = "init" \/ (Owns(p) /\ sess'[p] = sess[p])
    BY <1>0, Kinds DEF Owns, Wake
  <2>2. "wait" \notin Working /\ "clear" \in Labels /\ "clear" \notin Working \cup InSession
    BY DEF Labels, Working, InitLabels, ClearLabels, InSession, GrowLabels
  <2> QED BY <1>0, <1>1, <1>2, <2>1, <2>2, AsideOwners
<1>7. ChansInv'
  <2>1. \A s_1 : Dead(s_1) => Dead(s_1)'
    BY <1>0, <1>1, <1>2, Kinds DEF Dead, Uses, InSession, GrowLabels, InitLabels, Wake, p
  <2>2. source' = source
    BY DEF Wake
  <2>3. p \in WriteTos /\ "clear" \in {"clear"} \cup ClearLabels => sess'[p] = sess[p] /\ Dead(sess[p])
    BY <1>0, Kinds DEF LocksInv, ChansInv, Wake, ClearLabels, p
  <2> QED BY <1>0, <1>1, <1>2, <2>1, <2>2, <2>3, AsideChans DEF Labels, ClearLabels
<1> QED BY <1>0, <1>2, <1>3, <1>4, <1>5, <1>6, <1>7 DEF LocksInv, NoFault

\* A channel found half-way through clearssid is that of a session that is gone.
LEMMA LookupStep ==
  ASSUME LocksInv, NEW w \in Waiters, Lookup(w)
  PROVE  LocksInv'
<1> DEFINE p == <<"WriteTo", w>>
<1>0. p \in Procs /\ p \in WriteTos /\ pc[p] = "lookup" /\ Goto(p, "wait") /\ crash = "none"
  BY Kinds DEF Lookup, At
<1>1. /\ pc'[p] = "wait"
      /\ \A q \in Procs : q # p => pc'[q] = pc[q] /\ sess'[q] = sess[q]
  BY <1>0, Moves DEF LocksInv, Lookup, Labels, TypeOK
<1>2. /\ ssid' = ssid /\ holder' = holder /\ codecs' = codecs /\ ssmutex' = ssmutex
      /\ ssindex' = ssindex /\ ssWriteCh' = ssWriteCh /\ made' = made /\ closed' = closed
      /\ crash' = crash
  BY DEF Lookup, maps, chans
<1> HIDE DEF p
<1>3. TypeOK'
  <2>0. sess' \in [Procs -> 0..MaxSsid]
    BY DEF LocksInv, TypeOK, Lookup
  <2>1. TablesOK' /\ crash' \in Faults
    BY <1>2, <2>0, TypeParts DEF LocksInv, TablesOK
  <2>2. ChansOK'
    BY <1>0, <1>2, TypeParts, BoundsAssumption DEF LocksInv, Lookup, ChansOK, NilCh
  <2>3. MutexOK'
    BY <1>0, <1>2, TypeParts, MutexMoves DEF LocksInv, Working, Labels, InitLabels, ClearLabels
  <2>4. (TablesOK /\ ChansOK /\ MutexOK /\ crash \in Faults => TypeOK)'
    BY TypeParts, PTL
  <2> QED BY <2>1, <2>2, <2>3, <2>4
<1>4. MapsInv'
  BY <1>0, <1>1, <1>2, AsideMaps DEF Working, Labels, InitLabels, ClearLabels
<1>5. RolesInv'
  BY <1>0, <1>1, Kinds DEF LocksInv, RolesInv, TypeOK, Lookup, p, InitLabels, ClearLabels
<1>6. OwnersInv'
  <2>1. p \in ReadFroms => "wait" = "init" \/ (Owns(p) /\ sess'[p] = sess[p])
    BY <1>0, Kinds DEF Owns, Lookup
  <2>2. "lookup" \notin Working /\ "wait" \in Labels /\ "wait" \notin Working \cup InSession
    BY DEF Labels, Working, InitLabels, ClearLabels, InSession, GrowLabels
  <2> QED BY <1>0, <1>1, <1>2, <2>1, <2>2, AsideOwners
<1>7. ChansInv'
  <2>1. /\ ssWriteCh' = ssWriteCh /\ closed' = closed /\ sess' = sess
        /\ \A v \in Waiters : v # w => source'[v] = source[v]
        /\ source'[w] = IF sess[p] \in DOMAIN ssWriteCh THEN ssWriteCh[sess[p]] ELSE NilCh
    BY DEF Lookup, maps, chans, p, LocksInv, TypeOK
  <2>2. \A s : Dead(s) => Dead(s)'
    BY <1>0, <1>1, <1>2, <2>1, Kinds DEF Dead, Uses, InSession, GrowLabels, InitLabels
  <2>3. \A s : (\E q \in Procs : pc[q] = "clearChan" /\ sess[q] = s) <=>
               (\E q \in Procs : pc'[q] = "clearChan" /\ sess'[q] = s)
    BY <1>0, <1>1, <2>1
  <2>4. source'[w] \in closed => Dead(sess[p])
    <3> SUFFICES ASSUME source'[w] \in closed
                 PROVE  Dead(sess[p])
      OBVIOUS
    <3>1. NilCh \notin closed
      BY DEF LocksInv, TypeOK, NilCh
    <3>2. sess[p] \in DOMAIN ssWriteCh /\ ssWriteCh[sess[p]] \in closed
      BY <2>1, <3>1
    <3>3. PICK q \in Procs : pc[q] = "clearChan" /\ sess[q] = sess[p]
      BY <3>2 DEF LocksInv, ChansInv
    <3> QED BY <3>3, ClearedIsDead DEF ClearLabels
  <2>5. \A v \in Waiters : v # w => LET q == <<"WriteTo", v>> IN pc'[q] = pc[q]
    BY <1>1, Kinds DEF p
  <2>6. \A s, t \in DOMAIN ssWriteCh' : ssWriteCh'[s] = ssWriteCh'[t] => s = t
    BY <2>1 DEF LocksInv, ChansInv
  <2>7. \A s \in DOMAIN ssWriteCh' : ssWriteCh'[s] \in closed' <=>
          \E q \in Procs : pc'[q] = "clearChan" /\ sess'[q] = s
    BY <2>1, <2>3 DEF LocksInv, ChansInv
  <2>8. ASSUME NEW v \in Waiters, NEW q, q = <<"WriteTo", v>>
        PROVE  /\ pc'[q] = "wait" =>
                    \/ source'[v] = NilCh \/ source'[v] \in closed'
                    \/ sess'[q] \in DOMAIN ssWriteCh' /\ ssWriteCh'[sess'[q]] = source'[v]
               /\ pc'[q] = "wait" /\ source'[v] \in closed' => Dead(sess[q])'
               /\ pc'[q] \in {"clear"} \cup ClearLabels => Dead(sess[q])'
    <3>1. CASE v = w
      BY <1>1, <2>1, <2>2, <2>4, <2>8, <3>1 DEF p, ClearLabels
    <3>2. CASE v # w
      <4>1. pc'[q] = pc[q] /\ sess'[q] = sess[q] /\ source'[v] = source[v]
        BY <2>1, <2>5, <2>8, <3>2
      <4> QED BY <2>1, <2>2, <2>8, <4>1 DEF LocksInv, ChansInv
    <3> QED BY <3>1, <3>2
  <2> QED BY <2>6, <2>7, <2>8 DEF ChansInv
<1> QED BY <1>0, <1>2, <1>3, <1>4, <1>5, <1>6, <1>7 DEF LocksInv, NoFault

\* A goroutine that takes tf.mutex finds its session in every map, or in none.
LEMMA EnterMaps ==
  ASSUME LocksInv, NEW p \in Procs, NEW label \in {"initCodec", "clearCodec"}, Goto(p, label),
         holder = NoProc, maps' = maps,
         \A q \in Procs : q # p => sess'[q] = sess[q],
         sess'[p] \in 1..MaxSsid, sess'[p] \in codecs <=> label = "clearCodec"
  PROVE  MapsInv'
<1>1. /\ pc'[p] = label
      /\ \A q \in Procs : q # p => pc'[q] = pc[q]
  BY Moves DEF LocksInv, Labels, InitLabels, ClearLabels
<1>2. /\ \A s : ~Changing(s)
      /\ \A q \in Procs : pc[q] \notin Working
  BY ChangingIs DEF LocksInv, TypeOK, Working
<1>3. \A q \in Procs : pc'[q] \in Working => q = p
  BY <1>1, <1>2
<1>4. /\ codecs' = codecs /\ ssmutex' = ssmutex
      /\ ssindex' = ssindex /\ ssWriteCh' = ssWriteCh
  BY DEF maps
<1>5. \A s \in 1..MaxSsid : /\ s \in DOMAIN ssmutex' <=> s \in codecs'
                            /\ s \in DOMAIN ssindex' <=> s \in codecs'
                            /\ s \in DOMAIN ssWriteCh' <=> s \in codecs'
  BY <1>2, <1>4 DEF LocksInv, MapsInv
<1>6. /\ sess'[p] \in codecs' <=> pc'[p] \in HasCodec
      /\ sess'[p] \in DOMAIN ssmutex' <=> pc'[p] \in HasMutex
      /\ sess'[p] \in DOMAIN ssindex' <=> pc'[p] \in HasIndex
      /\ sess'[p] \in DOMAIN ssWriteCh' <=> pc'[p] \in HasChan
  BY <1>1, <1>4, <1>5 DEF HasCodec, HasMutex, HasIndex, HasChan, ClearLabels
<1> QED BY <1>3, <1>5, <1>6 DEF MapsInv

\* A session that is cleared is in nobody's hands any more.
LEMMA ClearLockStep ==
  ASSUME LocksInv, NEW p \in Procs, ClearLock(p)
  PROVE  LocksInv'
<1>0. pc[p] = "clear" /\ holder = NoProc /\ crash = "none"
  BY DEF ClearLock, At
<1>1. /\ ssid' = ssid /\ codecs' = codecs /\ ssmutex' = ssmutex
      /\ ssindex' = ssindex /\ ssWriteCh' = ssWriteCh /\ made' = made /\ closed' = closed
      /\ sess' = sess /\ source' = source /\ crash' = crash
  BY DEF ClearLock, maps, chans
<1>2. PICK label \in {"clearCodec", "idle"} :
        /\ Goto(p, label)
        /\ label = "clearCodec" <=> sess[p] \in codecs
        /\ holder' = IF label = "clearCodec" THEN p ELSE holder
  BY DEF ClearLock
<1>3. /\ pc'[p] = label
      /\ \A q \in Procs : q # p => pc'[q] = pc[q]
  BY <1>2, Moves DEF LocksInv, Labels, ClearLabels
<1>4. TypeOK'
  <2>1. TablesOK' /\ ChansOK' /\ crash' \in Faults
    BY <1>1, TypeParts DEF LocksInv, TablesOK, ChansOK
  <2>2. MutexOK'
    <3>1. CASE label = "clearCodec"
      BY <1>0, <1>2, <3>1, TypeParts, MutexMoves DEF LocksInv, Working, Labels, ClearLabels
    <3>2. CASE label = "idle"
      BY <1>0, <1>2, <3>2, TypeParts, MutexMoves DEF LocksInv, Working, Labels, ClearLabels, InitLabels
    <3> QED BY <1>2, <3>1, <3>2
  <2>3. (TablesOK /\ ChansOK /\ MutexOK /\ crash \in Faults => TypeOK)'
    BY TypeParts, PTL
  <2> QED BY <2>1, <2>2, <2>3
<1>5. sess[p] \in 1..MaxSsid
  BY <1>0 DEF LocksInv, TypeOK, RolesInv
<1>6. MapsInv'
  <2>1. CASE label = "clearCodec"
    BY <1>0, <1>1, <1>2, <1>5, <2>1, EnterMaps DEF maps
  <2>2. CASE label = "idle"
    BY <1>0, <1>1, <1>2, <2>2, AsideMaps DEF Working, Labels, InitLabels, ClearLabels
  <2> QED BY <1>2, <2>1, <2>2
<1>7. RolesInv'
  <2>1. p \notin ReadLoops
    BY <1>0 DEF LocksInv, RolesInv, InitLabels
  <2> QED BY <1>0, <1>1, <1>3, <2>1, Kinds DEF LocksInv, RolesInv, InitLabels, ClearLabels
<1>8. Dead(sess[p])
  <2>1. CASE p \in ReadFroms
    BY <1>0, <2>1, Kinds DEF LocksInv, OwnersInv, Owns, Dead, Uses, InitLabels, InSession, GrowLabels
  <2>2. CASE p \in WriteTos
    BY <1>0, <2>2, Kinds DEF LocksInv, ChansInv
  <2>3. CASE p \in ReadLoops
    BY <1>0, <2>3 DEF LocksInv, RolesInv, InitLabels
  <2> QED BY <2>1, <2>2, <2>3, Kinds
<1>9. OwnersInv'
  <2>1. \A q \in ReadFroms : pc'[q] \in InSession =>
          q # p /\ pc'[q] = pc[q] /\ sess[q] \in codecs /\ sess[q] # sess[p] /\ ~Changing(sess[q])
    BY <1>3, <1>8, Kinds DEF LocksInv, OwnersInv, Dead, Uses, InSession, GrowLabels
  <2>2. \A s : Changing(s)' => Changing(s) \/ s = sess[p]
    BY <1>0, <1>1, <1>2, <1>3 DEF Changing
  <2>3. \A q \in ReadFroms : Owns(q)' => Owns(q)
    BY <1>0, <1>3, Kinds DEF Owns
  <2>4. /\ \A q \in ReadFroms : Owns(q)' => sess'[q] <= ssid'
        /\ \A q, r \in ReadFroms : Owns(q)' /\ Owns(r)' /\ sess'[q] = sess'[r] => q = r
    BY <1>1, <2>3 DEF LocksInv, OwnersInv
  <2>5. ASSUME NEW q \in ReadFroms, pc'[q] \in InSession
        PROVE  sess'[q] \in codecs' /\ ~Changing(sess[q])'
    BY <1>1, <2>1, <2>2, <2>5
  <2>6. /\ \A q \in ReadFroms : pc'[q] \in GrowLabels => /\ sess'[q] \in DOMAIN ssmutex'
                                                        /\ ssmutex'[sess'[q]] = q
        /\ \A q \in ReadFroms : pc'[q] = "grow" => ssindex'[sess'[q]] < MaxIndex
    BY <1>1, <2>1 DEF LocksInv, OwnersInv, InSession, GrowLabels
  <2> QED BY <2>4, <2>5, <2>6 DEF OwnersInv
<1>10. ChansInv'
  <2>1. \A s : Dead(s) => Dead(s)'
    BY <1>0, <1>1, <1>3, Kinds DEF Dead, Uses, InitLabels, InSession, GrowLabels
  <2> QED BY <1>0, <1>1, <1>2, <1>8, <2>1, AsideChans DEF Labels, ClearLabels
<1> QED BY <1>0, <1>1, <1>4, <1>6, <1>7, <1>9, <1>10 DEF LocksInv, NoFault

\* initssid hands out the session asked for, or one above all there were.
LEMMA InitLockStep ==
  ASSUME LocksInv, NEW p \in Procs, InitLock(p)
  PROVE  LocksInv'
<1> DEFINE s0 == IF sess[p] = 0 THEN ssid + 1 ELSE sess[p]
<1>0. pc[p] = "init" /\ holder = NoProc /\ crash = "none" /\ p \notin WriteTos
  BY DEF InitLock, At, LocksInv, RolesInv, ClearLabels
<1>1. /\ codecs' = codecs /\ ssmutex' = ssmutex
      /\ ssindex' = ssindex /\ ssWriteCh' = ssWriteCh /\ made' = made /\ closed' = closed
      /\ source' = source /\ crash' = crash
      /\ ssid' = IF sess[p] = 0 THEN s0 ELSE ssid
      /\ sess' = [sess EXCEPT ![p] = s0]
      /\ s0 <= MaxSsid
  BY DEF InitLock, maps, chans
<1>2. PICK label \in {"initCodec", "session", "idle"} :
        /\ Goto(p, label)
        /\ label = "initCodec" <=> s0 \notin codecs
        /\ label # "initCodec" => label = AfterInit(p)
        /\ holder' = IF label = "initCodec" THEN p ELSE holder
  BY DEF InitLock, AfterInit
<1>3. /\ pc'[p] = label
      /\ \A q \in Procs : q # p => pc'[q] = pc[q]
  BY <1>2, Moves DEF LocksInv, Labels, InitLabels
<1>4. /\ s0 \in 1..MaxSsid /\ ssid \in 1..MaxSsid /\ ssid' \in 1..MaxSsid /\ ssid <= ssid'
      /\ sess'[p] = s0
      /\ \A q \in Procs : q # p => sess'[q] = sess[q]
      /\ p \in ReadFroms => s0 = ssid + 1 /\ ssid' = s0
  BY <1>0, <1>1 DEF LocksInv, TypeOK, RolesInv
<1> HIDE DEF s0
<1>5. TypeOK'
  <2>1. TablesOK' /\ ChansOK' /\ crash' \in Faults
    BY <1>1, <1>4, TypeParts DEF LocksInv, TablesOK, ChansOK
  <2>2. MutexOK'
    <3>1. CASE label = "initCodec"
      BY <1>0, <1>2, <3>1, TypeParts, MutexMoves DEF LocksInv, Working, Labels, InitLabels
    <3>2. CASE label # "initCodec"
      BY <1>0, <1>2, <3>2, TypeParts, MutexMoves DEF LocksInv, Working, Labels, ClearLabels, InitLabels
    <3> QED BY <3>1, <3>2
  <2>3. (TablesOK /\ ChansOK /\ MutexOK /\ crash \in Faults => TypeOK)'
    BY TypeParts, PTL
  <2> QED BY <2>1, <2>2, <2>3
<1>6. MapsInv'
  <2>1. CASE label = "initCodec"
    BY <1>0, <1>1, <1>2, <1>4, <2>1, EnterMaps DEF maps
  <2>2. CASE label # "initCodec"
    BY <1>0, <1>1, <1>2, <1>4, <2>2, AsideMaps DEF Working, Labels, InitLabels, ClearLabels
  <2> QED BY <2>1, <2>2
<1>7. RolesInv'
  BY <1>0, <1>2, <1>3, <1>4, Kinds DEF LocksInv, RolesInv, InitLabels, ClearLabels, AfterInit
<1>8. OwnersInv'
  <2>1. \A s : Changing(s)' <=> label = "initCodec" /\ s = s0
    <3>1. \A q \in Procs : pc[q] \notin Working
      BY <1>0 DEF LocksInv, TypeOK, Working
    <3> QED BY <1>2, <1>3, <1>4, <3>1 DEF Changing, Working, InitLabels, ClearLabels
  <2>2. \A q \in ReadFroms : q # p /\ Owns(q)' => Owns(q) /\ sess'[q] = sess[q] /\ sess[q] <= ssid
    BY <1>3, <1>4, Kinds DEF Owns, LocksInv, OwnersInv
  <2>3. \A q \in ReadFroms : Owns(q)' => sess'[q] <= ssid'
    BY <1>4, <2>2, Kinds DEF LocksInv, TypeOK
  <2>4. \A q, r \in ReadFroms : Owns(q)' /\ Owns(r)' /\ sess'[q] = sess'[r] => q = r
    <3> SUFFICES ASSUME NEW q \in ReadFroms, NEW r \in ReadFroms,
                        Owns(q)', Owns(r)', sess'[q] = sess'[r], q # r
                 PROVE  FALSE
      OBVIOUS
    <3>1. CASE q # p /\ r # p
      BY <2>2, <3>1 DEF LocksInv, OwnersInv
    <3>2. CASE q = p \/ r = p
      BY <1>4, <2>2, <3>2, Kinds DEF LocksInv, TypeOK
    <3> QED BY <3>1, <3>2
  <2>5. ASSUME NEW q \in ReadFroms, pc'[q] \in InSession
        PROVE  sess'[q] \in codecs' /\ ~Changing(sess[q])'
    <3>1. CASE q = p
      BY <1>1, <1>2, <1>3, <1>4, <2>1, <2>5, <3>1 DEF InSession, GrowLabels
    <3>2. CASE q # p
      <4>1. pc'[q] = pc[q] /\ sess'[q] = sess[q] /\ sess[q] \in codecs
        BY <1>3, <1>4, <2>5, <3>2, Kinds DEF LocksInv, OwnersInv
      <4> QED BY <1>1, <1>2, <2>1, <4>1
    <3> QED BY <3>1, <3>2
  <2>6. \A q \in ReadFroms : pc'[q] \in GrowLabels => pc'[q] = pc[q] /\ sess'[q] = sess[q]
    BY <1>2, <1>3, <1>4, Kinds DEF GrowLabels
  <2>7. /\ \A q \in ReadFroms : pc'[q] \in GrowLabels => /\ sess'[q] \in DOMAIN ssmutex'
                                                        /\ ssmutex'[sess'[q]] = q
        /\ \A q \in ReadFroms : pc'[q] = "grow" => ssindex'[sess'[q]] < MaxIndex
    BY <1>1, <2>6 DEF LocksInv, OwnersInv, GrowLabels
  <2> QED BY <2>3, <2>4, <2>5, <2>7 DEF OwnersInv
<1>9. ChansInv'
  <2>1. \A s \in 0..MaxSsid : Dead(s) => s <= ssid'
    BY <1>4 DEF Dead, LocksInv, TypeOK
  <2>2. \A s \in 0..MaxSsid : Dead(s) => Dead(s)'
    <3> SUFFICES ASSUME NEW s \in 0..MaxSsid, Dead(s), NEW q \in ReadFroms, Uses(q)'
                 PROVE  sess'[q] # s
      BY <2>1 DEF Dead
    <3>1. CASE q = p
      BY <1>4, <3>1 DEF Dead
    <3>2. CASE q # p
      BY <1>3, <1>4, <3>2, Kinds DEF Dead, Uses
    <3> QED BY <3>1, <3>2
  <2>3. label \in Labels /\ label \notin {"wait", "clearChan"} /\ p \notin WriteTos
    BY <1>0, <1>2 DEF Labels, InitLabels
  <2>4. UNCHANGED <<ssWriteCh, closed, source>>
    BY <1>1
  <2> QED BY <1>0, <1>2, <1>4, <2>2, <2>3, <2>4, AsideChans
<1> QED BY <1>0, <1>1, <1>5, <1>6, <1>7, <1>8, <1>9 DEF LocksInv, NoFault

\* A panic in another map does not change what the maps say.
LEMMA MapRaceStep ==
  ASSUME LocksInv, MapRace
  PROVE  LocksInv'
<1>1. /\ ssid' = ssid /\ holder' = holder /\ codecs' = codecs /\ ssmutex' = ssmutex
      /\ ssindex' = ssindex /\ ssWriteCh' = ssWriteCh /\ made' = made /\ closed' = closed
      /\ pc' = pc /\ sess' = sess /\ source' = source /\ crash' = "mapRace"
  BY DEF MapRace, maps, chans
<1>2. TypeOK'
  BY <1>1 DEF LocksInv, TypeOK, Faults
<1>3. MapsInv' /\ RolesInv'
  BY <1>1 DEF LocksInv, MapsInv, Changing, RolesInv
<1>4. OwnersInv'
  BY <1>1 DEF LocksInv, OwnersInv, Owns, Changing
<1>5. ChansInv'
  BY <1>1 DEF LocksInv, ChansInv, Dead, Uses
<1> QED BY <1>1, <1>2, <1>3, <1>4, <1>5 DEF LocksInv, NoFault

-----------------------------------------------------------------------------
(* growindex: the session of a ReadFrom is its own, so that it finds the   *)
(* same mutex at both look-ups, and nobody else grows the same index.      *)

\* A ReadFrom in its session finds the session in every map.
LEMMA SessionStands ==
  ASSUME LocksInv, NEW p \in ReadFroms, pc[p] \in InSession
  PROVE  /\ sess[p] \in codecs /\ sess[p] \in DOMAIN ssmutex /\ sess[p] \in DOMAIN ssindex
         /\ sess[p] \in 1..MaxSsid
         /\ \A q \in ReadFroms : pc[q] \in InSession /\ sess[q] = sess[p] => q = p
<1>1. sess[p] \in codecs /\ ~Changing(sess[p])
  BY DEF LocksInv, OwnersInv
<1>2. sess[p] \in 1..MaxSsid
  BY <1>1 DEF LocksInv, TypeOK
<1>3. sess[p] \in DOMAIN ssmutex /\ sess[p] \in DOMAIN ssindex
  BY <1>1, <1>2 DEF LocksInv, MapsInv
<1>4. \A q \in ReadFroms : pc[q] \in InSession => Owns(q)
  BY DEF Owns, InSession, GrowLabels
<1> QED BY <1>1, <1>2, <1>3, <1>4 DEF LocksInv, OwnersInv

\* What the three statements of growindex have in common.
Grows(p, label) ==
  /\ p \in ReadFroms /\ pc[p] \in InSession /\ label \in InSession /\ crash = "none"
  /\ Goto(p, label)
  /\ UNCHANGED <<ssid, holder, codecs, ssWriteCh, made, closed, sess, source, crash>>
  /\ DOMAIN ssmutex' = DOMAIN ssmutex /\ DOMAIN ssindex' = DOMAIN ssindex
  /\ \A s \in DOMAIN ssmutex : s # sess[p] => ssmutex'[s] = ssmutex[s]
  /\ \A s \in DOMAIN ssindex : s # sess[p] => ssindex'[s] = ssindex[s]
  /\ ssmutex'[sess[p]] \in Procs \cup {NoProc}
  /\ ssindex'[sess[p]] \in INIT_INDEX..MaxIndex
  /\ label \in GrowLabels => ssmutex'[sess[p]] = p
  /\ label = "grow" => ssindex'[sess[p]] < MaxIndex

LEMMA GrowingStep ==
  ASSUME LocksInv, NEW p \in Procs, NEW label \in Labels, Grows(p, label)
  PROVE  LocksInv'
<1>0. /\ ssid' = ssid /\ holder' = holder /\ codecs' = codecs /\ ssWriteCh' = ssWriteCh
      /\ made' = made /\ closed' = closed /\ sess' = sess /\ source' = source /\ crash' = crash
      /\ Goto(p, label) /\ p \in ReadFroms /\ crash = "none"
      /\ pc[p] \in InSession /\ label \in InSession
  BY DEF Grows
<1>1. /\ pc'[p] = label
      /\ \A q \in Procs : q # p => pc'[q] = pc[q]
  BY <1>0, Moves DEF LocksInv
<1>2. /\ \A q \in ReadFroms : pc[q] \in InSession /\ sess[q] = sess[p] => q = p
      /\ sess[p] \in codecs /\ sess[p] \in DOMAIN ssmutex /\ sess[p] \in DOMAIN ssindex
  BY <1>0, SessionStands
<1>3. pc[p] \notin Working /\ label \notin Working
  BY <1>0 DEF InSession, GrowLabels, Working, InitLabels, ClearLabels
<1>4. TypeOK'
  <2>1. TablesOK' /\ ChansOK' /\ crash' \in Faults
    BY <1>0, <1>2, TypeParts DEF LocksInv, TablesOK, ChansOK, Grows
  <2>2. MutexOK'
    BY <1>0, <1>3, TypeParts, MutexMoves DEF LocksInv
  <2>3. (TablesOK /\ ChansOK /\ MutexOK /\ crash \in Faults => TypeOK)'
    BY TypeParts, PTL
  <2> QED BY <2>1, <2>2, <2>3
<1>5. MapsInv'
  BY <1>0, <1>3, AsideMaps DEF Grows
<1>6. RolesInv'
  BY <1>0, <1>1, Kinds DEF LocksInv, RolesInv, InSession, GrowLabels
<1>7. OwnersInv'
  <2>1. \A s : Changing(s)' <=> Changing(s)
    BY <1>0, <1>3, ChangingMoves DEF LocksInv
  <2>2. \A q \in ReadFroms : (Owns(q)' => Owns(q)) /\ (pc'[q] \in InSession => pc[q] \in InSession)
    BY <1>0, <1>1, Kinds DEF Owns, InSession, GrowLabels
  <2>3. /\ \A q \in ReadFroms : Owns(q)' => sess'[q] <= ssid'
        /\ \A q, r \in ReadFroms : Owns(q)' /\ Owns(r)' /\ sess'[q] = sess'[r] => q = r
        /\ \A q \in ReadFroms : pc'[q] \in InSession => sess'[q] \in codecs' /\ ~Changing(sess[q])'
    BY <1>0, <2>1, <2>2 DEF LocksInv, OwnersInv
  <2>4. ASSUME NEW q \in ReadFroms, q # p, pc'[q] \in GrowLabels
        PROVE  /\ sess'[q] \in DOMAIN ssmutex' /\ ssmutex'[sess'[q]] = q
               /\ pc'[q] = "grow" => ssindex'[sess'[q]] < MaxIndex
    <3>1. pc'[q] = pc[q] /\ pc[q] \in InSession /\ sess[q] # sess[p]
      BY <1>1, <1>2, <2>4, Kinds DEF InSession
    <3>2. sess[q] \in DOMAIN ssmutex /\ sess[q] \in DOMAIN ssindex
      BY <3>1, SessionStands
    <3> QED BY <1>0, <2>4, <3>1, <3>2 DEF LocksInv, OwnersInv, Grows
  <2>5. pc'[p] \in GrowLabels => /\ sess'[p] \in DOMAIN ssmutex' /\ ssmutex'[sess'[p]] = p
                                 /\ pc'[p] = "grow" => ssindex'[sess'[p]] < MaxIndex
    BY <1>0, <1>1, <1>2 DEF Grows
  <2>6. /\ \A q \in ReadFroms : pc'[q] \in GrowLabels => /\ sess'[q] \in DOMAIN ssmutex'
                                                        /\ ssmutex'[sess'[q]] = q
        /\ \A q \in ReadFroms : pc'[q] = "grow" => ssindex'[sess'[q]] < MaxIndex
    BY <2>4, <2>5 DEF GrowLabels
  <2> QED BY <2>3, <2>6 DEF OwnersInv
<1>8. ChansInv'
  <2>1. \A s : Dead(s) => Dead(s)'
    BY <1>0, <1>1, Kinds DEF Dead, Uses
  <2> QED BY <1>0, <2>1, Kinds, AsideChans DEF InSession, GrowLabels
<1> QED BY <1>0, <1>4, <1>5, <1>6, <1>7, <1>8 DEF LocksInv, NoFault

LEMMA GrowIndexStep ==
  ASSUME LocksInv, NEW p \in Procs, GrowStep(p)
  PROVE  LocksInv'
<1>1. CASE GrowLock(p)
  <2>0. p \in ReadFroms /\ pc[p] = "session" /\ pc[p] \in InSession
    BY <1>1 DEF GrowLock, At, InSession
  <2>1. /\ sess[p] \in DOMAIN ssmutex /\ sess[p] \in DOMAIN ssindex
    BY <2>0, SessionStands
  <2>2. Grows(p, "grow")
    BY <1>1, <2>0, <2>1 DEF GrowLock, At, Grows, InSession, GrowLabels, chans, LocksInv, TypeOK
  <2> QED BY <2>2, GrowingStep DEF Labels, GrowLabels
<1>2. CASE Grow(p)
  <2>0. p \in ReadFroms /\ pc[p] = "grow" /\ pc[p] \in InSession
    BY <1>2, Kinds DEF Grow, At, InSession, GrowLabels, LocksInv, RolesInv, InitLabels, ClearLabels
  <2>1. /\ sess[p] \in DOMAIN ssmutex /\ sess[p] \in DOMAIN ssindex
        /\ ssmutex[sess[p]] = p /\ ssindex[sess[p]] < MaxIndex
        /\ ssindex[sess[p]] \in INIT_INDEX..MaxIndex
    BY <2>0, SessionStands DEF LocksInv, OwnersInv, TypeOK, GrowLabels
  <2>2. /\ DOMAIN ssindex' = DOMAIN ssindex
        /\ ssindex'[sess[p]] = ssindex[sess[p]] + 1
        /\ \A s \in DOMAIN ssindex : s # sess[p] => ssindex'[s] = ssindex[s]
    BY <1>2, <2>1 DEF Grow, With
  <2>3. ssindex'[sess[p]] \in INIT_INDEX..MaxIndex
    BY <2>1, <2>2, BoundsAssumption DEF INIT_INDEX
  <2>4. Grows(p, "growUnlock")
    BY <1>2, <2>0, <2>1, <2>2, <2>3 DEF Grow, At, Grows, InSession, GrowLabels, chans
  <2> QED BY <2>4, GrowingStep DEF Labels, GrowLabels
<1>3. CASE GrowUnlock(p)
  <2>0. p \in ReadFroms /\ pc[p] = "growUnlock" /\ pc[p] \in InSession
    BY <1>3, Kinds DEF GrowUnlock, At, InSession, GrowLabels, LocksInv, RolesInv, InitLabels, ClearLabels
  <2>1. /\ sess[p] \in DOMAIN ssmutex /\ sess[p] \in DOMAIN ssindex
        /\ ssmutex[sess[p]] = p /\ p # NoProc
    BY <2>0, SessionStands, NoProcAssumption DEF LocksInv, OwnersInv, GrowLabels
  <2>2. Grows(p, "session")
    BY <1>3, <2>0, <2>1 DEF GrowUnlock, At, Grows, InSession, GrowLabels, chans, LocksInv, TypeOK
  <2> QED BY <2>2, GrowingStep DEF Labels
<1> QED BY <1>1, <1>2, <1>3 DEF GrowStep

-----------------------------------------------------------------------------
(* The theorems.                                                           *)

LEMMA LocksInit == Init => LocksInv
<1> SUFFICES ASSUME Init
             PROVE  LocksInv
  OBVIOUS
<1>0. /\ ssid = 1 /\ holder = NoProc /\ codecs = {1} /\ DOMAIN ssmutex = {1} /\ ssmutex[1] = NoProc
      /\ DOMAIN ssindex = {1} /\ ssindex[1] = 1 /\ DOMAIN ssWriteCh = {1} /\ ssWriteCh[1] = 1
      /\ made = 1 /\ closed = {} /\ crash = "none"
      /\ pc \in [Procs -> Labels] /\ sess \in [Procs -> 0..MaxSsid]
      /\ source \in [Waiters -> 0..MaxChan]
      /\ \A p \in Procs : pc[p] = "idle" /\ sess[p] = 0
  BY BoundsAssumption DEF Init, INIT_SSID, INIT_INDEX, NilCh, Labels
<1>1. TypeOK
  BY <1>0, BoundsAssumption DEF TypeOK, INIT_INDEX, Faults, InitLabels, ClearLabels
<1>2. MapsInv
  BY <1>0 DEF MapsInv, Working, InitLabels, ClearLabels
<1>3. RolesInv
  BY <1>0, Kinds DEF RolesInv
<1>4. OwnersInv
  BY <1>0, Kinds DEF OwnersInv, Owns, InSession, GrowLabels
<1>5. ChansInv
  BY <1>0, Kinds DEF ChansInv, ClearLabels
<1> QED BY <1>0, <1>1, <1>2, <1>3, <1>4, <1>5 DEF LocksInv, NoFault

LEMMA LocksStep == LocksInv /\ [Next]_vars => LocksInv'
<1> SUFFICES ASSUME LocksInv, [Next]_vars
             PROVE  LocksInv'
  OBVIOUS
<1>1. ASSUME NEW c \in Clients, StartReadFrom(c) \/ EndReadFrom(c)
      PROVE  LocksInv'
  BY <1>1, StartReadFromStep, EndReadFromStep
<1>2. ASSUME NEW l \in Links, NEW s \in WireSsids, StartReadLoop(l, s)
      PROVE  LocksInv'
  BY <1>2, StartReadLoopStep
<1>3. ASSUME NEW w \in Waiters, Lookup(w) \/ Wake(w) \/ \E s \in 1..MaxSsid : StartWriteTo(w, s)
      PROVE  LocksInv'
  BY <1>3, LookupStep, WakeStep, StartWriteToStep
<1>4. ASSUME NEW p \in Procs, InitStep(p)
      PROVE  LocksInv'
  BY <1>4, InitLockStep, InitCodecStep, InitMutexStep, InitIndexStep, InitChanStep DEF InitStep
<1>5. ASSUME NEW p \in Procs, ClearStep(p)
      PROVE  LocksInv'
  BY <1>5, ClearLockStep, ClearCodecStep, ClearMutexStep, ClearIndexStep, ClearCloseStep,
     ClearChanStep DEF ClearStep
<1>6. ASSUME NEW p \in Procs, GrowStep(p)
      PROVE  LocksInv'
  BY <1>6, GrowIndexStep
<1>7. ASSUME UNCHANGED vars
      PROVE  LocksInv'
  <2>1. TypeOK' /\ MapsInv' /\ RolesInv'
    BY <1>7 DEF vars, LocksInv, TypeOK, MapsInv, RolesInv, Changing
  <2>2. OwnersInv' /\ NoFault'
    BY <1>7 DEF vars, LocksInv, OwnersInv, Owns, Changing, NoFault
  <2>3. ChansInv'
    BY <1>7 DEF vars, LocksInv, ChansInv, Dead, Uses
  <2> QED BY <2>1, <2>2, <2>3 DEF LocksInv
<1> QED BY <1>1, <1>2, <1>3, <1>4, <1>5, <1>6, <1>7, MapRaceStep DEF Next

LEMMA LocksHold == Spec => []LocksInv
BY LocksInit, LocksStep, PTL DEF Spec

\* tf.mutex is held exactly inside initssid and clearssid, whatever the
\* interleaving of their statements, early returns included.
THEOREM TablesTypeCorrect == Spec => []TypeOK
<1>1. LocksInv => TypeOK
  BY DEF LocksInv
<1> QED BY <1>1, LocksHold, PTL

\* initssid and clearssid leave the four maps with the same sessions whenever
\* tf.mutex is free, although growindex writes one of them under another lock.
THEOREM MapsAgree == Spec => []TablesAgree
<1>1. ASSUME LocksInv
      PROVE  TablesAgree
  <2>1. holder = NoProc => \A s \in 1..MaxSsid : ~Changing(s)
    BY <1>1, ChangingIs DEF LocksInv
  <2>2. /\ codecs \subseteq 1..MaxSsid /\ DOMAIN ssmutex \subseteq 1..MaxSsid
        /\ DOMAIN ssindex \subseteq 1..MaxSsid /\ DOMAIN ssWriteCh \subseteq 1..MaxSsid
    BY <1>1 DEF LocksInv, TypeOK
  <2>3. ASSUME holder = NoProc, NEW s
        PROVE  /\ s \in DOMAIN ssmutex <=> s \in codecs
               /\ s \in DOMAIN ssindex <=> s \in codecs
               /\ s \in DOMAIN ssWriteCh <=> s \in codecs
    BY <1>1, <2>1, <2>2, <2>3 DEF LocksInv, MapsInv
  <2> QED BY <2>3 DEF TablesAgree
<1> QED BY <1>1, LocksHold, PTL

\* growindex finds its mutex at both of its look-ups, held, and clearssid
\* closes no channel twice: neither panics.
THEOREM TablesDoNotPanic == Spec => []NoFault
<1>1. LocksInv => NoFault
  BY DEF LocksInv
<1> QED BY <1>1, LocksHold, PTL

\* A WriteTo that waits, however stale the channel it looked up, waits for one
\* that is closed or that the clearssid of its session will close.
THEOREM WaitersAreReached == Spec => []WaitersReachable
<1>1. LocksInv => WaitersReachable
  BY DEF LocksInv, ChansInv, WaitersReachable
<1> QED BY <1>1, LocksHold, PTL

-----------------------------------------------------------------------------
(* Refinement: what initssid and clearssid do is done when they add and    *)
(* remove the codec; the other maps follow before anybody may look.        *)

tableBar == [s \in codecs |-> IF s \in DOMAIN ssindex THEN ssindex[s] ELSE INIT_INDEX]

\* Statements that change neither the codecs nor an index that counts.
LEMMA TableStays ==
  ASSUME codecs' = codecs,
         \A s \in codecs : (IF s \in DOMAIN ssindex' THEN ssindex'[s] ELSE INIT_INDEX)
                           = (IF s \in DOMAIN ssindex THEN ssindex[s] ELSE INIT_INDEX)
  PROVE  tableBar' = tableBar
BY DEF tableBar

LEMMA InitCodecRegisters ==
  ASSUME LocksInv, NEW p \in Procs, InitCodec(p)
  PROVE  sess[p] \in 1..MaxSsid /\ Table!Register(sess[p])
<1>1. /\ pc[p] = "initCodec" /\ pc[p] \in Working
      /\ codecs' = codecs \cup {sess[p]} /\ ssindex' = ssindex
  BY DEF InitCodec, At, Working, InitLabels
<1>2. sess[p] \in 1..MaxSsid
  BY <1>1 DEF LocksInv, TypeOK, RolesInv
<1>3. sess[p] \notin codecs /\ sess[p] \notin DOMAIN ssindex
  BY <1>1 DEF LocksInv, MapsInv, HasCodec, HasIndex
<1>4. sess[p] \notin DOMAIN tableBar
  BY <1>3 DEF tableBar
<1>5. tableBar' = [t \in DOMAIN tableBar \cup {sess[p]} |-> IF t = sess[p] THEN INIT_INDEX ELSE tableBar[t]]
  BY <1>1, <1>3 DEF tableBar
<1> QED BY <1>2, <1>4, <1>5 DEF Table!Register, tableBar

LEMMA GrowGrows ==
  ASSUME LocksInv, NEW p \in Procs, Grow(p)
  PROVE  sess[p] \in 1..MaxSsid /\ Table!Grow(sess[p])
<1>1. p \in ReadFroms /\ pc[p] = "grow" /\ pc[p] \in InSession
  BY Kinds DEF Grow, At, InSession, GrowLabels, LocksInv, RolesInv, InitLabels, ClearLabels
<1>2. sess[p] \in 1..MaxSsid /\ sess[p] \in codecs /\ sess[p] \in DOMAIN ssindex
  BY <1>1, SessionStands
<1>3. /\ codecs' = codecs
      /\ DOMAIN ssindex' = DOMAIN ssindex
      /\ ssindex'[sess[p]] = ssindex[sess[p]] + 1
      /\ \A s \in DOMAIN ssindex : s # sess[p] => ssindex'[s] = ssindex[s]
  BY <1>2 DEF Grow, With
<1>4. tableBar' = [tableBar EXCEPT ![sess[p]] = @ + 1]
  BY <1>2, <1>3 DEF tableBar
<1>5. sess[p] \in DOMAIN tableBar
  BY <1>2 DEF tableBar
<1> QED BY <1>2, <1>4, <1>5 DEF Table!Grow, tableBar

LEMMA ClearCodecClears ==
  ASSUME LocksInv, NEW p \in Procs, ClearCodec(p)
  PROVE  sess[p] \in 1..MaxSsid /\ Table!Clear(sess[p])
<1>1. /\ pc[p] = "clearCodec" /\ pc[p] \in Working
      /\ codecs' = codecs \ {sess[p]} /\ ssindex' = ssindex
  BY DEF ClearCodec, At, Working, ClearLabels
<1>2. sess[p] \in 1..MaxSsid
  BY <1>1 DEF LocksInv, TypeOK, RolesInv
<1>3. sess[p] \in DOMAIN tableBar
  BY <1>1 DEF LocksInv, MapsInv, HasCodec, tableBar
<1>4. tableBar' = [t \in DOMAIN tableBar \ {sess[p]} |-> tableBar[t]]
  BY <1>1 DEF tableBar
<1> QED BY <1>2, <1>3, <1>4 DEF Table!Clear, tableBar

\* A session enters ssindex with the index it had without an entry.
LEMMA InitIndexStays ==
  ASSUME LocksInv, NEW p \in Procs, InitIndex(p)
  PROVE  tableBar' = tableBar
<1>1. pc[p] = "initIndex" /\ pc[p] \in Working /\ codecs' = codecs
  BY DEF InitIndex, At, Working, InitLabels
<1>2. sess[p] \notin DOMAIN ssindex
  BY <1>1 DEF LocksInv, MapsInv, HasIndex
<1>3. /\ DOMAIN ssindex' = DOMAIN ssindex \cup {sess[p]}
      /\ ssindex'[sess[p]] = INIT_INDEX
      /\ \A s \in DOMAIN ssindex : s # sess[p] => ssindex'[s] = ssindex[s]
  BY DEF InitIndex, With
<1> QED BY <1>1, <1>2, <1>3, TableStays

\* It leaves ssindex after its codec is gone.
LEMMA ClearIndexStays ==
  ASSUME LocksInv, NEW p \in Procs, ClearIndex(p)
  PROVE  tableBar' = tableBar
<1>1. pc[p] = "clearIndex" /\ pc[p] \in Working /\ codecs' = codecs
  BY DEF ClearIndex, At, Working, ClearLabels
<1>2. sess[p] \notin codecs
  BY <1>1 DEF LocksInv, MapsInv, HasCodec
<1>3. /\ DOMAIN ssindex' = DOMAIN ssindex \ {sess[p]}
      /\ \A s \in DOMAIN ssindex : s # sess[p] => ssindex'[s] = ssindex[s]
  BY DEF ClearIndex, Without
<1> QED BY <1>1, <1>2, <1>3, TableStays

LEMMA TableStep ==
  ASSUME LocksInv, [Next]_vars
  PROVE  [Table!Next]_tableBar
<1> DEFINE Stays == codecs' = codecs /\ ssindex' = ssindex
<1>0. Stays => tableBar' = tableBar
  BY DEF tableBar
<1>1. ASSUME NEW c \in Clients, StartReadFrom(c) \/ EndReadFrom(c)
      PROVE  Stays
  BY <1>1 DEF StartReadFrom, EndReadFrom, maps
<1>2. ASSUME NEW l \in Links, NEW s \in WireSsids, StartReadLoop(l, s)
      PROVE  Stays
  BY <1>2 DEF StartReadLoop, maps
<1>3. ASSUME NEW w \in Waiters, Lookup(w) \/ Wake(w) \/ \E s \in 1..MaxSsid : StartWriteTo(w, s)
      PROVE  Stays
  BY <1>3 DEF Lookup, Wake, StartWriteTo, maps
<1>4. ASSUME NEW p \in Procs, InitStep(p) /\ ~InitCodec(p) /\ ~InitIndex(p)
      PROVE  Stays
  BY <1>4 DEF InitStep, InitLock, InitMutex, InitChan, maps
<1>5. ASSUME NEW p \in Procs, ClearStep(p) /\ ~ClearCodec(p) /\ ~ClearIndex(p)
      PROVE  Stays
  BY <1>5 DEF ClearStep, ClearLock, ClearMutex, ClearClose, ClearChan, maps
<1>6. ASSUME NEW p \in Procs, GrowStep(p) /\ ~Grow(p)
      PROVE  Stays
  BY <1>6 DEF GrowStep, GrowLock, GrowUnlock
<1>7. MapRace \/ UNCHANGED vars => Stays
  BY DEF MapRace, vars, maps
<1> HIDE DEF Stays
<1>8. ASSUME NEW p \in Procs, InitCodec(p) \/ Grow(p) \/ ClearCodec(p)
      PROVE  Table!Next
  <2>1. PICK s \in 1..MaxSsid : Table!Register(s) \/ Table!Grow(s) \/ Table!Clear(s)
    <3>1. CASE InitCodec(p)
      BY <3>1, InitCodecRegisters DEF Table!Register
    <3>2. CASE Grow(p)
      BY <3>2, GrowGrows DEF Table!Grow
    <3>3. CASE ClearCodec(p)
      BY <3>3, ClearCodecClears DEF Table!Clear
    <3> QED BY <1>8, <3>1, <3>2, <3>3
  <2> QED BY <2>1 DEF Table!Next
<1>9. ASSUME NEW p \in Procs, InitIndex(p) \/ ClearIndex(p)
      PROVE  tableBar' = tableBar
  BY <1>9, InitIndexStays, ClearIndexStays
<1> QED BY <1>0, <1>1, <1>2, <1>3, <1>4, <1>5, <1>6, <1>7, <1>8, <1>9 DEF Next

\* Statement by statement under two locks, or in one step per call: initssid,
\* growindex and clearssid keep the same table of sessions.
THEOREM ImplementsTable == Spec => TableSpec
<1>1. Init => Table!Init
  BY DEF Init, Table!Init, INIT_SSID, INIT_INDEX
<1>2. LocksInv /\ [Next]_vars => [Table!Next]_tableBar
  BY TableStep
<1> QED BY <1>1, <1>2, LocksHold, PTL DEF Spec, TableSpec, Table!Spec, tableBar
=============================================================================
