----------------------------- MODULE MCPackages -----------------------------
(***************************************************************************)
(* Small instances, for TLC, of the packages that do not call each other.  *)
(* A behaviour picks one package and runs it; the others stay at one of    *)
(* their initial states, so that their states add up and do not multiply.  *)
(***************************************************************************)
EXTENDS SpinLock, LifoQ, Palloc, RotFile, BigCounter, KeyAES, TcpFilter,
        Messages, QpsServer, TomlLexer, TomlTables, GetOpt

CONSTANT Packages   \* the packages to pick from

VARIABLE package

vars == <<package, spinVars, lifoVars, pallocVars, rotVars, ctrVars, keyVars, filterVars,
          msgVars, qpsVars, lexVars, tomlVars, optVars>>

\* palloc, logger, bigcounter
NoSize == {0}
InitSomeSizes == {-1, 0, 1}
SomeSizes == {-16, 0, 16, 20, 24, 32, 40, 48}
SomeCaps == {0, 8, 24, 48}
SomeCtrSizes == {-3, 0, 2}
SomeCtrBytes == {<<0, 3, 1>>}

\* toml: the texts p \o s, with a tail s of up to n of the bytes S
After(p, S, n) == {p \o s : s \in UNION {[1 .. k -> S] : k \in 0 .. n}}
Assign == <<"a", "=">>
Quoted == <<"a", "=", "\"">>
Tripled == <<"a", "=", "\"", "\"", "\"">>
Backslash(c) == Quoted \o <<"\\", "u", "0", "0", "5", c>>
Date(m) == <<"1", "9", "9", "1", "-", m, "1", "-", "1", "9", "T", "1", "1", ":", "1", "9", ":",
             "1", "1", "Z">>
SomeTexts ==
  After(<<"[">>, {"[", "]", ".", "a", "nl"}, 3)
    \cup After(<<"[", "a", "]">>, {"#", "nl", "=", "1"}, 3)
    \cup After(Assign \o <<"[">>, {"]", ",", "1", "#", "nl"}, 3)
    \cup After(Assign, {"-", "1", ".", "sp", "#", "nul"}, 3)
    \cup After(Quoted, {"\\", "u", "\"", "1"}, 4)
    \cup After(Assign \o <<"'">>, {"'", "a"}, 3)
    \cup {Assign \o s : s \in
            {Date("0"), Date("1"), Date("9"), <<"t", "r", "u", "e">>, <<"t", "r", "e">>,
             <<"f", "a", "l", "s", "e">>, <<"'", "'", "'", "nl", "'", "'", "'">>,
             <<"[", "1", ",", "'", "'", "]">>,
             <<"[", "[", "1", "]", ",", "[", "'", "a", "'", "]", "]">>}}
    \cup {Quoted \o s : s \in
            {<<"\\", "\\", "u", "1", "1", "\"">>, <<"\"", "two", "cont">>,
             <<"\"", "three", "cont", "cont">>,
             <<"\\", "u", "0", "0", "7", "5", "\\", "u", "f", "F", "e", "9", "\"">>}}
    \cup {Backslash(c) \o s : c \in {"c", "C"}, s \in
            {<<"\"">>, <<"u", "\"">>, <<"u", "1", "a", "2", "D", "\"">>,
             <<"\\", "u", "0", "0", "7", "5", "x", "x", "x", "x", "\"">>}}
    \cup {Tripled \o s : s \in
            {<<"\\", "u", "1", "1", "a", "9", "\\", "nl", "\"", "\"", "\"", "\"">>,
             <<"\\", "u", "1", "1", "a", "9", "\\", "nl", "sp", "\"", "\"", "\"">>,
             <<"\"", "\"", "two", "cont">>, <<"\"", "\"", "three", "cont", "cont">>}}
A == <<"a">>
B == <<"b">>
SomeTables == {<<A>>, <<A, B>>, <<A, B, A>>}
SomeKeys == {B, <<"b", "a">>}

\* getopt
SomeArgs == {<<"-s">>, <<"--l">>, <<"--">>, <<"v">>, <<"v", "w">>}

Init ==
  /\ package \in Packages
  /\ SpinInit /\ LifoInit /\ PallocInit /\ RotInit /\ KeyInit
  /\ package # "queues" => q = <<>>
  /\ package # "logger" => open
  /\ CtrInit /\ (package # "bigcounter" => ctr = NewAnyBaseCounter(0))
  /\ FilterInit /\ (package # "filter" => info = [len |-> 0, good |-> TRUE] /\ in.state = "RESET")
  /\ MsgInit /\ (package # "messages" => travels = "cmsg")
  /\ QpsInit /\ (package # "qps" => mode = "short")
  /\ LexInit /\ (package # "lexer" => doc = Assign \o <<"nl">>)
  /\ TomlInit /\ OptInit

LexerNext ==
  /\ package = "lexer" /\ LexNext
  /\ UNCHANGED <<package, spinVars, lifoVars, pallocVars, rotVars, ctrVars, keyVars,
                 filterVars, msgVars, qpsVars, tomlVars, optVars>>

Next ==
  \/ /\ package = "spinlock" /\ SpinNext
     /\ UNCHANGED <<package, lifoVars, pallocVars, rotVars, ctrVars, keyVars, filterVars,
                    msgVars, qpsVars, lexVars, tomlVars, optVars>>
  \/ /\ package = "queues" /\ LifoNext
     /\ UNCHANGED <<package, spinVars, pallocVars, rotVars, ctrVars, keyVars, filterVars,
                    msgVars, qpsVars, lexVars, tomlVars, optVars>>
  \/ /\ package = "palloc" /\ PallocNext
     /\ UNCHANGED <<package, spinVars, lifoVars, rotVars, ctrVars, keyVars, filterVars,
                    msgVars, qpsVars, lexVars, tomlVars, optVars>>
  \/ /\ package = "logger" /\ RotNext
     /\ UNCHANGED <<package, spinVars, lifoVars, pallocVars, ctrVars, keyVars, filterVars,
                    msgVars, qpsVars, lexVars, tomlVars, optVars>>
  \/ /\ package = "bigcounter" /\ CtrNext
     /\ UNCHANGED <<package, spinVars, lifoVars, pallocVars, rotVars, keyVars, filterVars,
                    msgVars, qpsVars, lexVars, tomlVars, optVars>>
  \/ /\ package = "keyaes" /\ KeyNext
     /\ UNCHANGED <<package, spinVars, lifoVars, pallocVars, rotVars, ctrVars, filterVars,
                    msgVars, qpsVars, lexVars, tomlVars, optVars>>
  \/ /\ package = "filter" /\ FilterNext
     /\ UNCHANGED <<package, spinVars, lifoVars, pallocVars, rotVars, ctrVars, keyVars,
                    msgVars, qpsVars, lexVars, tomlVars, optVars>>
  \/ /\ package = "messages" /\ MsgNext
     /\ UNCHANGED <<package, spinVars, lifoVars, pallocVars, rotVars, ctrVars, keyVars,
                    filterVars, qpsVars, lexVars, tomlVars, optVars>>
  \/ /\ package = "qps" /\ QpsNext
     /\ UNCHANGED <<package, spinVars, lifoVars, pallocVars, rotVars, ctrVars, keyVars,
                    filterVars, msgVars, lexVars, tomlVars, optVars>>
  \/ LexerNext
  \/ /\ package = "toml" /\ TomlNext
     /\ UNCHANGED <<package, spinVars, lifoVars, pallocVars, rotVars, ctrVars, keyVars,
                    filterVars, msgVars, qpsVars, lexVars, optVars>>
  \/ /\ package = "getopt" /\ OptNext
     /\ UNCHANGED <<package, spinVars, lifoVars, pallocVars, rotVars, ctrVars, keyVars,
                    filterVars, msgVars, qpsVars, lexVars, tomlVars>>

\* Where SpinLock or the server is not the package, no thread spins and no
\* handler and counter can run: their fairness asks nothing. The lexer runs in
\* the goroutine of its caller, without waiting for anybody.
FairSpec == Init /\ [][Next]_vars /\ SpinFairness /\ QpsFairness /\ WF_vars(LexerNext)

\* The types of the packages.
PackagesTypeOK ==
  /\ SpinTypeOK /\ LifoTypeOK /\ PallocTypeOK /\ RotTypeOK /\ CtrTypeOK /\ KeyTypeOK
  /\ FilterTypeOK /\ MsgTypeOK /\ QpsTypeOK /\ LexTypeOK /\ TomlTypeOK /\ OptTypeOK
=============================================================================
