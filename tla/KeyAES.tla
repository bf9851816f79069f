------------------------------- MODULE KeyAES -------------------------------
(***************************************************************************)
(* keyaes/keyaes.go by lengths: a message is a nonce and a block of        *)
(* checksum, text and padding. AES itself gives back what it was given,    *)
(* and the checksum tells texts apart. A goroutine keeps a channel of      *)
(* nonces filled until Close closes it.                                    *)
(***************************************************************************)
EXTENDS Integers

CONSTANTS
  Block,     \* aes.BlockSize
  SumLen,    \* ae.sumlen, 4
  HdrLen,    \* ae.hdrlen, 8
  Texts,     \* lengths of texts to encrypt
  Spare,     \* by how much the caller's buffer is longer than it has to be
  NonceCap   \* capacity of ae.uuid, 2048

ASSUME KeyAssumption ==
  /\ {Block, SumLen, HdrLen, NonceCap} \subseteq Nat \ {0} /\ SumLen < Block
  /\ Texts \subseteq Nat /\ Spare \subseteq Nat

VARIABLES
  nonces,  \* how many wait in ae.uuid, and whether the next one is zero
  gen,     \* the goroutine uuidGen runs
  ivs,     \* ae.ivs is not nil
  sealed,  \* the last message made, by the lengths of its parts
  opened   \* what Encrypt or Decrypt did last

keyVars == <<nonces, gen, ivs, sealed, opened>>

PaddingSize(n) == Block - ((n + SumLen) % Block)
PackSize(n) == SumLen + n + PaddingSize(n)
EncryptSize(n) == HdrLen + PackSize(n)

NoMessage == [text |-> 0, pack |-> 0, last |-> 0, zero |-> FALSE]

KeyInit ==
  /\ nonces = [many |-> 0, zero |-> FALSE] /\ gen = TRUE /\ ivs = TRUE
  /\ sealed = NoMessage /\ opened = "none"

\* A nonce is any Int63, zero included.
UuidGen ==
  /\ gen /\ ivs /\ nonces.many < NonceCap
  /\ \E zero \in BOOLEAN :
       nonces' = [many |-> nonces.many + 1, zero |-> IF nonces.many = 0 THEN zero ELSE nonces.zero]
  /\ UNCHANGED <<gen, ivs, sealed, opened>>

\* A send on the closed channel panics, and uuidGen recovers and returns.
UuidGenEnd ==
  /\ gen /\ ~ivs
  /\ gen' = FALSE
  /\ UNCHANGED <<nonces, ivs, sealed, opened>>

\* A closed channel gives zero when it is empty.
TakeNonce(zero) ==
  \/ /\ nonces.many > 0 /\ zero = nonces.zero
     /\ \E next \in BOOLEAN :
          /\ nonces.many = 1 => next = FALSE
          /\ nonces' = [many |-> nonces.many - 1, zero |-> next]
  \/ /\ nonces.many = 0 /\ ~ivs /\ zero = TRUE
     /\ UNCHANGED nonces

\* Encrypt: what the caller's buffer holds behind the padding is encrypted
\* too, as far as it makes whole blocks; ivnonce slices ae.ivs.
Encrypt(n, more, junk) ==
  /\ opened # "panic"
  /\ \E zero \in BOOLEAN :
       /\ TakeNonce(zero)
       /\ IF ~ivs \/ more % Block # 0
          THEN opened' = "panic" /\ sealed' = NoMessage
          ELSE /\ opened' = "sealed"
               /\ sealed' = [text |-> n, pack |-> PackSize(n) + more, zero |-> zero,
                             last |-> IF more = 0 THEN PaddingSize(n) ELSE junk]
  /\ UNCHANGED <<gen, ivs>>

\* decryptUnPack goes by the last byte. The checksum is right when the text
\* ends where it did.
Offset(m) == m.pack - m.last

\* Plausible fault, not used by the specification.
UnPadsShort(m) == Offset(m) < Block /\ Offset(m) >= SumLen

UnPads(m) == Offset(m) <= Block /\ Offset(m) >= SumLen
DecryptUnPack(m) == IF UnPads(m) /\ Offset(m) = SumLen + m.text THEN "plain" ELSE "error"

\* A nonce of zero makes ivnonce draw another one, which decrypts to noise.
Decrypt ==
  /\ opened # "panic" /\ sealed # NoMessage
  /\ IF sealed.zero THEN \E zero \in BOOLEAN : TakeNonce(zero) ELSE UNCHANGED nonces
  /\ opened' = CASE ~ivs -> "panic" [] ivs /\ sealed.zero -> "error" [] OTHER -> DecryptUnPack(sealed)
  /\ UNCHANGED <<gen, ivs, sealed>>

CloseKey ==
  /\ ivs /\ ivs' = FALSE
  /\ UNCHANGED <<nonces, gen, sealed, opened>>

KeyNext ==
  \/ UuidGen \/ UuidGenEnd \/ Decrypt \/ CloseKey
  \/ \E n \in Texts, more \in Spare, junk \in {0, Block + Block - SumLen} : Encrypt(n, more, junk)

KeySpec == KeyInit /\ [][KeyNext]_keyVars

------------------------------------------------------------------------------
KeyTypeOK ==
  /\ nonces.many \in 0..NonceCap /\ gen \in BOOLEAN /\ ivs \in BOOLEAN
  /\ opened \in {"none", "sealed", "plain", "error", "panic"}

\* Whatever other calls come between: what Encrypt made of a text that fits
\* in one block with its checksum, in a buffer of the right size and with a nonce
\* that is not zero, Decrypt gives back.
OpensOneBlock ==
  /\ opened \in {"plain", "error"} /\ ~sealed.zero
  /\ sealed.text + SumLen <= Block /\ sealed.pack = PackSize(sealed.text)
  => opened = "plain"
=============================================================================
