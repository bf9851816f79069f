----------------------------- MODULE MCCodecMixer -----------------------------
EXTENDS CodecMixer, TLC

NoSsids == {}
OneSsid == {2}
WireNumbers == {0, 2, 3}

\* Bytes in iobuf[:ioptr] and in a header's bodylen. A new framebuf has room for
\* 396: one length below, that one, one beyond.
AroundRoom == {100, 396, 500}
ExactFit == {396}
\* A block that always gets the fast channel, and one that may need the other.
FastAndBulk == {100, 1000}
OneLength == {100}

\* Model values of the safety runs are interchangeable.
Symmetry ==
  Permutations(Frames) \cup Permutations(Clients) \cup Permutations(Encoders)
    \cup Permutations(Links) \cup Permutations(Waiters)
=============================================================================
