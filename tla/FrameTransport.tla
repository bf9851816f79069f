---------------------------- MODULE FrameTransport ----------------------------
(***************************************************************************)
(* What a multiplexing transport promises of the frames its sessions hand  *)
(* over, each named <<session, index>>: a session numbers its frames in    *)
(* increasing order, a frame that was accepted stays pending until it is   *)
(* delivered, and it is delivered once.                                    *)
(***************************************************************************)
EXTENDS Naturals

VARIABLES pending, delivered

Init == pending = {} /\ delivered = {}

Submit(s, i) ==
  /\ \A x \in pending \cup delivered : x[1] = s => x[2] < i
  /\ pending' = pending \cup {<<s, i>>}
  /\ UNCHANGED delivered

Deliver(x) ==
  /\ x \in pending
  /\ pending' = pending \ {x}
  /\ delivered' = delivered \cup {x}

Next == \/ \E x \in pending' : Submit(x[1], x[2])
        \/ \E x \in pending : Deliver(x)

Spec == Init /\ [][Next]_<<pending, delivered>>
=============================================================================
