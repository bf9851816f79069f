------------------------------ MODULE SpinLock ------------------------------
(***************************************************************************)
(* The spin lock of spinlock/spinlock.go and threads that use it as its    *)
(* test does: Unlock is called by the thread that has the lock. Each       *)
(* operation of sync/atomic is one step.                                   *)
(***************************************************************************)
EXTENDS Naturals

CONSTANT Threads

VARIABLES
  f,   \* the lock word
  pc   \* "idle", "lock" before a TryLock of Lock, "gosched" after one that
       \* failed, "held" with the lock

spinVars == <<f, pc>>

\* Types; the word is 0 or 1 whatever the threads do.
SpinTypeOK ==
  /\ f \in {0, 1}
  /\ pc \in [Threads -> {"idle", "lock", "gosched", "held"}]

SpinInit == f = 0 /\ pc = [t \in Threads |-> "idle"]

Goto(t, label) == pc' = [pc EXCEPT ![t] = label]

\* Plausible fault, not used by SpinNext: a TryLock that fails resets the word, as
\* one that swaps the word and puts back 0 would.
TryLockReset(t, failed) ==
  /\ f' = 1 - f
  /\ Goto(t, IF f = 0 THEN "held" ELSE failed)

\* Plausible fault, not used by SpinNext: the word stays 1.
UnlockForget(t) == pc[t] = "held" /\ Goto(t, "idle") /\ UNCHANGED f

\* Plausible fault, not used by SpinNext: the word is counted down, not stored.
UnlockTwice(t) == pc[t] \in {"held", "idle"} /\ Goto(t, "idle") /\ f' = f - 1

\* CompareAndSwapUint32(&sl.f, 0, 1); a thread that fails goes to label failed.
TryLock(t, failed) ==
  /\ f' = 1
  /\ Goto(t, IF f = 0 THEN "held" ELSE failed)

CallTryLock(t) == pc[t] = "idle" /\ TryLock(t, "idle")

CallLock(t) == pc[t] = "idle" /\ Goto(t, "lock") /\ UNCHANGED f

\* One round of Lock's loop.
LockTry(t) == pc[t] = "lock" /\ TryLock(t, "gosched")

\* runtime.Gosched() returns.
Gosched(t) == pc[t] = "gosched" /\ Goto(t, "lock") /\ UNCHANGED f

Unlock(t) == pc[t] = "held" /\ Goto(t, "idle") /\ f' = 0

LockStep(t) == LockTry(t) \/ Gosched(t)

SpinNext == \E t \in Threads : CallTryLock(t) \/ CallLock(t) \/ LockStep(t) \/ Unlock(t)

SpinSpec == SpinInit /\ [][SpinNext]_spinVars

\* The scheduler runs a goroutine that spins, and the lock's owner goes on.
SpinFairness == \A t \in Threads : WF_spinVars(LockStep(t)) /\ WF_spinVars(Unlock(t))

-----------------------------------------------------------------------------
\* Lock, and a TryLock that returns true, give the lock to one caller at a time.
MutualExclusion == \A t, u \in Threads : pc[t] = "held" /\ pc[u] = "held" => t = u

\* The word, Lock, TryLock and Unlock implement a lock.
Owner == {t \in Threads : pc[t] = "held"}
Abstract == INSTANCE Lock WITH owner <- Owner
LockSpec == Abstract!Spec

\* The spinning threads do not keep each other out: while some wait, somebody
\* gets the lock. Which of them is up to the scheduler.
SomebodyGetsIt ==
  (\E t \in Threads : pc[t] \in {"lock", "gosched"}) ~> (\E t \in Threads : pc[t] = "held")

-----------------------------------------------------------------------------
\* Why: the word is 1 exactly while somebody has the lock.
WordInv == (f = 1 <=> \E t \in Threads : pc[t] = "held") /\ MutualExclusion
=============================================================================
