-------------------------- MODULE Transfer_proofs --------------------------
(***************************************************************************)
(* Proofs about Delay, for a counter of any width, and about Transfer, for *)
(* any timeout of at least two ticks and any number of retries.            *)
(***************************************************************************)
EXTENDS Transfer, TLAPS

-----------------------------------------------------------------------------
\* The inductive invariant holds when the timer starts, whatever it shows.
LEMMA InitDInv == Init => DInv
BY DelayAssumption DEF Init, DInv, TypeOK

\* Every step of the program and of the timer preserves it.
LEMMA StepDInv == DInv /\ [Next]_vars => DInv'
<1> SUFFICES ASSUME DInv, [Next]_vars PROVE DInv'
  OBVIOUS
<1> USE DelayAssumption DEF DInv, TypeOK, Ahead
<1>1. CASE UNCHANGED vars
  BY <1>1 DEF vars
<1>2. ASSUME NEW d \in Delays, Call(d) PROVE DInv'
  BY <1>2 DEF Call, Wraps
<1>3. CASE Again
  BY <1>3 DEF Again, Pending, Limit
<1>4. CASE Leave
  BY <1>4 DEF Leave, Pending, Limit
<1>5. CASE Wfi
  BY <1>5 DEF Wfi
<1>6. CASE Tick
  <2>1. jiffies' \in 0..Max /\ (jiffies < Max => jiffies' = jiffies + 1)
    BY <1>6 DEF Tick
  <2>2. TypeOK'
    BY <1>6, <2>1 DEF Tick
  <2>3. pc = "plain" /\ Ahead => elapsed <= want /\ jiffies < Max
    BY <1>6 DEF Tick
  <2> QED
    BY <1>6, <2>1, <2>2, <2>3 DEF Tick
<1>7. CASE Wake
  BY <1>7 DEF Wake
<1> QED
  BY <1>1, <1>2, <1>3, <1>4, <1>5, <1>6, <1>7 DEF Next, Program

(***************************************************************************)
(* The inductive invariant holds in every state of every run.              *)
(***************************************************************************)
THEOREM DelayInvariant == Spec => []DInv
BY InitDInv, StepDInv, PTL DEF Spec

\* Where the invariant holds, a call that returns was in time.
LEMMA ReturnInTime ==
  DInv /\ [Next]_vars =>
    [pc # "idle" /\ pc' = "idle" /\ Ahead => elapsed \in want..(want + 1)]_vars
<1> SUFFICES ASSUME DInv, [Next]_vars, pc # "idle", pc' = "idle", Ahead
             PROVE  elapsed \in want..(want + 1)
  OBVIOUS
<1>1. Leave
  BY DEF Next, Program, Call, Again, Wfi, Tick, Wake, vars
<1>2. pc = "plain"
  BY <1>1, DelayAssumption DEF Leave, DInv, TypeOK, Ahead, Pending, Limit
<1> QED
  BY <1>1, <1>2, DelayAssumption DEF Leave, Pending, Limit, DInv, TypeOK

(***************************************************************************)
(* A delay that ends before the counter wraps takes its time, or one tick  *)
(* more, whatever interrupts come between the comparison and the wfi.      *)
(***************************************************************************)
THEOREM DelaysInTime == Spec => InTime
BY ReturnInTime, DelayInvariant, PTL DEF Spec, InTime

-----------------------------------------------------------------------------
\* A transfer leaves what msleep works with alone, but for the counter.
LEMMA TransferStepIsDelayStep == [TNext]_allvars => [Next]_vars
BY DEF TNext, Sleep, Move, TTick, Next, allvars, vars

\* The invariant of a transfer holds when the timer starts.
LEMMA InitTInv == TInit => TInv
BY InitDInv, TransferAssumption, DelayAssumption
   DEF TInit, Init, TInv, HostInv, TTypeOK, Kinds, Status, Flight, NothingLeft, Taken, InTurn

\* The bounds that the assumptions and the invariant of Delay give.
LEMMA Bounds ==
  /\ Max \in Nat /\ Timeout \in Nat /\ 2 <= Timeout /\ Timeout <= Max /\ Retries \subseteq Nat
  /\ DInv => jiffies \in 0..Max
BY TransferAssumption, DelayAssumption DEF DInv, TypeOK

\* A step of the driver preserves what is between it and the host controller.
LEMMA DriverHostInv ==
  ASSUME DInv, HostInv, Driver, UNCHANGED vars
  PROVE  HostInv'
<1> USE DEF HostInv, TTypeOK, Kinds, Status, Flight, NothingLeft, Taken, InTurn, vars
<1>1. CASE Send
  BY <1>1, Bounds DEF Send, Aged, Inhibited
<1>2. CASE WaitStart
  BY <1>2, Bounds DEF WaitStart
<1>3. CASE WaitWhile
  BY <1>3, Bounds DEF WaitWhile, Deadline
<1>4. CASE WaitPoll
  BY <1>4, Bounds DEF WaitPoll
<1>5. CASE WaitTake
  BY <1>5, Bounds DEF WaitTake
<1>6. CASE WaitStore
  BY <1>6, Bounds DEF WaitStore
<1>7. CASE Judge
  BY <1>7, Bounds DEF Judge
<1>8. CASE ErrorRecovery
  BY <1>8, Bounds DEF ErrorRecovery
<1>9. CASE ResetCommand
  BY <1>9, Bounds DEF ResetCommand
<1>10. CASE ResetData
  BY <1>10, Bounds DEF ResetData
<1>11. CASE Delete
  BY <1>11, Bounds DEF Delete
<1>12. CASE Return
  BY <1>12, Bounds DEF Return
<1> QED
  BY <1>1, <1>2, <1>3, <1>4, <1>5, <1>6, <1>7, <1>8, <1>9, <1>10, <1>11, <1>12
     DEF Driver

\* And so does what the card answers, whenever it comes.
LEMMA CardHostInv ==
  ASSUME DInv, HostInv, Host, UNCHANGED vars
  PROVE  HostInv'
<1> USE DEF HostInv, TTypeOK, Kinds, Status, Flight, NothingLeft, Taken, InTurn, vars
<1>1. ASSUME NEW s \in Status, Response(s) PROVE HostInv'
  BY <1>1, Bounds DEF Response, Complete
<1>2. ASSUME NEW s \in Status, DataEnd(s) PROVE HostInv'
  BY <1>2, Bounds DEF DataEnd, Complete
<1>3. CASE ResponseBeforeData
  BY <1>3, Bounds DEF ResponseBeforeData
<1>4. CASE Release
  BY <1>4, Bounds DEF Release
<1> QED
  BY <1>1, <1>2, <1>3, <1>4 DEF Host

\* And a tick, which the loop takes at most one of in a turn.
LEMMA TickHostInv ==
  ASSUME DInv, HostInv, TTick
  PROVE  HostInv'
<1> USE DEF HostInv, TTypeOK, Kinds, Status, Flight, NothingLeft, Taken, InTurn
<1>1. came = "early" /\ at = "while" /\ pvT + Timeout <= Max =>
        lag = 0 /\ lag' = 1 /\ jiffies + 2 <= pvT + Timeout
  BY Bounds DEF TTick
<1>2. jiffies < Max => jiffies' = jiffies + 1
  BY Bounds DEF TTick, Tick
<1>3. InTurn'
  BY Bounds, <1>1, <1>2 DEF TTick
<1> QED
  BY <1>3 DEF TTick, Tick

\* Every step of the program, of the controller and of the timer preserves it.
LEMMA StepTInv == TInv /\ [TNext]_allvars => TInv'
<1>1. ASSUME DInv, HostInv, UNCHANGED allvars PROVE HostInv'
  BY <1>1 DEF allvars, transfer, vars, HostInv, TTypeOK, Flight, NothingLeft, Taken, InTurn
<1>2. ASSUME DInv, HostInv, Sleep PROVE HostInv'
  BY <1>2 DEF Sleep, transfer, HostInv, TTypeOK, Flight, NothingLeft, Taken, InTurn
<1>3. ASSUME DInv, HostInv, NEW k \in Kinds, NEW n \in Retries,
             MMC_Transfer(k, n), UNCHANGED vars
      PROVE  HostInv'
  BY <1>3, Bounds
     DEF MMC_Transfer, vars, HostInv, TTypeOK, Flight, NothingLeft, Taken, InTurn
<1> QED
  BY <1>1, <1>2, <1>3, DriverHostInv, CardHostInv, TickHostInv, TransferStepIsDelayStep, StepDInv
     DEF TInv, TNext, Move

(***************************************************************************)
(* The invariant holds in every state of every run: a transfer leaves      *)
(* nothing behind that the next one could take for its own.                *)
(***************************************************************************)
THEOREM TransferInvariant == TSpec => []TInv
BY InitTInv, StepTInv, PTL DEF TSpec

(***************************************************************************)
(* A transfer that is reported as done was completed by its own command or *)
(* its own data, however many attempts timed out before.                   *)
(***************************************************************************)
THEOREM TransfersOwnCompletion == TSpec => []OwnCompletion
<1>1. TInv => OwnCompletion
  BY DEF TInv, HostInv, Taken, OwnCompletion
<1> QED
  BY <1>1, TransferInvariant, PTL

(***************************************************************************)
(* The wait does not miss a completion that comes two ticks before the     *)
(* timeout.                                                                *)
(***************************************************************************)
THEOREM CompletionsSeen == TSpec => NotMissed
<1>1. TInv /\ [TNext]_allvars =>
        [at = "while" /\ at' = "recover" /\ pvT + Timeout <= Max => came # "early"]_allvars
  <2> SUFFICES ASSUME TInv, [TNext]_allvars, at = "while", at' = "recover",
                      pvT + Timeout <= Max, came = "early"
               PROVE  FALSE
    BY DEF allvars
  <2>1. WaitWhile
    BY DEF TNext, Sleep, Move, TTick, MMC_Transfer, Driver, Host, Send, WaitStart, WaitPoll,
           WaitTake, WaitStore, Judge, ErrorRecovery, ResetCommand, ResetData, Delete, Return,
           Response, ResponseBeforeData, DataEnd, Release, transfer, allvars
  <2>2. Max \in Nat /\ Timeout \in Nat /\ jiffies \in Nat /\ pvT \in Nat /\ lag \in 0..1
    BY TransferAssumption, DelayAssumption DEF TInv, HostInv, DInv, TypeOK, TTypeOK
  <2>3. Deadline = pvT + Timeout
    BY <2>2 DEF Deadline
  <2>4. jiffies < Deadline
    BY <2>2, <2>3 DEF TInv, HostInv, InTurn
  <2> QED
    BY <2>1, <2>4 DEF WaitWhile
<1> QED
  BY <1>1, TransferInvariant, PTL DEF TSpec, NotMissed

(***************************************************************************)
(* Delays stay on time when they are mixed with transfers, which read the  *)
(* same counter and are interrupted by the same timer.                     *)
(***************************************************************************)
THEOREM DelaysBesideTransfers == TSpec => InTime
<1>1. DInv /\ [Next]_vars =>
        [pc # "idle" /\ pc' = "idle" /\ Ahead => elapsed \in want..(want + 1)]_vars
  BY ReturnInTime
<1>2. TInv => DInv
  BY DEF TInv
<1> QED
  BY <1>1, <1>2, TransferStepIsDelayStep, TransferInvariant, PTL DEF TSpec, InTime
=============================================================================
