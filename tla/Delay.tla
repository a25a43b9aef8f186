------------------------------- MODULE Delay -------------------------------
(***************************************************************************)
(* msleep of delay.c and the timer interrupt it waits for.  The interrupt  *)
(* counts milliseconds in a word that wraps; msleep compares that word     *)
(* with the end of the delay and, in a release build, stops the processor  *)
(* in between.  An interrupt that comes after the comparison and before    *)
(* the processor stops does not wake it again.                             *)
(***************************************************************************)
EXTENDS Integers

CONSTANTS
    Max,     \* UINT32_MAX
    Delays,  \* arguments of msleep
    Debug    \* whether DEBUG is defined, which leaves the wfi out

ASSUME DelayAssumption ==
    Max \in Nat \ {0} /\ Delays \subseteq 0..Max /\ Debug \in BOOLEAN

VARIABLES
    jiffies,  \* PITCounter
    pv, want, \* _pv and the argument of the call
    end,      \* what the last loop compares the counter with
    pc,       \* the loop: "plain", "first", "second"; "idle" outside of msleep
    cpu,      \* "test", "stop" (the test is done, wfi is next) or "stopped"
    since,    \* ticks since the last step of the program
    elapsed   \* history: ticks since the call, up to Max + 2

vars == <<jiffies, pv, want, end, pc, cpu, since, elapsed>>

Init ==
    /\ jiffies \in 0..Max
    /\ pv = 0 /\ want = 0 /\ end = 0
    /\ pc = "idle" /\ cpu = "test" /\ since = 0 /\ elapsed = 0

Wraps(d, now) == d > Max - now

Call(d) ==
    /\ pc = "idle"
    /\ pv' = jiffies /\ want' = d
    /\ end' = IF Wraps(d, jiffies) THEN d - (Max - jiffies) ELSE jiffies + d
    /\ pc' = IF Wraps(d, jiffies) THEN "first" ELSE "plain"
    /\ cpu' = "test" /\ since' = 0 /\ elapsed' = 0
    /\ UNCHANGED jiffies

\* What the counter is compared with.
Limit == IF pc = "first" THEN Max ELSE end

\* Mutant: the end of the delay is still waited for.
MutPending == jiffies <= Limit

\* Mutant: only the very tick that ends the delay ends the loop.
MutPendingExact == jiffies # Limit

Pending == jiffies < Limit

Again ==
    /\ pc # "idle" /\ cpu = "test" /\ Pending
    /\ cpu' = IF Debug THEN "test" ELSE "stop"
    /\ since' = 0
    /\ UNCHANGED <<jiffies, pv, want, end, pc, elapsed>>

Leave ==
    /\ pc # "idle" /\ cpu = "test" /\ ~Pending
    /\ since' = 0
    /\ \/ /\ pc = "first" /\ pc' = "second"
          /\ UNCHANGED <<pv, want, end, elapsed>>
       \/ /\ pc # "first" /\ pc' = "idle"
          /\ pv' = 0 /\ want' = 0 /\ end' = 0 /\ elapsed' = 0
    /\ UNCHANGED <<jiffies, cpu>>

Wfi ==
    /\ cpu = "stop"
    /\ cpu' = "stopped" /\ since' = 0
    /\ UNCHANGED <<jiffies, pv, want, end, pc, elapsed>>

\* PIT_DriverIRQHandler.  The few instructions between two steps of a program
\* that is not stopped take less than a millisecond.
Tick ==
    /\ pc = "idle" \/ cpu = "stopped" \/ since = 0
    /\ jiffies' = (jiffies + 1) % (Max + 1)
    /\ elapsed' = IF elapsed = Max + 2 \/ pc = "idle" THEN elapsed ELSE elapsed + 1
    /\ cpu' = IF cpu = "stopped" THEN "test" ELSE cpu
    /\ since' = IF pc = "idle" THEN 0 ELSE 1
    /\ UNCHANGED <<pv, want, end, pc>>

\* Any other interrupt ends a wfi as well.
Wake ==
    /\ cpu = "stopped"
    /\ cpu' = "test" /\ since' = 0
    /\ UNCHANGED <<jiffies, pv, want, end, pc, elapsed>>

Program == Again \/ Leave \/ Wfi

Next == (\E d \in Delays : Call(d)) \/ Program \/ Tick \/ Wake

\* The timer goes on ticking and the processor goes on executing.
Spec == Init /\ [][Next]_vars /\ WF_vars(Tick) /\ WF_vars(Program)
-----------------------------------------------------------------------------
TypeOK ==
    /\ jiffies \in 0..Max /\ pv \in 0..Max /\ want \in 0..Max /\ end \in 0..Max
    /\ pc \in {"idle", "plain", "first", "second"}
    /\ cpu \in {"test", "stop", "stopped"} /\ since \in 0..1
    /\ elapsed \in 0..(Max + 2)

\* The call ends before the last value of the counter.
Ahead == pv + want < Max

(***************************************************************************)
(* A delay that ends before the counter can wrap takes as long as it       *)
(* should and at most one tick more, also when the tick it waits for comes *)
(* between the comparison and the wfi.  delay.c:53-61.                     *)
(***************************************************************************)
InTime ==
    [][pc # "idle" /\ pc' = "idle" /\ Ahead => elapsed \in want..(want + 1)]_vars

(***************************************************************************)
(* Such a delay returns: no tick that is missed is the last one.           *)
(***************************************************************************)
Returns == pc = "plain" /\ Ahead ~> pc = "idle"

(***************************************************************************)
(* What makes InTime inductive: the counter has gone on by elapsed from    *)
(* pv without a wrap, and the loop stops the processor only while there is *)
(* a tick to come.                                                         *)
(***************************************************************************)
DInv ==
    /\ TypeOK
    /\ pc = "plain" => end = pv + want
    /\ pc = "idle" => cpu = "test"
    /\ pc \in {"first", "second"} => pv + want > Max
    /\ pc = "plain" /\ Ahead =>
         /\ jiffies = pv + elapsed
         /\ cpu = "test" => elapsed <= want + since
         /\ cpu = "stop" => elapsed < want + since
         /\ cpu = "stopped" => elapsed <= want
=============================================================================
