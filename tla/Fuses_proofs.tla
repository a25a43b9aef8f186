---------------------------- MODULE Fuses_proofs ----------------------------
(***************************************************************************)
(* Proofs about Fuses, for any number of words, any bits and any keys: the *)
(* words that are burnt begin one key, and the configuration is closed     *)
(* only over a complete one.  FInv is inductive; one lemma per group of    *)
(* actions shows that they preserve it.                                    *)
(***************************************************************************)
EXTENDS Fuses, TLAPS

-----------------------------------------------------------------------------
\* Blank fuses satisfy the invariant.
LEMMA InitFInv == Init => FInv
BY KeysAssumption DEF Init, FInv, TypeOK, Burning, Locking, OneKey, ClosedOverKey,
   Blank, Words, Lock

\* A start of the updater, and its refusal to burn, leave the fuses alone.
LEMMA CheckFInv ==
    ASSUME FInv, Refuse \/ \E k \in Keys \cup {None} : PowerOn(k)
    PROVE  FInv'
<1>1. UNCHANGED <<fuses, addr, keys, n>> /\ pc' \in {"check", "done"}
  BY DEF Refuse, PowerOn, registers
<1>2. TypeOK'
  <2>1. CASE Refuse
    BY <2>1 DEF FInv, TypeOK, Refuse, fuses, registers
  <2>2. ASSUME NEW k \in Keys \cup {None}, PowerOn(k) PROVE TypeOK'
    BY <2>2, KeysAssumption DEF FInv, TypeOK, PowerOn, fuses, registers
  <2> QED
    BY <2>1, <2>2
<1>3. ctrl' = "idle" /\ (pc' = "check" => shadow' = otp' /\ shadowConfig' = config')
  BY DEF FInv, Refuse, PowerOn, fuses, registers
<1> QED
  BY <1>1, <1>2, <1>3 DEF FInv, Burning, Locking, OneKey, PrefixOf, ClosedOverKey, fuses

\* Burning starts over blank fuses.
LEMMA StartBurnFInv ==
    ASSUME FInv, StartBurn PROVE FInv'
<1>1. otp = Blank /\ config = "open" /\ ctrl = "idle" /\ file \in Keys
  BY DEF FInv, TypeOK, StartBurn, MayBurn
<1>2. UNCHANGED <<fuses, registers>> /\ pc' = "burn" /\ n' = 1 /\ keys' = file
  BY DEF StartBurn
<1>3. TypeOK'
  BY <1>1, <1>2, KeysAssumption DEF FInv, TypeOK, StartBurn, fuses, registers
<1>4. Burning'
  BY <1>1, <1>2 DEF Burning, Blank, Words, fuses, registers
<1> QED
  BY <1>1, <1>2, <1>3, <1>4 DEF FInv, Locking, OneKey, PrefixOf, ClosedOverKey, fuses, registers

\* A word is handed over when the one before it is complete.
LEMMA WriteWordFInv ==
    ASSUME FInv, WriteWord PROVE FInv'
<1>1. UNCHANGED <<fuses, shadow, shadowConfig, file, pc, keys, boots>>
      /\ pc = "burn" /\ ctrl = "idle" /\ ctrl' = "busy" /\ addr' = n /\ n' = n + 1
      /\ n \in 1..NWords
  BY DEF FInv, TypeOK, WriteWord, WaitOver
<1>2. TypeOK'
  BY <1>1, KeysAssumption DEF FInv, TypeOK, fuses, Lock
<1>3. Burning'
  BY <1>1, KeysAssumption DEF FInv, TypeOK, Burning, Words, fuses
<1> QED
  BY <1>1, <1>2, <1>3 DEF FInv, Locking, OneKey, PrefixOf, ClosedOverKey, fuses

\* Lock is handed over when every word is complete.
LEMMA WriteLockFInv ==
    ASSUME FInv, WriteLock PROVE FInv'
<1>1. UNCHANGED <<fuses, shadow, shadowConfig, keys, n, boots>>
      /\ pc = "burn" /\ ctrl = "idle" /\ ctrl' = "busy" /\ addr' = Lock /\ pc' = "done"
      /\ n = NWords + 1 /\ file' \in {file, None}
  BY KeysAssumption DEF FInv, TypeOK, WriteLock, WaitOver
<1>2. TypeOK'
  BY <1>1, KeysAssumption DEF FInv, TypeOK, fuses, Lock
<1>3. otp = keys /\ keys \in Keys
  <2>1. keys \in Keys /\ \A i \in Words : otp[i] = keys[i]
    BY <1>1, KeysAssumption DEF FInv, Burning, Words
  <2> QED
    BY <2>1, KeysAssumption DEF FInv, TypeOK
<1> QED
  BY <1>1, <1>2, <1>3 DEF FInv, Burning, Locking, OneKey, PrefixOf, ClosedOverKey, fuses

-----------------------------------------------------------------------------
\* Whatever part of the word in hand is burnt, the words still begin one key.
LEMMA PartOfWord ==
    ASSUME FInv, pc = "burn", ctrl = "busy",
           NEW part \in SUBSET keys[addr], otp' = [otp EXCEPT ![addr] = @ \cup part]
    PROVE  /\ OneKey' /\ addr \in Words /\ addr = n - 1 /\ n > 1
           /\ otp' \in [Words -> SUBSET Bits]
           /\ otp'[addr] = part
           /\ \A i \in Words : i # addr => otp'[i] = otp[i]
<1>1. /\ keys \in Keys /\ addr = n - 1 /\ n > 1 /\ addr \in Words
      /\ otp \in [Words -> SUBSET Bits] /\ keys \in [Words -> SUBSET Bits]
      /\ \A i \in Words : (i < addr => otp[i] = keys[i]) /\ (i >= addr => otp[i] = {})
  BY KeysAssumption DEF FInv, TypeOK, Burning, Words
<1>2. /\ otp' \in [Words -> SUBSET Bits] /\ otp'[addr] = part
      /\ \A i \in Words : i # addr => otp'[i] = otp[i]
  BY <1>1
<1>3. \A i \in Words : /\ otp'[i] \subseteq keys[i]
                       /\ otp'[i] # {} => i <= addr
  BY <1>1, <1>2, KeysAssumption DEF Words
<1>4. \A i \in Words : i <= addr => \A j \in 1..(i - 1) : otp'[j] = keys[j]
  BY <1>1, <1>2, KeysAssumption DEF Words
<1> QED
  BY <1>1, <1>2, <1>3, <1>4 DEF OneKey, PrefixOf

\* What the controller does to a word, whether it ends, fails or is cut short.
LEMMA ControllerFInv ==
    ASSUME FInv, Controller PROVE FInv'
<1>1. UNCHANGED <<shadow, shadowConfig, addr, file, pc, keys, n, boots>>
      /\ ctrl = "busy" /\ pc \in {"burn", "done"} /\ ctrl' \in {"idle", "error"}
  BY DEF FInv, TypeOK, Controller, Burnt, BurnFails
<1>2. CASE pc = "burn"
  <2>1. addr \in Words /\ config = "open" /\ keys[addr] \subseteq keys[addr]
    BY <1>1, <1>2, KeysAssumption DEF FInv, TypeOK, Burning, Words
  <2>2. PICK part \in SUBSET keys[addr] :
           /\ otp' = [otp EXCEPT ![addr] = @ \cup part] /\ config' = config
           /\ ctrl' = "idle" => part = keys[addr]
    BY <2>1 DEF Controller, Burnt, BurnFails, BurnAll, BurnSome
  <2>3. /\ OneKey' /\ addr = n - 1 /\ n > 1 /\ otp' \in [Words -> SUBSET Bits]
        /\ otp'[addr] = part /\ \A i \in Words : i # addr => otp'[i] = otp[i]
    BY <1>1, <1>2, <2>2, PartOfWord
  <2>4. Burning'
    BY <1>1, <1>2, <2>1, <2>2, <2>3, KeysAssumption DEF FInv, TypeOK, Burning, Words
  <2> QED
    BY <1>1, <1>2, <2>1, <2>2, <2>3, <2>4 DEF FInv, TypeOK, Locking, ClosedOverKey
<1>3. CASE pc = "done"
  <2>1. addr \notin Words /\ otp \in Keys
    BY <1>1, <1>3, KeysAssumption DEF FInv, Locking, Words, Lock
  <2>2. otp' = otp /\ config' \in {config, "closed"}
    BY <2>1 DEF Controller, Burnt, BurnFails, BurnAll, BurnSome
  <2> QED
    BY <1>1, <1>3, <2>1, <2>2 DEF FInv, TypeOK, Burning, Locking, OneKey, PrefixOf, ClosedOverKey
<1> QED
  BY <1>1, <1>2, <1>3

\* What is left when the power goes.
LEMMA OffFInv ==
    ASSUME FInv, Off PROVE FInv'
<1>1. UNCHANGED <<shadow, shadowConfig, addr, file, keys, n, boots>>
      /\ ctrl' = "idle" /\ pc' = "off"
  BY DEF Off
<1>2. CASE ctrl # "busy"
  BY <1>1, <1>2 DEF Off, FInv, TypeOK, Burning, Locking, OneKey, PrefixOf, ClosedOverKey, fuses
<1>3. CASE ctrl = "busy" /\ pc = "burn"
  <2>1. addr \in Words /\ config = "open"
    BY <1>3, KeysAssumption DEF FInv, TypeOK, Burning, Words
  <2>2. PICK part \in SUBSET keys[addr] :
           otp' = [otp EXCEPT ![addr] = @ \cup part] /\ config' = config
    BY <1>3, <2>1 DEF Off, BurnSome
  <2>3. OneKey' /\ otp' \in [Words -> SUBSET Bits]
    BY <1>3, <2>2, PartOfWord
  <2> QED
    BY <1>1, <2>1, <2>2, <2>3 DEF FInv, TypeOK, Burning, Locking, ClosedOverKey
<1>4. CASE ctrl = "busy" /\ pc = "done"
  <2>1. addr \notin Words /\ otp \in Keys
    BY <1>4, KeysAssumption DEF FInv, Locking, Words, Lock
  <2>2. otp' = otp /\ config' \in {config, "closed"}
    BY <1>4, <2>1 DEF Off, BurnSome
  <2> QED
    BY <1>1, <2>1, <2>2 DEF FInv, TypeOK, Burning, Locking, OneKey, PrefixOf, ClosedOverKey
<1> QED
  BY <1>2, <1>3, <1>4 DEF FInv, TypeOK

-----------------------------------------------------------------------------
(***************************************************************************)
(* FInv holds in every reachable state.                                    *)
(***************************************************************************)
THEOREM FusesInvariant == Spec => []FInv
<1>1. FInv /\ UNCHANGED vars => FInv'
  BY DEF vars, fuses, registers, FInv, TypeOK, Burning, Locking, OneKey, PrefixOf, ClosedOverKey
<1>2. FInv /\ Next => FInv'
  BY CheckFInv, StartBurnFInv, WriteWordFInv, WriteLockFInv, ControllerFInv, OffFInv
     DEF Next, Program
<1> QED
  BY InitFInv, <1>1, <1>2, PTL DEF Spec

(***************************************************************************)
(* Whatever was cut short and tried again, the words that are burnt are    *)
(* the beginning of a single key.                                          *)
(***************************************************************************)
THEOREM BurnsOneKey == Spec => []OneKey
BY FusesInvariant, PTL DEF FInv

(***************************************************************************)
(* The configuration is closed only over a complete key.                   *)
(***************************************************************************)
THEOREM ClosesOverKey == Spec => []ClosedOverKey
BY FusesInvariant, PTL DEF FInv

-----------------------------------------------------------------------------
\* The updater is past its check, or will not pass it: nothing is burnt any more.
Stuck == config = "open" /\ otp # Blank /\ ctrl = "idle" /\ pc \in {"off", "check", "done"}

LEMMA StuckStep ==
    ASSUME FInv, Stuck, [Next]_vars PROVE Stuck'
<1>1. CASE Refuse \/ \E k \in Keys \cup {None} : PowerOn(k)
  BY <1>1 DEF Refuse, PowerOn, Stuck, fuses, registers, Blank
<1>2. ~StartBurn
  BY DEF StartBurn, MayBurn, Stuck, FInv
<1>3. ~WriteWord /\ ~WriteLock /\ ~Controller
  BY DEF WriteWord, WriteLock, Controller, Burnt, BurnFails, Stuck
<1>4. CASE Off
  BY <1>4 DEF Off, Stuck, fuses, Blank
<1>5. CASE UNCHANGED vars
  BY <1>5 DEF vars, fuses, registers, Stuck, Blank
<1> QED
  BY <1>1, <1>2, <1>3, <1>4, <1>5 DEF Next, Program

(***************************************************************************)
(* A burn that was cut short after its first bit is never completed, with  *)
(* whatever key file the updater is started again: the phone stays open.   *)
(***************************************************************************)
THEOREM CutShortStaysOpen == Spec => StaysOpen
<1>1. FInv /\ CutShort => Stuck
  BY DEF FInv, CutShort, Stuck
<1>2. FInv /\ Stuck /\ [Next]_vars => Stuck'
  BY StuckStep
<1>3. Stuck => config = "open"
  BY DEF Stuck
<1> QED
  BY <1>1, <1>2, <1>3, FusesInvariant, PTL DEF Spec, StaysOpen
=============================================================================
