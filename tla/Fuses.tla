------------------------------- MODULE Fuses -------------------------------
(***************************************************************************)
(* program_keys of pgmkeys.c, and burn_efuse_word of security.c under it,  *)
(* over the one-time programmable words of the fuse controller: a bit that *)
(* is burnt stays so.  The controller works on its own after a write, can  *)
(* fail, and loses what it was about when the power goes.  The updater     *)
(* reads shadow registers, which are loaded from the fuses at power on.    *)
(* Updater sees all this as its variable otp.                              *)
(***************************************************************************)
EXTENDS Integers, SequencesExt

CONSTANTS
    NWords,    \* length of srk[] in struct sec_srk_key, 8 in the code
    Bits,      \* bit positions of a word; a word is the set of its ones
    Keys,      \* the key files whose size and checksum are right
    None,      \* no such file, or one that is refused
    MaxBoots   \* bound: how many times the updater is started

Words == 1..NWords
Lock == NWords + 1   \* the address that sec_lock_bootloader writes

ASSUME KeysAssumption ==
    /\ NWords \in Nat \ {0} /\ MaxBoots \in Nat
    /\ Keys \subseteq [Words -> SUBSET Bits] /\ None \notin Keys

VARIABLES
    otp,     \* the SRK words, as burnt
    config,  \* the security configuration, as burnt: "open" or "closed"
    shadow, shadowConfig,   \* both as the registers show them
    ctrl,    \* the flags BUSY and ERROR: "idle", "busy" or "error"
    addr,    \* the address the controller was last given
    file,    \* the key file that is there
    pc,      \* "off", "check", "burn" or "done"
    keys, n, \* locals of sec_burn_srk_keys: the file read, the next word
    boots    \* number of starts so far

fuses == <<otp, config>>
registers == <<shadow, shadowConfig, ctrl, addr>>
vars == <<fuses, registers, file, pc, keys, n, boots>>

Blank == [i \in Words |-> {}]

Init ==
    /\ otp = Blank /\ config = "open"
    /\ shadow = Blank /\ shadowConfig = "open" /\ ctrl = "idle" /\ addr = Lock
    /\ file = None /\ pc = "off" /\ keys = Blank /\ n = 1 /\ boots = 0

\* The updater runs again, with the key file of before or with another one.
PowerOn(k) ==
    /\ pc = "off" /\ boots < MaxBoots
    /\ shadow' = otp /\ shadowConfig' = config /\ ctrl' = "idle"
    /\ file' = k /\ pc' = "check" /\ boots' = boots + 1
    /\ UNCHANGED <<fuses, addr, keys, n>>

\* Fuses that are closed or not blank, no file or a wrong one.  The file is
\* unlinked unless program_keys_is_needed has said no.
MayBurn == shadowConfig = "open" /\ shadow = Blank /\ file # None

Refuse ==
    /\ pc = "check" /\ ~MayBurn
    /\ file' \in {file, None} /\ pc' = "done"
    /\ UNCHANGED <<fuses, registers, keys, n, boots>>

\* Mutant: words that were burnt by an earlier run are not looked at.
MutStartBurn ==
    /\ pc = "check" /\ shadowConfig = "open" /\ file # None
    /\ keys' = file /\ n' = 1 /\ pc' = "burn"
    /\ UNCHANGED <<fuses, registers, file, boots>>

StartBurn ==
    /\ pc = "check" /\ MayBurn
    /\ keys' = file /\ n' = 1 /\ pc' = "burn"
    /\ UNCHANGED <<fuses, registers, file, boots>>

\* Mutant: only BUSY is waited for.
MutWaitOver == ctrl # "busy"

\* burn_efuse_word waits for both flags to clear.
WaitOver == ctrl = "idle"

\* Mutant: the word is written again and again.
MutWriteWord ==
    /\ pc = "burn" /\ n <= NWords /\ WaitOver
    /\ ctrl' = "busy" /\ addr' = n
    /\ UNCHANGED <<fuses, shadow, shadowConfig, file, pc, keys, n, boots>>

WriteWord ==
    /\ pc = "burn" /\ n <= NWords /\ WaitOver
    /\ ctrl' = "busy" /\ addr' = n /\ n' = n + 1
    /\ UNCHANGED <<fuses, shadow, shadowConfig, file, pc, keys, boots>>

\* sec_lock_bootloader, and the unlink of the key files by the caller.
WriteLock ==
    /\ pc = "burn" /\ n > NWords /\ WaitOver
    /\ ctrl' = "busy" /\ addr' = Lock
    /\ file' \in {file, None} /\ pc' = "done"
    /\ UNCHANGED <<fuses, shadow, shadowConfig, keys, n, boots>>

-----------------------------------------------------------------------------
\* The controller burns what it was given: all of it, or, when it fails or
\* the power goes, any part.
BurnAll ==
    IF addr \in Words
    THEN otp' = [otp EXCEPT ![addr] = @ \cup keys[addr]] /\ UNCHANGED config
    ELSE config' = "closed" /\ UNCHANGED otp

BurnSome ==
    IF addr \in Words
    THEN /\ \E part \in SUBSET keys[addr] : otp' = [otp EXCEPT ![addr] = @ \cup part]
         /\ UNCHANGED config
    ELSE config' \in {config, "closed"} /\ UNCHANGED otp

Burnt ==
    /\ ctrl = "busy" /\ pc # "off"
    /\ BurnAll /\ ctrl' = "idle"
    /\ UNCHANGED <<shadow, shadowConfig, addr, file, pc, keys, n, boots>>

BurnFails ==
    /\ ctrl = "busy" /\ pc # "off"
    /\ BurnSome /\ ctrl' = "error"
    /\ UNCHANGED <<shadow, shadowConfig, addr, file, pc, keys, n, boots>>

\* The power goes, or the updater resets the system when it is done.
Off ==
    /\ pc # "off"
    /\ IF ctrl = "busy" THEN BurnSome ELSE UNCHANGED fuses
    /\ ctrl' = "idle" /\ pc' = "off"
    /\ UNCHANGED <<shadow, shadowConfig, addr, file, keys, n, boots>>

Program == Refuse \/ StartBurn \/ WriteWord \/ WriteLock
Controller == Burnt \/ BurnFails

Next == Program \/ Controller \/ Off \/ \E k \in Keys \cup {None} : PowerOn(k)

Spec == Init /\ [][Next]_vars

\* The updater runs while the power is on, and the controller ends what it began.
FairSpec == Spec /\ WF_vars(Program) /\ WF_vars(Controller)
-----------------------------------------------------------------------------
TypeOK ==
    /\ otp \in [Words -> SUBSET Bits] /\ shadow \in [Words -> SUBSET Bits]
    /\ config \in {"open", "closed"} /\ shadowConfig \in {"open", "closed"}
    /\ ctrl \in {"idle", "busy", "error"} /\ addr \in 1..Lock
    /\ file \in Keys \cup {None} /\ pc \in {"off", "check", "burn", "done"}
    /\ keys \in Keys \cup {Blank} /\ n \in 1..(NWords + 1) /\ boots \in 0..MaxBoots

(***************************************************************************)
(* Whatever was interrupted and tried again with another file, what is     *)
(* burnt is the beginning of one key: a word is touched only after those   *)
(* before it are complete.  Words of two keys would leave a phone that no  *)
(* signature fits.                                                         *)
(***************************************************************************)
PrefixOf(k) ==
    \A i \in Words :
        /\ otp[i] \subseteq k[i]
        /\ otp[i] # {} => \A j \in 1..(i - 1) : otp[j] = k[j]

OneKey == otp = Blank \/ \E k \in Keys : PrefixOf(k)

(***************************************************************************)
(* The configuration is closed only over a complete key, although nothing  *)
(* reads the words back before sec_lock_bootloader: the wait for ERROR to  *)
(* clear, which it never does, is what keeps a failed word from it.        *)
(***************************************************************************)
ClosedOverKey == config = "closed" => otp \in Keys

(***************************************************************************)
(* A burn that was cut short after its first bit is never completed: the   *)
(* words that are not zero count as programmed keys, and the phone stays   *)
(* open for good.                                                          *)
(***************************************************************************)
CutShort == pc = "off" /\ config = "open" /\ otp # Blank
StaysOpen == [](CutShort => [](config = "open"))

\* Burning ends, unless the controller reports an error.
BurnEnds == pc = "burn" ~> pc # "burn" \/ ctrl = "error"

-----------------------------------------------------------------------------
\* What is known of the fuses while they are burnt: the words before n - 1 are
\* complete, n - 1 is what the controller works on, the others are blank.
Burning ==
    pc = "burn" =>
        /\ keys \in Keys /\ config = "open"
        /\ \A i \in Words : (i + 1 < n => otp[i] = keys[i]) /\ (i >= n => otp[i] = {})
        /\ ctrl # "idle" => n > 1 /\ addr = n - 1
        /\ n > 1 => /\ ctrl = "idle" => otp[n - 1] = keys[n - 1]
                    /\ ctrl = "busy" => otp[n - 1] = {}
                    /\ ctrl = "error" => otp[n - 1] \subseteq keys[n - 1]

\* When only the bit that closes the configuration is left to burn.
Locking ==
    pc = "done" /\ ctrl # "idle" => addr = Lock /\ otp \in Keys

FInv ==
    /\ TypeOK /\ Burning /\ Locking /\ OneKey /\ ClosedOverKey
    /\ pc \in {"off", "check"} => ctrl = "idle"
    /\ pc = "check" => shadow = otp /\ shadowConfig = config
=============================================================================
