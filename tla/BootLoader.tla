----------------------------- MODULE BootLoader -----------------------------
(***************************************************************************)
(* What ecoboot_update promises to update_firmware, which Updater takes as *)
(* the steps of its variable flash: after a success, and until the next    *)
(* run, the boot partition holds the boot loader of the package, and its   *)
(* file goes only then; a failure promises nothing but the file.           *)
(***************************************************************************)
VARIABLES
    flashed,  \* the boot partition holds the boot loader of this run
    there,    \* ecoboot.bin is still in /os/current
    outcome   \* "off", "running", "ok" or "failed"

bootvars == <<flashed, there, outcome>>

Init == flashed = FALSE /\ there = FALSE /\ outcome = "off"

\* A run installs a boot loader; it may be the one that is there already.
Start ==
    /\ outcome = "off" /\ outcome' = "running"
    /\ flashed' \in BOOLEAN /\ there' = TRUE

Write ==
    /\ outcome = "running"
    /\ flashed' \in BOOLEAN
    /\ UNCHANGED <<there, outcome>>

Succeed ==
    /\ outcome = "running" /\ flashed
    /\ outcome' = "ok" /\ there' \in {there, FALSE}
    /\ UNCHANGED flashed

Fail ==
    /\ outcome = "running" /\ outcome' = "failed"
    /\ flashed' \in BOOLEAN
    /\ UNCHANGED there

\* What is written to other files after a failure can end up in the boot partition.
Spoil ==
    /\ outcome = "failed" /\ flashed' = FALSE
    /\ UNCHANGED <<there, outcome>>

PowerOff ==
    /\ outcome # "off" /\ outcome' = "off"
    /\ outcome = "running" => flashed' \in BOOLEAN
    /\ outcome # "running" => UNCHANGED flashed
    /\ UNCHANGED there

Next == Start \/ Write \/ Succeed \/ Fail \/ Spoil \/ PowerOff

Spec == Init /\ [][Next]_bootvars
=============================================================================
