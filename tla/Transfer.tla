------------------------------ MODULE Transfer ------------------------------
(***************************************************************************)
(* A transfer of the eMMC driver: MMC_Transfer with its retries,           *)
(* SDMMCHOST_TransferFunction, the wait for the completion event and the   *)
(* recovery after an error, against the interrupt of the host controller   *)
(* that counts the event up.  The wait looks at the counter of             *)
(* milliseconds that msleep looks at too; the program does one or the      *)
(* other.  A line of the controller is in flight until the card has        *)
(* answered or the line is reset, and the card may never answer.           *)
(***************************************************************************)
EXTENDS Delay

CONSTANTS
    Timeout,  \* SDMMCHOST_TRANSFER_COMPLETE_TIMEOUT
    Retries   \* the retries the callers of MMC_Transfer ask for

ASSUME TransferAssumption == Timeout \in 2..Max /\ Retries \subseteq Nat

Kinds == {"command", "data"}    \* whether content->data is NULL
Status == {"success", "fail"}   \* status_t, and the flag that is set from one

VARIABLES
    at,       \* where the program is in the transfer
    kind, retry,
    pvT,      \* _pv of SDMMCEVENT_Wait
    event,    \* event_sync
    got,      \* what event_sync-- has read
    success,  \* g_usdhcTransferSuccessFlag
    error,    \* what MMC_Transfer is given back
    cmdSeen, datSeen, \* what USDHC_GetPresentStatusFlags showed of the lines
    cmd, dat, \* the lines: "free", in flight for this attempt ("mine") or for
              \* an earlier one ("old"); "held" is a card that signals busy
    own,      \* history: how this attempt was completed, "spoilt" when its data
              \* came well after a response that had an error
    came,     \* history: "early" is at least two ticks before the timeout
    lag       \* ticks in this turn of the loop

transfer == <<at, kind, retry, pvT, event, got, success, error, cmdSeen, datSeen, cmd, dat,
              own, came, lag>>

allvars == <<vars, transfer>>

TInit ==
    /\ Init
    /\ at = "idle" /\ kind = "command" /\ retry = 0 /\ pvT = 0
    /\ event = 0 /\ got = 0 /\ success = "success" /\ error = "success"
    /\ cmdSeen = "free" /\ datSeen = "free" /\ cmd = "free" /\ dat = "free" /\ own = "none" /\ came = "late" /\ lag = 0
-----------------------------------------------------------------------------
MMC_Transfer(k, n) ==
    /\ at = "idle" /\ pc = "idle"
    /\ at' = "send" /\ kind' = k /\ retry' = n
    /\ UNCHANGED <<pvT, event, got, success, error, cmdSeen, datSeen, cmd, dat, own,
                   came, lag>>

Inhibited == IF kind = "data" THEN dat # "free" ELSE cmd # "free"

Aged(line) == IF line = "mine" THEN "old" ELSE line

\* The loop around USDHC_TransferNonBlocking has no limit.  USDHC_SendCommand
\* sends nothing while the command line is inhibited, and does not say so.
Send ==
    /\ at = "send" /\ ~Inhibited
    /\ cmd' = IF cmd = "free" THEN "mine" ELSE Aged(cmd)
    /\ dat' = IF cmd = "free" /\ kind = "data" THEN "mine" ELSE Aged(dat)
    /\ own' = "none" /\ came' = "late" /\ error' = "success"
    /\ at' = "start" /\ lag' = 0
    /\ UNCHANGED <<kind, retry, pvT, event, got, success, cmdSeen, datSeen>>

\* Mutant: the wait starts by discarding what has been notified.
MutWaitStart ==
    /\ at = "start"
    /\ pvT' = jiffies
    /\ event' = 0
    /\ at' = "while" /\ lag' = 0
    /\ UNCHANGED <<kind, retry, got, success, error, cmdSeen, datSeen, cmd, dat,
                   own, came>>

WaitStart ==
    /\ at = "start"
    /\ pvT' = jiffies
    /\ at' = "while" /\ lag' = 0
    /\ UNCHANGED <<kind, retry, event, got, success, error, cmdSeen, datSeen, cmd,
                   dat, own, came>>

Deadline == (pvT + Timeout) % (Max + 1)

\* The condition of the loop; after it SDMMCEVENT_Wait returns false whatever
\* event_sync is.
WaitWhile ==
    /\ at = "while"
    /\ at' = IF jiffies < Deadline THEN "poll" ELSE "recover"
    /\ lag' = 0
    /\ UNCHANGED <<kind, retry, pvT, event, got, success, error, cmdSeen, datSeen,
                   cmd, dat, own, came>>

WaitPoll ==
    /\ at = "poll"
    /\ at' = IF event > 0 THEN "take" ELSE "while"
    /\ UNCHANGED <<kind, retry, pvT, event, got, success, error, cmdSeen, datSeen,
                   cmd, dat, own, came, lag>>

\* event_sync-- reads and then writes: a notification in between is lost.
WaitTake ==
    /\ at = "take"
    /\ got' = event
    /\ at' = "store" /\ lag' = 0
    /\ UNCHANGED <<kind, retry, pvT, event, success, error, cmdSeen, datSeen, cmd,
                   dat, own, came>>

WaitStore ==
    /\ at = "store"
    /\ event' = got - 1 /\ got' = 0
    /\ at' = "judge" /\ lag' = 0
    /\ UNCHANGED <<kind, retry, pvT, success, error, cmdSeen, datSeen, cmd, dat,
                   own, came>>

Judge ==
    /\ at = "judge"
    /\ at' = IF success = "success" THEN "delete" ELSE "recover"
    /\ lag' = 0
    /\ UNCHANGED <<kind, retry, pvT, event, got, success, error, cmdSeen, datSeen,
                   cmd, dat, own, came>>
-----------------------------------------------------------------------------
\* The present status is read once, for both lines.
ErrorRecovery ==
    /\ at = "recover"
    /\ error' = "fail"
    /\ cmdSeen' = cmd /\ datSeen' = dat
    /\ at' = "resetCommand" /\ lag' = 0
    /\ UNCHANGED <<kind, retry, pvT, event, got, success, cmd, dat, own, came>>

\* Mutant: the command line is left as it is.
MutResetCommand ==
    /\ at = "resetCommand"
    /\ at' = "resetData" /\ lag' = 0
    /\ UNCHANGED <<kind, retry, pvT, event, got, success, error, cmdSeen, datSeen,
                   cmd, dat, own, came>>

ResetCommand ==
    /\ at = "resetCommand"
    /\ cmd' = IF cmdSeen # "free" THEN "free" ELSE cmd
    /\ at' = "resetData" /\ lag' = 0
    /\ UNCHANGED <<kind, retry, pvT, event, got, success, error, cmdSeen, datSeen,
                   dat, own, came>>

\* Mutant: the data line is left as it is.
MutResetData ==
    /\ at = "resetData"
    /\ cmdSeen' = "free" /\ datSeen' = "free"
    /\ at' = "delete" /\ lag' = 0
    /\ UNCHANGED <<kind, retry, pvT, event, got, success, error, cmd, dat, own, came>>

ResetData ==
    /\ at = "resetData"
    /\ dat' = IF datSeen # "free" THEN "free" ELSE dat
    /\ cmdSeen' = "free" /\ datSeen' = "free"
    /\ at' = "delete" /\ lag' = 0
    /\ UNCHANGED <<kind, retry, pvT, event, got, success, error, cmd, own, came>>

\* Mutant: what came too late is left for the next wait.
MutDelete ==
    /\ at = "delete"
    /\ at' = "return" /\ lag' = 0
    /\ UNCHANGED <<kind, retry, pvT, event, got, success, error, cmdSeen, datSeen,
                   cmd, dat, own, came>>

Delete ==
    /\ at = "delete"
    /\ event' = 0
    /\ at' = "return" /\ lag' = 0
    /\ UNCHANGED <<kind, retry, pvT, got, success, error, cmdSeen, datSeen, cmd,
                   dat, own, came>>

\* The while of MMC_Transfer.
Return ==
    /\ at = "return"
    /\ pvT' = 0 /\ lag' = 0
    /\ \/ /\ error = "fail" /\ retry > 0
          /\ at' = "send" /\ retry' = retry - 1
          /\ UNCHANGED <<kind, error, own, came>>
       \/ /\ error = "success" \/ retry = 0
          /\ at' = "idle" /\ retry' = 0 /\ kind' = "command"
          /\ error' = "success" /\ own' = "none" /\ came' = "late"
    /\ UNCHANGED <<event, got, success, cmdSeen, datSeen, cmd, dat>>

Driver ==
    \/ Send \/ WaitStart \/ WaitWhile \/ WaitPoll \/ WaitTake \/ WaitStore
    \/ Judge \/ ErrorRecovery \/ ResetCommand \/ ResetData \/ Delete \/ Return
-----------------------------------------------------------------------------
\* SDMMCHOST_TransferCompleteCallback, for what came in over a line.
Complete(line, status) ==
    /\ event' = event + 1 /\ success' = status
    /\ own' = IF line # "mine" THEN own
              ELSE IF status = "fail" THEN "bad"
              ELSE IF own = "bad" THEN "spoilt" ELSE "ok"
    /\ came' = IF /\ line = "mine"
                  /\ \/ at = "start"
                     \/ at \in {"while", "poll"} /\ jiffies + 2 <= pvT + Timeout
               THEN "early" ELSE came

\* The end of a command.  With data to follow only a response that has an
\* error flag completes the transfer; one that got lost goes unnoticed.
Response(status) ==
    /\ cmd # "free" /\ cmd' = "free"
    /\ kind = "data" => status = "fail"
    /\ Complete(cmd, status)
    /\ \/ dat' = dat
       \/ status = "success" /\ dat = "free" /\ dat' = "held"
    /\ UNCHANGED <<at, kind, retry, pvT, got, error, cmdSeen, datSeen, lag>>

ResponseBeforeData ==
    /\ cmd # "free" /\ cmd' = "free"
    /\ kind = "data"
    /\ UNCHANGED <<at, kind, retry, pvT, event, got, success, error, cmdSeen,
                   datSeen, dat, own, came, lag>>

DataEnd(status) ==
    /\ dat \in {"mine", "old"} /\ cmd # dat
    /\ dat' = "free"
    /\ Complete(dat, status)
    /\ UNCHANGED <<at, kind, retry, pvT, got, error, cmdSeen, datSeen, cmd, lag>>

\* A card that held the data line after a command lets go of it.
Release ==
    /\ dat = "held" /\ dat' = "free"
    /\ UNCHANGED <<at, kind, retry, pvT, event, got, success, error, cmdSeen,
                   datSeen, cmd, own, came, lag>>

Host ==
    \/ \E status \in Status : Response(status) \/ DataEnd(status)
    \/ ResponseBeforeData \/ Release

\* A turn of the loop, and any other step, takes less than a millisecond.
TTick ==
    /\ at \in {"idle", "send"} \/ lag = 0
    /\ Tick
    /\ lag' = IF at \in {"idle", "send"} THEN 0 ELSE 1
    /\ UNCHANGED <<at, kind, retry, pvT, event, got, success, error, cmdSeen,
                   datSeen, cmd, dat, own, came>>

Sleep == at = "idle" /\ ((\E d \in Delays : Call(d)) \/ Program \/ Wake) /\ UNCHANGED transfer

Move ==
    /\ (\E k \in Kinds, n \in Retries : MMC_Transfer(k, n)) \/ Driver \/ Host
    /\ UNCHANGED vars

TNext == Sleep \/ Move \/ TTick

\* The processor goes on executing and the timer goes on ticking.  Nothing is
\* assumed of the card.
TSpec ==
    /\ TInit /\ [][TNext]_allvars
    /\ WF_allvars(TTick) /\ WF_allvars(Sleep /\ Program) /\ WF_allvars(Move /\ Driver)
-----------------------------------------------------------------------------
TTypeOK ==
    /\ at \in {"idle", "send", "start", "while", "poll", "take", "store", "judge",
               "recover", "resetCommand", "resetData", "delete", "return"}
    /\ kind \in Kinds /\ retry \in Nat /\ pvT \in 0..Max
    /\ event \in 0..2 /\ got \in 0..2 /\ success \in Status /\ error \in Status
    /\ cmd \in {"free", "mine", "old"} /\ dat \in {"free", "mine", "old", "held"}
    /\ cmdSeen \in {"free", "mine", "old"} /\ datSeen \in {"free", "mine", "old", "held"}
    /\ own \in {"none", "bad", "ok", "spoilt"} /\ came \in {"late", "early"} /\ lag \in 0..1

\* Nothing of an earlier attempt is in flight, and what is can still complete
\* this one only as often as event_sync has room for.
Flight ==
    /\ cmd # "old" /\ dat # "old"
    /\ dat = "mine" => kind = "data"
    /\ cmd = "mine" /\ dat = "mine" => event = 0
    /\ cmd = "mine" \/ dat = "mine" => event <= 1
    /\ own \in {"ok", "spoilt"} => cmd = "free" /\ dat # "mine"

\* Between two attempts nothing is in flight and nothing is notified.
NothingLeft ==
    /\ at \in {"idle", "send", "return"} => event = 0
    /\ at \in {"idle", "send", "delete", "return"} => cmd = "free" /\ dat # "mine"
    /\ at = "resetCommand" /\ cmd = "mine" => cmdSeen # "free"
    /\ at \in {"resetCommand", "resetData"} /\ dat = "mine" => datSeen # "free"
    /\ at = "resetData" => cmd = "free"

\* What the driver has taken is the completion of this attempt.
Taken ==
    /\ at \in {"start", "while", "poll", "take", "store"} =>
         /\ event > 0 => own # "none"
         /\ came = "early" => event > 0
    /\ at \notin {"idle", "send", "return"} /\ own # "none" =>
         (success = "success" <=> own \in {"ok", "spoilt"})
    /\ at = "take" => event > 0
    /\ at = "store" => 0 < got /\ got <= event /\ own # "none"
    /\ at = "judge" => own # "none"
    /\ at \in {"delete", "return"} /\ error = "success" => own \in {"ok", "spoilt"}
    /\ at \in {"resetCommand", "resetData"} => error = "fail"

\* A completion in time leaves the loop a turn in which to see it.
InTurn ==
    came = "early" /\ at = "while" /\ pvT + Timeout <= Max => jiffies + 2 <= pvT + Timeout + lag

HostInv ==
    /\ TTypeOK
    /\ at # "idle" => pc = "idle"
    /\ Flight /\ NothingLeft /\ Taken /\ InTurn

(***************************************************************************)
(* What holds in every state of a transfer: above all, that when one has   *)
(* returned neither the lines nor the event hold anything of it that the   *)
(* next could take for its own.  fsl_sdmmc_host.c:136-178.                 *)
(***************************************************************************)
TInv == DInv /\ HostInv

(***************************************************************************)
(* An attempt that is reported as done was completed by its own command or *)
(* its own data, never by what was left of an attempt that timed out.      *)
(* fsl_sdmmc_host.c:131-159 and the retry of MMC_Transfer.                 *)
(***************************************************************************)
OwnCompletion == at = "return" /\ error = "success" => own \in {"ok", "spoilt"}

(***************************************************************************)
(* The wait does not miss a completion that comes at least two ticks       *)
(* before the timeout, however it falls between the reading of the time    *)
(* and of the event, unless the end of the wait is past the wrap of the    *)
(* counter.  fsl_sdmmc_event.c:71-91.                                      *)
(***************************************************************************)
NotMissed ==
    [][at = "while" /\ at' = "recover" /\ pvT + Timeout <= Max => came # "early"]_allvars

(***************************************************************************)
(* Once its command is sent a transfer returns, with all of its retries,   *)
(* whether the card ever answers or not: no retry finds a line inhibited.  *)
(* fsl_sdmmc_host.c:131-136, fsl_mmc.c:496-535.                            *)
(***************************************************************************)
TransferEnds == at = "start" ~> at = "idle"
=============================================================================
