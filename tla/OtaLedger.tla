----------------------------- MODULE OtaLedger -----------------------------
(***************************************************************************)
(* What the history of firmware updates promises (ota_updates, read by     *)
(* getOtaHistory and getLatestUpdate), without requests, handlers, client  *)
(* or broker: a job appears once, as PENDING, is never removed, and from   *)
(* then on shows a status its device has published for it.  A device       *)
(* announces the end of a job only after its start.                        *)
(***************************************************************************)
CONSTANTS Jobs, Final      \* job identifiers; the final statuses

VARIABLES
  ledger,      \* status shown for each job, "none" before it exists
  reported     \* the statuses published by the devices, <<job, status>>

vars == <<ledger, reported>>

Init == ledger = [j \in Jobs |-> "none"] /\ reported = {}

Create(j) == /\ ledger[j] = "none"
             /\ ledger' = [ledger EXCEPT ![j] = "PENDING"]
             /\ UNCHANGED reported

Say(j, s) == /\ ledger[j] # "none"
             /\ s \in Final => <<j, "IN_PROGRESS">> \in reported
             /\ reported' = reported \union {<<j, s>>}
             /\ UNCHANGED ledger

Record(j, s) == /\ ledger[j] # "none"
                /\ <<j, s>> \in reported
                /\ ledger' = [ledger EXCEPT ![j] = s]
                /\ UNCHANGED reported

Next == \E j \in Jobs :
          \/ Create(j)
          \/ \E s \in {"IN_PROGRESS"} \union Final : Say(j, s) \/ Record(j, s)

Spec == Init /\ [][Next]_vars
=============================================================================
