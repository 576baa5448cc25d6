--------------------------- MODULE DurableLedger ---------------------------
(***************************************************************************)
(* What durable cleanup promises, without goroutines, snapshots, versions  *)
(* or messages (docs/cleanup-recovery.md).  A ledger lists the create      *)
(* attempts of a task before they may have an effect, is closed once no    *)
(* further one can follow, and is thrown away only when it is closed and   *)
(* every listed attempt is settled.  LifecycleRecovery implements it.      *)
(***************************************************************************)
CONSTANT Attempts

VARIABLES
  ledger,   \* absent, open, closed, removed
  listed,   \* the attempts in the ledger
  settled,  \* the listed attempts known to have no effect any more
  live      \* the attempts whose object exists or may still appear

ledgerVars == <<ledger, listed, settled, live>>

Init == ledger = "absent" /\ listed = {} /\ settled = {} /\ live = {}

Open ==
  /\ ledger = "absent" /\ ledger' = "open"
  /\ UNCHANGED <<listed, settled, live>>

(* A writer saves what it knows; closing is part of that. *)
Write ==
  /\ ledger \in {"open", "closed"}
  /\ ledger' \in {ledger, "closed"}
  /\ listed' \in SUBSET Attempts /\ listed \subseteq listed'
  /\ ledger = "closed" => listed' = listed
  /\ settled' \in SUBSET listed' /\ settled \subseteq settled'
  /\ settled' \cap live = {}
  /\ UNCHANGED live

(* A create is sent. *)
Start(a) ==
  /\ ledger = "open"
  /\ a \in listed \ settled
  /\ live' = live \cup {a}
  /\ UNCHANGED <<ledger, listed, settled>>

(* The object is gone, or the create was refused. *)
End(a) ==
  /\ live' = live \ {a}
  /\ UNCHANGED <<ledger, listed, settled>>

Forget ==
  /\ ledger = "closed" /\ listed = settled
  /\ ledger' = "removed" /\ listed' = {} /\ settled' = {}
  /\ UNCHANGED live

Next == Open \/ Write \/ Forget \/ \E a \in Attempts : Start(a) \/ End(a)

Spec == Init /\ [][Next]_ledgerVars
=============================================================================
