-------------------------- MODULE MCDeliveryQueue --------------------------
(***************************************************************************)
(* Instances of DeliveryQueue for TLC.  The clock runs from 0 to Horizon.  *)
(***************************************************************************)
EXTENDS DeliveryQueue, TLC

CONSTANTS x, y, q, Horizon

Ticks == 0 .. Horizon

\* Entries are due at a tick, or one backoff after it.
EntryDocs == [attempts : 0 .. MaxAttempts - 1, next : 0 .. Horizon + MaxBackoff]

\* Every slot may touch every entry: the queue has one entry per activity.
AllIds == [p \in Callers |-> Ids]
Placed == [id \in Ids |-> {{q}}]
=============================================================================
