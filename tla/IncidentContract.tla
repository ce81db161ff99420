--------------------------- MODULE IncidentContract ---------------------------
(***************************************************************************)
(* What the incident subsystem promises its readers.  The incidents of a   *)
(* (dataset, rule) key form a history in which only the newest can be      *)
(* active; an active incident moves OPEN -> ACKNOWLEDGED -> RESOLVED and   *)
(* never back, a resolved one is never touched again, and every visible    *)
(* change of a key is one of the four events of incident_events.  Several  *)
(* keys may change at once.  Nothing here knows of transactions, locks,    *)
(* reconcilers or crashes.                                                 *)
(***************************************************************************)
EXTENDS Naturals, Sequences

CONSTANT Keys

VARIABLE history    \* key -> statuses and occurrence counts of its incidents, oldest first

\* The newest incident of the key is still active.
Live(k) ==
  /\ history[k] # <<>>
  /\ history[k][Len(history[k])].status \in {"OPEN", "ACKNOWLEDGED"}

Init == history = [k \in Keys |-> <<>>]

Open(k) ==
  /\ ~Live(k)
  /\ history'[k] = Append(history[k], [status |-> "OPEN", occurrences |-> 1])

ObserveAgain(k) ==
  /\ Live(k)
  /\ history'[k] = [history[k] EXCEPT ![Len(history[k])].occurrences = @ + 1]

Acknowledge(k) ==
  /\ Live(k) /\ history[k][Len(history[k])].status = "OPEN"
  /\ history'[k] = [history[k] EXCEPT ![Len(history[k])].status = "ACKNOWLEDGED"]

Resolve(k) ==
  /\ Live(k)
  /\ history'[k] = [history[k] EXCEPT ![Len(history[k])].status = "RESOLVED"]

Next ==
  /\ DOMAIN history' = Keys
  /\ \A k \in Keys : \/ history'[k] = history[k]
                     \/ Open(k) \/ ObserveAgain(k) \/ Acknowledge(k) \/ Resolve(k)

Spec == Init /\ [][Next]_history
===============================================================================
