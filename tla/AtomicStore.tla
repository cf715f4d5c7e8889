---------------------------- MODULE AtomicStore ----------------------------
(***************************************************************************)
(* What a unit of work promises, with no lock, no queue of commands and no *)
(* cancellation: one unit of work is open at a time; its writes become     *)
(* part of the store in one step, all of them, or never; and what its      *)
(* caller is told of it is true.  A caller that is cancelled is told       *)
(* nothing, and its unit of work may still be stored or dropped.           *)
(***************************************************************************)
CONSTANTS Clients

VARIABLES phase,  \* where the unit of work of a client is
          told    \* what the client was told of it

storeVars == <<phase, told>>

\* "idle": nothing of it is stored; "clean" and "dirty": open, without and with
\* writes; "stored" and "dropped": what became of its writes.
Phase == {"idle", "clean", "dirty", "stored", "dropped"}
Open == {"clean", "dirty"}

StoreInit ==
  /\ phase = [t \in Clients |-> "idle"]
  /\ told = [t \in Clients |-> "none"]

\* The client does not rely on what becomes of its unit of work any more.
Settled(t) == told[t] \in {"committed", "undone"}

Becomes(t, p) ==
  /\ phase' = [phase EXCEPT ![t] = p]
  /\ UNCHANGED told

Begin(t) ==
  /\ ~Settled(t)
  /\ phase[t] = "idle" /\ \A u \in Clients : phase[u] \notin Open
  /\ Becomes(t, "clean")

Change(t) == ~Settled(t) /\ phase[t] \in Open /\ Becomes(t, "dirty")

Commit(t) ==
  /\ ~Settled(t)
  /\ phase[t] \in Open
  /\ Becomes(t, IF phase[t] = "dirty" THEN "stored" ELSE "idle")

Abort(t) ==
  /\ ~Settled(t)
  /\ phase[t] \in Open
  /\ Becomes(t, IF phase[t] = "dirty" THEN "dropped" ELSE "idle")

\* A client is told once.  One that is told of a commit has its writes in the
\* store; one that is told that nothing was done may have left its unit of work
\* open for good, but not in the store.
Tell(t, how) ==
  /\ told[t] = "none"
  /\ how = "committed" => phase[t] \in {"idle", "stored"}
  /\ how = "undone" => phase[t] # "stored"
  /\ told' = [told EXCEPT ![t] = how]
  /\ UNCHANGED phase

StoreNext ==
  \E t \in Clients :
    \/ Begin(t) \/ Change(t) \/ Commit(t) \/ Abort(t)
    \/ \E how \in {"committed", "undone", "cancelled"} : Tell(t, how)

StoreSpec == StoreInit /\ [][StoreNext]_storeVars
=============================================================================
