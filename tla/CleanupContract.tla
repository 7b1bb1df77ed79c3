-------------------------- MODULE CleanupContract --------------------------
(***************************************************************************)
(* What the cleaner promises the cluster, without saying how: the only     *)
(* thing it ever does to an object is to order its deletion, and it orders *)
(* the deletion of an object only while it holds the lease, while the      *)
(* object is there under the UID the order names, and on grounds that are  *)
(* Authorised.  No cycles, caches, batches, retries or receipts here.      *)
(*                                                                         *)
(* An order may be carried out late, twice or never, and by then the name  *)
(* may belong to another object; the contract has that too.                *)
(***************************************************************************)
EXTENDS Naturals

CONSTANTS
    Keys,           \* names of objects
    Absent,         \* what the store has under a name that is free
    Authorised(_)   \* the grounds of an order are sufficient

VARIABLES
    store,   \* the objects, by name
    next,    \* the next UID
    holder,  \* who holds the lease
    orders   \* orders that may still be carried out

vars == <<store, next, holder, orders>>

Init ==
    /\ store = [k \in Keys |-> Absent]
    /\ next = 1
    /\ orders = {}

\* The cleaner's only visible step.  o.mark tells which UIDs existed then.
Place(o) ==
    /\ o.by = holder
    /\ o.key \in Keys
    /\ store[o.key] # Absent
    /\ store[o.key].uid = o.obs.uid
    /\ o.mark = next
    /\ Authorised(o)
    /\ orders' = orders \cup {o}
    /\ UNCHANGED <<store, next, holder>>

\* The object under the name goes, or is marked and goes later.
CarryOut(o) ==
    /\ o \in orders
    /\ \E after \in {Absent, store[o.key]} \cup
                     {[x EXCEPT !.terminating = TRUE] :
                          x \in {store[o.key]} \ {Absent}} :
           store' = [store EXCEPT ![o.key] = after]
    /\ orders' \in {orders, orders \ {o}}
    /\ UNCHANGED <<next, holder>>

Withdraw(o) ==
    /\ orders' = orders \ {o}
    /\ UNCHANGED <<store, next, holder>>

\* Everyone else: objects come, change and go, each with a UID of its own.
World ==
    /\ \E k \in Keys :
           \/ /\ store[k] = Absent
              /\ store' = [store EXCEPT ![k] = store'[k]]
              /\ store'[k].uid = next
              /\ next' = next + 1
           \/ /\ store[k] # Absent
              /\ store' = [store EXCEPT ![k] = store'[k]]
              /\ store'[k] = Absent \/ store'[k].uid = store[k].uid
              /\ UNCHANGED next
    /\ UNCHANGED <<holder, orders>>

Handover == UNCHANGED <<store, next, orders>>

\* An order is placed where a step adds one.
Next ==
    \/ \E o \in orders' \ orders : Place(o)
    \/ \E o \in orders : CarryOut(o) \/ Withdraw(o)
    \/ World
    \/ Handover

Spec == Init /\ [][Next]_vars
=============================================================================
