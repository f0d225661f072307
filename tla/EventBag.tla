------------------------------- MODULE EventBag -------------------------------
(***************************************************************************)
(* What the pending-event queue of the engine promises, without its heap:  *)
(* a set of at most Cap events, from which a tick takes every event that   *)
(* is due, earliest first, and which at its limit gives up its weakest     *)
(* event for a stronger one and refuses a weaker one.                      *)
(*                                                                         *)
(* The choices the C code leaves to the layout of its array (which of two  *)
(* events due at the same tick comes first, which of two equally weak      *)
(* events is evicted, into which of two candidates an event is merged) are *)
(* nondeterministic here.  EventQueue implements this specification.       *)
(***************************************************************************)
EXTENDS Events

VARIABLES
  tick,    (* the engine's tick counter                                    *)
  phase,   (* "between" ticks, in the "drain" loop, or in it after a       *)
           (* delivery, when the target may "fire" and push more events    *)
  queue    (* the pending events                                           *)

vars == <<tick, phase, queue>>
-----------------------------------------------------------------------------
Init == /\ tick = 0
        /\ phase = "between"
        /\ queue = {}

(* A caller's event is lost when it is stale or too weak for a full queue. *)
Refuse(due, sig) ==
  /\ \/ Stale(due, tick)
     \/ /\ UsedIds(queue) = Ids
        /\ \E w \in queue : Weakest(queue, w) /\ Strength(sig) <= Strength(w.sig)
  /\ UNCHANGED queue

Insert(key, due, sig) ==
  /\ ~Stale(due, tick)
  /\ \E id \in Ids \ UsedIds(queue) :
       queue' = queue \cup {[id |-> id, key |-> key, due |-> due, sig |-> sig]}

Evict(key, due, sig) ==
  /\ ~Stale(due, tick)
  /\ UsedIds(queue) = Ids
  /\ \E w \in queue :
       /\ Weakest(queue, w)
       /\ Strength(sig) > Strength(w.sig)
       /\ queue' = (queue \ {w}) \cup
                     {[id |-> w.id, key |-> key, due |-> due, sig |-> sig]}

Push(key, due, sig) ==
  Refuse(due, sig) \/ Insert(key, due, sig) \/ Evict(key, due, sig)

Merge(key, due, sig) ==
  \E ev \in queue :
    /\ Mergeable(ev, key, due)
    /\ queue' = (queue \ {ev}) \cup {Combine(ev, due, sig)}

(* Between ticks a caller activates a node, or injects an edge's event:    *)
(* due at once and not merged itself.  What the edge sends later may merge *)
(* with an injected event.                                                 *)
Activate(key, sig) ==
  /\ phase = "between"
  /\ Push(key, tick, sig)
  /\ UNCHANGED <<tick, phase>>

(* While a tick runs, the node that just fired sends along its edges.      *)
Emit(key, delay, sig) ==
  /\ phase = "fire"
  /\ \/ Merge(key, tick + delay, sig)
     \/ /\ \A ev \in queue : ~Mergeable(ev, key, tick + delay)
        /\ Push(key, tick + delay, sig)
  /\ UNCHANGED <<tick, phase>>

BeginTick == /\ phase = "between"
             /\ phase' = "drain"
             /\ UNCHANGED <<tick, queue>>

(* A due event leaves the queue, earliest first; a stale one is dropped.   *)
Deliver(ev) ==
  /\ phase \in {"drain", "fire"}
  /\ ev.due <= tick
  /\ Earliest(queue, ev)
  /\ queue' = queue \ {ev}
  /\ phase' = IF Stale(ev.due, tick) THEN phase ELSE "fire"
  /\ UNCHANGED tick

(* The tick ends only when no event is due any more.                       *)
EndTick == /\ phase \in {"drain", "fire"}
           /\ \A ev \in queue : ev.due > tick
           /\ tick' = tick + 1
           /\ phase' = "between"
           /\ UNCHANGED queue

Next == \/ \E key \in Activations \cup Keys, sig \in Signals : Activate(key, sig)
        \/ \E key \in Keys, delay \in Delays, sig \in Signals : Emit(key, delay, sig)
        \/ BeginTick
        \/ \E ev \in queue : Deliver(ev)
        \/ EndTick

Spec == Init /\ [][Next]_vars
=============================================================================
