-------------------------------- MODULE Events --------------------------------
(***************************************************************************)
(* The data of the engine's event queue: the parameters of an instance,    *)
(* the events, and the Q8.8 arithmetic and the comparisons the queue is    *)
(* built from.  EventBag and EventQueue extend it.                         *)
(***************************************************************************)
EXTENDS Integers

CONSTANTS
  Cap,          (* event_cap: how many events the array holds            *)
  Keys,         (* merge keys of edge events: (source, target, relation) *)
  Activations,  (* the keys of the events that nerva_activate_node       *)
                (* pushes: of no edge, so that nothing merges with them  *)
  Signals,      (* the signals callers push                              *)
  SigMax,       (* the largest Q8.8 value; the smallest is -SigMax - 1   *)
  Delays,       (* delay_ticks of the edges                              *)
  StaleTicks,   (* cfg.stale_ticks                                       *)
  MergeWindow,  (* cfg.merge_window_ticks                                *)
  MaxTick       (* bound of the model on the tick counter                *)

ASSUME CapAssumption == Cap \in Nat \ {0}
ASSUME SigAssumption == SigMax \in Nat /\ Signals \subseteq (-SigMax - 1)..SigMax
ASSUME TimeAssumption == /\ Delays \subseteq Nat
                         /\ StaleTicks \in Nat
                         /\ MergeWindow \in Nat
                         /\ MaxTick \in Nat
ASSUME KeyAssumption == Activations \cap Keys = {}
-----------------------------------------------------------------------------
Ids == 1..Cap
Phase == {"between", "drain", "fire"}
Q8_8 == (-SigMax - 1)..SigMax

Event == [id : Ids, key : Keys \cup Activations, due : Nat, sig : Q8_8]

(* nerva_abs32                                                             *)
Strength(s) == IF s < 0 THEN -s ELSE s

(* A sum that keeps the upper bound only (mutant).                         *)
SatAddNoFloor(a, b) == IF a + b > SigMax THEN SigMax ELSE a + b

(* nerva_q8_8_saturating_add                                               *)
SatAdd(a, b) == IF a + b > SigMax THEN SigMax
                ELSE IF a + b < -SigMax - 1 THEN -SigMax - 1 ELSE a + b

UsedIds(q) == {ev.id : ev \in q}

Weakest(q, w) == \A ev \in q : Strength(w.sig) <= Strength(ev.sig)

Earliest(q, first) == \A ev \in q : first.due <= ev.due

(* The stale test of nerva_event_push and nerva_event_pop at tick now.     *)
Stale(due, now) == due + StaleTicks < now

(* An event of the same edge whose due tick lies within the merge window.  *)
Mergeable(ev, key, due) == /\ ev.key = key
                           /\ ev.due <= due + MergeWindow
                           /\ due <= ev.due + MergeWindow

(* Merging adds the signals and keeps the earlier of the two ticks.        *)
Combine(ev, due, sig) ==
  [ev EXCEPT !.sig = SatAdd(ev.sig, sig), !.due = IF due < ev.due THEN due ELSE ev.due]
=============================================================================
