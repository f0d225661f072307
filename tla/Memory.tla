-------------------------------- MODULE Memory --------------------------------
(***************************************************************************)
(* Memory blocks and the consolidation of an idle engine: episodes, their  *)
(* charges, which decay, are replayed and forgotten, and the mutations     *)
(* that wait until then (src/src/nerva_memory.c), together with Schema,    *)
(* whose derived edges are such mutations.                                 *)
(*                                                                         *)
(* Charges are integers, in a unit small enough for halving to be exact    *)
(* where it is compared with a threshold.  How long an activation keeps    *)
(* events pending is the engine's (Engine) and chosen freely here.         *)
(***************************************************************************)
EXTENDS Schema

CONSTANTS
  MemoryCap,
  Store, Forget,            (* memory_store_threshold, forget_threshold    *)
  Hold, IdleTicks, TopK,    (* hold_period_ticks, idle_consolidate_ticks   *)
  Charges,                  (* of charge_update: [by, useful]              *)
  BusyTimes, TickCounts,    (* of activations, and of the TICK command     *)
  MaxTick, MaxCalls         (* bounds of the model                         *)

ASSUME MemorySizes ==
  /\ {MemoryCap, Hold, TopK, MaxTick, MaxCalls} \cup TickCounts \cup BusyTimes \subseteq Nat
  /\ {Store, Forget} \subseteq Int /\ Charges \subseteq [by : Int, useful : BOOLEAN]
  /\ IdleTicks \in Nat \ {0}

Unset == -1   (* NERVA_MEM_LOW_CHARGE_UNSET *)

VARIABLES
  tick,
  blocks,     (* the memory blocks                                         *)
  idle,       (* idle_ticks                                                *)
  busy,       (* at the end of how many more ticks events will be pending  *)
  left,       (* the ticks that the running TICK command has left          *)
  calls,      (* how many commands there have been                         *)
  rich        (* history: when each block was last charged enough, or made *)

memoryVars == <<tick, blocks, idle, busy, left, rich>>
vars == <<schemaVars, memoryVars, calls>>

Init == /\ SchemaInit
        /\ tick = 0 /\ blocks = <<>> /\ idle = 0 /\ busy = 0 /\ left = 0
        /\ calls = 0 /\ rich = <<>>

HasOpenEpisode == \E m \in Range(blocks) : m.open
Passive(m) == ~m.open /\ ~m.gone
-----------------------------------------------------------------------------
(* A call of the host, or of a command of a script that makes it.          *)
Called == left = 0 /\ calls < MaxCalls /\ calls' = calls + 1

BeginEpisode ==
  /\ Len(blocks) < MemoryCap
  /\ blocks' = Append(blocks, [open |-> TRUE, stored |-> FALSE, gone |-> FALSE,
                               charge |-> 0, since |-> Unset, useful |-> FALSE,
                               replayed |-> FALSE])
  /\ rich' = Append(rich, tick)
  /\ UNCHANGED <<tick, idle, busy, left>>

EndEpisode(i) ==
  /\ blocks' = [blocks EXCEPT ![i].open = FALSE]
  /\ UNCHANGED <<tick, idle, busy, left, rich>>

(* A charge that recovers does not end the time of low charge (mutant).    *)
RefreshedOnce(m) ==
  [m EXCEPT !.stored = @ \/ m.charge > Store,
            !.since = IF m.charge < Forget /\ @ = Unset THEN tick ELSE @]

(* Every look at a low charge starts its time anew (mutant).               *)
RefreshedAnew(m) ==
  [m EXCEPT !.stored = @ \/ m.charge > Store,
            !.since = IF m.charge >= Forget THEN Unset ELSE tick]

(* nerva_memory_refresh_state                                              *)
Refreshed(m) ==
  [m EXCEPT !.stored = @ \/ m.charge > Store,
            !.since = IF m.charge >= Forget THEN Unset
                      ELSE IF @ = Unset THEN tick ELSE @]

RichNow == [i \in DOMAIN blocks' |->
              IF blocks'[i].charge >= Forget THEN tick ELSE rich[i]]

(* A block that is to be deleted is charged no more.                       *)
ChargeUpdate(i, c) ==
  /\ ~blocks[i].gone
  /\ LET m == blocks[i] IN
       blocks' = [blocks EXCEPT ![i] =
                    Refreshed([m EXCEPT !.charge = @ + c.by, !.useful = @ \/ c.useful])]
  /\ rich' = RichNow
  /\ UNCHANGED <<tick, idle, busy, left>>

(* An activation's event, and those that it leads to, are pending for some *)
(* ticks.                                                                  *)
Activate(n) == /\ busy' = IF n > busy THEN n ELSE busy
               /\ UNCHANGED <<tick, blocks, idle, left, rich>>

Ticks(n) == /\ tick + n <= MaxTick
            /\ left' = n
            /\ UNCHANGED <<tick, blocks, idle, busy, rich>>
-----------------------------------------------------------------------------
(* nerva_memory_decay_pass; never below zero.  It takes half of the charge, *)
(* as the tests configure it (by default a thousandth).                    *)
Decayed(m) ==
  IF Passive(m)
  THEN Refreshed([m EXCEPT !.charge = IF @ < 0 THEN 0 ELSE @ - @ \div 2])
  ELSE m

(* nerva_memory_replay_top_k: of equal charges the first.                  *)
Replayed(ms) ==
  LET Before(j, i) == /\ Passive(ms[j])
                      /\ ms[j].charge > ms[i].charge \/ (ms[j].charge = ms[i].charge /\ j < i)
  IN  [i \in DOMAIN ms |->
         IF /\ Passive(ms[i]) /\ ms[i].charge > 0
            /\ Cardinality({j \in DOMAIN ms : Before(j, i)}) < TopK
         THEN [ms[i] EXCEPT !.replayed = TRUE] ELSE ms[i]]

(* nerva_memory_forget_pass                                                *)
Forgotten(m) ==
  [m EXCEPT !.gone = @ \/ (/\ ~m.open /\ m.charge < Forget
                           /\ m.since # Unset /\ tick - m.since >= Hold)]

(* An episode that is over still counts (mutant).                          *)
MayConsolidateFresh == \A m \in Range(blocks) : m.stored

MayConsolidate == ~HasOpenEpisode

(* nerva_consolidate_idle                                                  *)
Consolidate ==
  IF ~MayConsolidate THEN UNCHANGED <<schemaVars, blocks>>
  ELSE /\ Batch
       /\ LET replayed == Replayed([i \in DOMAIN blocks |-> Decayed(blocks[i])])
          IN  blocks' = [i \in DOMAIN blocks |-> Forgotten(replayed[i])]

(* nerva_memory_on_tick_end: an engine with events pending is not idle.    *)
TickStep ==
  /\ left > 0
  /\ IF busy > 0 THEN idle' = 0 /\ busy' = busy - 1 /\ UNCHANGED <<schemaVars, blocks>>
     ELSE IF idle + 1 < IdleTicks
     THEN idle' = idle + 1 /\ UNCHANGED <<schemaVars, blocks, busy>>
     ELSE idle' = 0 /\ Consolidate /\ UNCHANGED busy
  /\ rich' = RichNow
  /\ tick' = tick + 1 /\ left' = left - 1
  /\ UNCHANGED calls

MemoryCommand ==
  \/ BeginEpisode
  \/ \E i \in DOMAIN blocks : EndEpisode(i)
  \/ \E i \in DOMAIN blocks, c \in Charges : ChargeUpdate(i, c)
  \/ \E n \in BusyTimes : Activate(n)
  \/ \E n \in TickCounts : Ticks(n)

Next == \/ Called /\ SchemaCommand /\ UNCHANGED memoryVars
        \/ Called /\ MemoryCommand /\ UNCHANGED schemaVars
        \/ TickStep

Spec == Init /\ [][Next]_vars

(* A TICK command, once given, runs to its end; nobody has to give one.    *)
FairSpec == Spec /\ WF_vars(TickStep)
-----------------------------------------------------------------------------
TypeOK ==
  /\ SchemaTypeOK
  /\ blocks \in Seq([open : BOOLEAN, stored : BOOLEAN, gone : BOOLEAN, charge : Int,
                     since : {Unset} \cup 0..tick, useful : BOOLEAN, replayed : BOOLEAN])
  /\ Len(blocks) <= MemoryCap
  /\ \A m \in Range(blocks) : m.since # Unset => m.charge < Forget
  /\ rich \in [DOMAIN blocks -> 0..tick]
  /\ idle \in 0..(IdleTicks - 1) /\ busy \in Nat
  /\ {tick, left} \subseteq Nat /\ tick + left <= MaxTick
  /\ calls \in 0..MaxCalls

(* A block is forgotten only after its charge has been low all through the *)
(* hold period: a block that was useful again in between is given the      *)
(* whole period anew.                                                      *)
HeldLongEnough ==
  [][\A i \in DOMAIN blocks :
       blocks'[i].gone /\ ~blocks[i].gone => tick - rich[i] >= Hold]_vars

(* Mutations that wait are applied once the engine has been idle for long  *)
(* enough, if no episode has been left open.                               *)
ConsolidationComes ==
  (waiting # <<>> /\ ~HasOpenEpisode /\ left >= busy + IdleTicks) ~> waiting = <<>>

(* A block whose charge is low is forgotten in the end, if its episode and *)
(* all others are over and the engine is left alone.                       *)
ForgottenAtLast ==
  \A i \in 1..MemoryCap :
    (/\ i \in DOMAIN blocks /\ ~HasOpenEpisode /\ blocks[i].charge < Forget
     /\ left >= busy + Hold + 2 * IdleTicks)
    ~> (i \in DOMAIN blocks /\ blocks[i].gone)
=============================================================================
