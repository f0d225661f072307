------------------------------- MODULE Session -------------------------------
(***************************************************************************)
(* The session file: tools that save a model (fluency_session_save of      *)
(* src/worlds/fluency/fluency_session.c, over nerva_persist_save) while    *)
(* others load it (fluency_session_load_ex, over nerva_persist_load, and   *)
(* the boot of src/tools/nerva.c, which falls back to a smoke model).      *)
(* All of them stage the engine in a file of one name, <path>.eng.tmp.     *)
(*                                                                         *)
(* A model is the number of the save that made it, kept for each part that *)
(* is stored apart from the others; a checksum is what it was taken of.    *)
(* An engine file has two parts, header and body, and all engines have the *)
(* same size, the case in which a mix is hardest to notice.                *)
(***************************************************************************)
EXTENDS Integers, Sequences, FiniteSets, Functions

CONSTANTS
  Savers, Loaders,
  Inodes,       (* one for the staging file, one for each deleted but open *)
  None, Placeholder,
  TablesOf,     (* for each version, the optional tables its side blob has *)
  MaxBoots, MaxFaults

Procs == Savers \cup Loaders
Versions == DOMAIN TablesOf

ASSUME SessionSizes ==
  /\ Versions = 1..Len(TablesOf)
  /\ IsFiniteSet(Inodes) /\ IsFiniteSet(Procs) /\ Savers \cap Loaders = {}
  /\ Cardinality(Inodes) > Cardinality(Procs)
  /\ MaxBoots \in Nat /\ MaxFaults \in Nat

VARIABLES
  ckpt,       (* the session file                                          *)
  tmp,        (* the file that has the staging name, or None               *)
  data,       (* the content of staging files, also of deleted ones        *)
  pc,         (* where each process is                                     *)
  ino,        (* the staging file it has open                              *)
  got,        (* the session header it computes or has read                *)
  pay,        (* what it has read after a header                           *)
  model,      (* its model                                                 *)
  made,       (* the versions saved so far                                 *)
  boots, faults,
  alone,      (* history: the loaders whose staging file nobody else used  *)
  pure,       (* history: the versions saved likewise                      *)
  good,       (* history: the version whose save wrote all that the        *)
              (* session file holds since it was truncated                 *)
  sure        (* history: the version a boot has to find                   *)

files == <<ckpt, tmp, data>>
local == <<ino, got, pay, model>>
history == <<alone, pure, good, sure>>
vars == <<files, pc, local, made, boots, faults, history>>
-----------------------------------------------------------------------------
(* An engine file: a header, of which a save first writes a placeholder    *)
(* without size and checksum, and the body it describes.                   *)
Empty == [head |-> None, body |-> None]
Size(f) == IF f.body # None THEN 2 ELSE IF f.head # None THEN 1 ELSE 0
Prefix(f, n) == CASE n = 2 -> f
                  [] n = 1 -> [f EXCEPT !.body = None]
                  [] n = 0 -> Empty

(* The side blob: what the engine file leaves out of a model.  The tables  *)
(* follow each other without names; flags tell which of them are there.    *)
TableOrder == <<"mood", "gain", "hubs", "kn">>
InOrder(ts) == SelectSeq(TableOrder, LAMBDA t : t \in ts)

(* The tables are written while their flags say they are off (mutant).     *)
EncodedUnflagged(m) ==
  [ver |-> m.query, has |-> m.tables \ {"hubs"}, tables |-> InOrder(m.tables)]

Encoded(m) == [ver |-> m.query, has |-> m.tables, tables |-> InOrder(m.tables)]
Decodes(side) == side.tables = InOrder(side.has)

(* tick: of the engine header; graph: of its body; query and tables: of    *)
(* the side blob.                                                          *)
Saved(v) == [tick |-> v, graph |-> v, query |-> v, tables |-> TablesOf[v]]
Smoke == [tick |-> 0, graph |-> 0, query |-> 0, tables |-> {}]

(* Session file: header with the length of the engine and the checksum of  *)
(* engine and side blob, then these.                                       *)
NoFile == [head |-> None, eng |-> Empty, side |-> None]
NoPay == [eng |-> Empty, side |-> None, top |-> None]

Init == /\ ckpt = NoFile /\ tmp = None /\ data = [i \in Inodes |-> Empty]
        /\ pc = [p \in Procs |-> IF p \in Savers THEN "idle" ELSE "off"]
        /\ ino = [p \in Procs |-> None]
        /\ got = [p \in Procs |-> None]
        /\ pay = [p \in Procs |-> NoPay]
        /\ model = [p \in Procs |-> Smoke]
        /\ made = 0 /\ boots = 0 /\ faults = 0
        /\ alone = {} /\ pure = Versions /\ good = 0 /\ sure = [p \in Loaders |-> 0]
-----------------------------------------------------------------------------
Goto(p, to) == pc' = [pc EXCEPT ![p] = to]
At(p, from, to) == pc[p] = from /\ Goto(p, to)
Idle == [p \in Procs |-> IF p \in Savers THEN "idle" ELSE "off"]

(* fopen of the staging name for writing: what has it is truncated; files  *)
(* that are neither named nor open are no more.                            *)
OpenStaging(p) ==
  LET free == Inodes \ {ino[q] : q \in Procs}
      i == IF tmp = None THEN CHOOSE j \in free : TRUE ELSE tmp
  IN /\ tmp' = i
     /\ data' = [j \in Inodes |-> IF j = i \/ j \in free THEN Empty ELSE data[j]]
     /\ ino' = [ino EXCEPT ![p] = i]

(* remove of the staging name, whosever file has it.                       *)
RemoveStaging(p) ==
  /\ tmp' = None
  /\ ino' = [ino EXCEPT ![p] = None]
  /\ got' = [got EXCEPT ![p] = None]
  /\ pay' = [pay EXCEPT ![p] = NoPay]

(* A write fails, or a call that has to succeed before it.                 *)
Fault == faults < MaxFaults /\ faults' = faults + 1
-----------------------------------------------------------------------------
(* nerva_persist_save, of a model trained on since the last save.          *)
SaveEngine(p) ==
  /\ At(p, "idle", "body")
  /\ made + 1 \in Versions
  /\ made' = made + 1
  /\ model' = [model EXCEPT ![p] = Saved(made + 1)]
  /\ OpenStaging(p)
  /\ UNCHANGED <<ckpt, got, pay, boots, faults>>

WriteBody(p) ==
  /\ At(p, "body", "seal")
  /\ data' = [data EXCEPT ![ino[p]] = [head |-> Placeholder, body |-> model[p].graph]]
  /\ UNCHANGED <<ckpt, tmp, local, made, boots, faults>>

Seal(p) ==
  /\ At(p, "seal", "reopen")
  /\ data' = [data EXCEPT ![ino[p]].head = model[p].tick]
  /\ ino' = [ino EXCEPT ![p] = None]
  /\ UNCHANGED <<ckpt, tmp, got, pay, model, made, boots, faults>>

(* The staging file of a failed save of the engine stays.  Nobody looks at *)
(* what fclose returns, when it cannot write what is left.                 *)
SaveEngineFails(p) ==
  /\ Fault
  /\ \/ pc[p] \in {"body", "seal"} /\ Goto(p, "idle")
     \/ At(p, "seal", "reopen")
  /\ ino' = [ino EXCEPT ![p] = None]
  /\ UNCHANGED <<files, got, pay, model, made, boots>>

(* fluency_session_save opens the staging file again, by its name, reads   *)
(* it once for the checksum, and again to copy it.                         *)
Short(p) == Size(data[ino[p]]) < got[p].len

Reopen(p) ==
  /\ At(p, "reopen", "sum")
  /\ tmp # None
  /\ ino' = [ino EXCEPT ![p] = tmp]
  /\ got' = [got EXCEPT ![p] = [len |-> Size(data[tmp]), sum |-> None]]
  /\ UNCHANGED <<files, pay, model, made, boots, faults>>

Sum(p) ==
  /\ At(p, "sum", "create")
  /\ ~Short(p)
  /\ got' = [got EXCEPT ![p].sum =
               <<Prefix(data[ino[p]], got[p].len), Encoded(model[p])>>]
  /\ UNCHANGED <<files, ino, pay, model, made, boots, faults>>

(* fopen(path, "wb") truncates the last checkpoint.                        *)
Create(p) ==
  /\ At(p, "create", "copy")
  /\ ckpt' = [NoFile EXCEPT !.head = got[p]]
  /\ UNCHANGED <<tmp, data, local, made, boots, faults>>

Copy(p) ==
  /\ At(p, "copy", "side")
  /\ ~Short(p)
  /\ ckpt' = [ckpt EXCEPT !.eng = Prefix(data[ino[p]], got[p].len)]
  /\ UNCHANGED <<tmp, data, local, made, boots, faults>>

WriteSide(p) ==
  /\ At(p, "side", "close") /\ p \in Savers
  /\ ckpt' = [ckpt EXCEPT !.side = Encoded(model[p])]
  /\ UNCHANGED <<tmp, data, local, made, boots, faults>>

SaveFails(p) ==
  /\ \/ /\ UNCHANGED faults
        /\ \/ pc[p] = "reopen" /\ tmp = None
           \/ pc[p] \in {"sum", "copy"} /\ Short(p)
        /\ Goto(p, "giveUp")
     \/ /\ Fault
        /\ p \in Savers
        /\ \/ pc[p] \in {"reopen", "sum", "create", "copy", "side"}
              /\ Goto(p, "giveUp")
           \/ At(p, "side", "close")
  /\ UNCHANGED <<files, local, made, boots>>

(* The save ends: close returns 0, giveUp -1.                              *)
EndSave(p) ==
  /\ pc[p] \in {"close", "giveUp"}
  /\ Goto(p, "idle")
  /\ RemoveStaging(p)
  /\ UNCHANGED <<ckpt, data, model, made, boots, faults>>
-----------------------------------------------------------------------------
(* app_boot, which looks for the session file, and app_boot_ckpt; without  *)
(* a model it trains the smoke model.                                      *)
SmokeTrain(p) == /\ Goto(p, "chat")
                 /\ model' = [model EXCEPT ![p] = Smoke]
                 /\ ino' = [ino EXCEPT ![p] = None]
                 /\ got' = [got EXCEPT ![p] = None]
                 /\ pay' = [pay EXCEPT ![p] = NoPay]

Boot(p) ==
  /\ pc[p] = "off"
  /\ boots < MaxBoots
  /\ boots' = boots + 1
  /\ \/ ckpt = NoFile /\ SmokeTrain(p)
     \/ ckpt # NoFile /\ Goto(p, "header") /\ UNCHANGED local
  /\ UNCHANGED <<files, made, faults>>

(* header_valid, which also compares the size of the file.                 *)
HeaderValid == /\ ckpt.head # None
               /\ Size(ckpt.eng) = ckpt.head.len
               /\ ckpt.side # None

LoadHeader(p) ==
  /\ At(p, "header", "engine")
  /\ HeaderValid
  /\ got' = [got EXCEPT ![p] = ckpt.head]
  /\ UNCHANGED <<files, ino, pay, model, made, boots, faults>>

(* The payload is read, then compared with the checksum of the header.     *)
EngineThere(p) == Size(ckpt.eng) >= got[p].len

LoadEngine(p) ==
  /\ At(p, "engine", "payload")
  /\ EngineThere(p)
  /\ pay' = [pay EXCEPT ![p].eng = Prefix(ckpt.eng, got[p].len)]
  /\ UNCHANGED <<files, ino, got, model, made, boots, faults>>

(* The checksum of what was read is not compared (mutant).                 *)
PayloadAny(p) == ckpt.side # None

(* A short read is taken for a side blob (mutant).                         *)
PayloadShort(p) == ckpt.side # None => got[p].sum = <<pay[p].eng, ckpt.side>>

PayloadValid(p) == ckpt.side # None /\ got[p].sum = <<pay[p].eng, ckpt.side>>

LoadSide(p) ==
  /\ At(p, "payload", "stage")
  /\ PayloadValid(p)
  /\ pay' = [pay EXCEPT ![p].side = ckpt.side]
  /\ got' = [got EXCEPT ![p] = None]
  /\ UNCHANGED <<files, ino, model, made, boots, faults>>

(* The engine of the session file is written to the staging file.          *)
Stage(p) ==
  /\ At(p, "stage", "stageHead")
  /\ OpenStaging(p)
  /\ UNCHANGED <<ckpt, got, pay, model, made, boots, faults>>

StageHead(p) ==
  /\ At(p, "stageHead", "stageBody")
  /\ data' = [data EXCEPT ![ino[p]].head = pay[p].eng.head]
  /\ UNCHANGED <<ckpt, tmp, local, made, boots, faults>>

StageBody(p) ==
  /\ At(p, "stageBody", "persist")
  /\ data' = [data EXCEPT ![ino[p]].body = pay[p].eng.body]
  /\ ino' = [ino EXCEPT ![p] = None]
  /\ UNCHANGED <<ckpt, tmp, got, pay, model, made, boots, faults>>

StageFails(p) ==
  /\ Fault
  /\ \/ pc[p] \in {"stage", "stageHead", "stageBody"} /\ Goto(p, "drop")
     \/ At(p, "stageBody", "persist")
  /\ ino' = [ino EXCEPT ![p] = None]
  /\ UNCHANGED <<files, got, pay, model, made, boots>>

(* nerva_persist_load opens it by its name and reads header, then body.    *)
EngineHeaderValid == /\ tmp # None
                     /\ Size(data[tmp]) = 2
                     /\ data[tmp].head \in Versions

PersistHeader(p) ==
  /\ At(p, "persist", "load")
  /\ EngineHeaderValid
  /\ ino' = [ino EXCEPT ![p] = tmp]
  /\ pay' = [pay EXCEPT ![p].top = data[tmp].head]
  /\ UNCHANGED <<files, got, model, made, boots, faults>>

(* The checksum of the engine's body is not compared (mutant).             *)
BodyAny(top, body) == body # None

BodyValid(top, body) == body = top

(* nerva_persist_apply_staging ends with clearing what a query has left.   *)
Cleared(m) == [m EXCEPT !.query = 0]
Staged(m, top, body) == Cleared([m EXCEPT !.tick = top, !.graph = body])

PersistBody(p) ==
  LET body == data[ino[p]].body
  IN /\ At(p, "load", "unstage")
     /\ BodyValid(pay[p].top, body)
     /\ model' = [model EXCEPT ![p] = Staged(@, pay[p].top, body)]
     /\ ino' = [ino EXCEPT ![p] = None]
     /\ pay' = [pay EXCEPT ![p].top = None, ![p].eng = Empty]
     /\ UNCHANGED <<files, got, made, boots, faults>>

PersistFails(p) ==
  /\ \/ pc[p] = "persist" /\ ~EngineHeaderValid
     \/ pc[p] = "load" /\ ~BodyValid(pay[p].top, data[ino[p]].body)
  /\ Goto(p, "drop")
  /\ UNCHANGED <<files, local, made, boots, faults>>

(* The staging file is removed, also after a load that failed.             *)
Unstage(p) ==
  /\ At(p, "unstage", "decode")
  /\ tmp' = None
  /\ UNCHANGED <<ckpt, data, local, made, boots, faults>>

Drop(p) ==
  /\ pc[p] = "drop"
  /\ SmokeTrain(p)
  /\ tmp' = None
  /\ UNCHANGED <<ckpt, data, made, boots, faults>>

(* fluency_side_decode puts the rest of the model, and the state of the    *)
(* last query, over what the engine file gave.                             *)
Decode(p) ==
  LET side == pay[p].side
  IN /\ At(p, "decode", "words")
     /\ Decodes(side)
     /\ model' = [model EXCEPT ![p].query = side.ver, ![p].tables = side.has]
     /\ pay' = [pay EXCEPT ![p] = NoPay]
     /\ UNCHANGED <<files, ino, got, made, boots, faults>>

LoadWords(p) ==
  /\ At(p, "words", "chat")
  /\ UNCHANGED <<files, local, made, boots, faults>>

(* A load that fails before the engine is staged, or after.  That the      *)
(* lexicon cannot be read is a fault.                                      *)
FallBack(p) ==
  /\ \/ /\ UNCHANGED faults
        /\ \/ pc[p] = "header" /\ ~HeaderValid
           \/ pc[p] = "engine" /\ ~EngineThere(p)
           \/ pc[p] = "payload" /\ ~PayloadValid(p)
           \/ pc[p] = "decode" /\ ~Decodes(pay[p].side)
     \/ Fault /\ pc[p] \in {"header", "engine", "payload", "decode", "words"}
  /\ SmokeTrain(p)
  /\ UNCHANGED <<files, made, boots>>

(* app_free                                                                *)
Quit(p) ==
  /\ At(p, "chat", "off")
  /\ model' = [model EXCEPT ![p] = Smoke]
  /\ UNCHANGED <<files, ino, got, pay, made, boots, faults>>
-----------------------------------------------------------------------------
(* A process dies and leaves the files as they are.                        *)
Crash(p) ==
  /\ pc[p] \notin {"idle", "off", "chat"}
  /\ Fault
  /\ Goto(p, Idle[p])
  /\ ino' = [ino EXCEPT ![p] = None]
  /\ got' = [got EXCEPT ![p] = None]
  /\ pay' = [pay EXCEPT ![p] = NoPay]
  /\ model' = [model EXCEPT ![p] = Smoke]
  /\ UNCHANGED <<files, made, boots>>

Save(p) == \/ SaveEngine(p) \/ WriteBody(p) \/ Seal(p) \/ SaveEngineFails(p)
           \/ Reopen(p) \/ Sum(p) \/ Create(p) \/ Copy(p) \/ WriteSide(p)
           \/ SaveFails(p) \/ EndSave(p)

Load(p) == \/ Boot(p) \/ LoadHeader(p) \/ LoadEngine(p) \/ LoadSide(p)
           \/ Stage(p) \/ StageHead(p) \/ StageBody(p) \/ StageFails(p)
           \/ PersistHeader(p) \/ PersistBody(p) \/ PersistFails(p)
           \/ Unstage(p) \/ Drop(p) \/ Decode(p) \/ LoadWords(p)
           \/ FallBack(p) \/ Quit(p)

(* History.  A process uses the staging file from the step that opens it   *)
(* to the one that has read it.                                            *)
Staging(p) ==
  pc[p] \in {"body", "seal", "reopen", "sum", "create", "copy",
             "stageHead", "stageBody", "persist", "load"}

(* The save that wrote the session file has ended, and with success.       *)
Reported ==
  good \in pure /\ \A s \in Savers : model[s].tick = good => pc[s] = "idle"

Witnessed(p) ==
  LET touched == tmp' # tmp \/ data' # data
      meddled == IF touched THEN {q \in Procs \ {p} : Staging(q)} ELSE {}
      failed  == IF faults' # faults THEN {p} ELSE {}
      spoilt  == meddled \cup failed
  IN /\ alone' = (IF pc[p] = "off" THEN alone \cup {p} ELSE alone) \ spoilt
     /\ pure' = pure \ {model[q].tick : q \in spoilt \cap Savers}
     /\ good' = IF ckpt' = ckpt THEN good
                ELSE IF pc[p] = "create" \/ good = model[p].tick THEN model[p].tick ELSE 0
     /\ sure' = [q \in Loaders |->
                   CASE q = p /\ pc[p] = "off"       -> IF Reported THEN good ELSE 0
                     [] q \in spoilt \/ ckpt' # ckpt -> 0
                     [] OTHER                        -> sure[q]]

Next == \E p \in Procs : /\ \/ p \in Savers /\ Save(p)
                            \/ p \in Loaders /\ Load(p)
                            \/ Crash(p)
                         /\ Witnessed(p)

Spec == Init /\ [][Next]_vars
-----------------------------------------------------------------------------
SavePlaces == {"idle", "body", "seal", "reopen", "sum", "create", "copy", "side", "close",
               "giveUp"}
LoadPlaces == {"off", "header", "engine", "payload", "stage", "stageHead", "stageBody",
               "persist", "load", "unstage", "decode", "words", "chat", "drop"}

EngineFile == [head : Versions \cup {None, Placeholder}, body : Versions \cup {None}]
SideBlob == {Encoded(Saved(v)) : v \in Versions}
Header == [len : 0..2, sum : (EngineFile \X SideBlob) \cup {None}]
Model == [tick : {0} \cup Versions, graph : {0} \cup Versions, query : {0} \cup Versions,
          tables : {{}} \cup Range(TablesOf)]

ASSUME NoneIsNothing ==
  /\ None \notin Inodes /\ None \notin Versions /\ None # Placeholder
  /\ None \notin SideBlob /\ None \notin Header /\ None \notin EngineFile \X SideBlob
  /\ Placeholder \notin Versions

(* Every file holds, part by part, what some save wrote, and every process *)
(* holds what it could read from them.                                     *)
TypeOK ==
  /\ tmp \in Inodes \cup {None} /\ data \in [Inodes -> EngineFile]
  /\ ckpt \in [head : Header \cup {None}, eng : EngineFile, side : SideBlob \cup {None}]
  /\ pc \in [Procs -> SavePlaces \cup LoadPlaces]
  /\ ino \in [Procs -> Inodes \cup {None}]
  /\ got \in [Procs -> Header \cup {None}]
  /\ pay \in [Procs -> [eng : EngineFile, side : SideBlob \cup {None},
                        top : Versions \cup {None}]]
  /\ model \in [Procs -> Model]
  /\ alone \subseteq Loaders /\ pure \subseteq Versions
  /\ {made, good} \subseteq {0} \cup Versions
  /\ sure \in [Loaders -> {0} \cup Versions]
  /\ faults \in 0..MaxFaults /\ boots \in 0..MaxBoots
  /\ \A p \in Procs :
       /\ pc[p] \in {"body", "seal", "sum", "create", "copy", "stageHead", "stageBody", "load"}
            => ino[p] # None
       /\ pc[p] \in {"sum", "create", "copy", "engine", "payload"} => got[p] # None
       /\ pc[p] \in {"stage", "stageHead", "stageBody", "persist", "load", "unstage", "decode"}
            => pay[p].side # None
       /\ pc[p] = "load" => pay[p].top # None

(* However saves, loads and crashes interleave, a chat never runs on an    *)
(* engine put together from two of them, or from half of one: what         *)
(* nerva_persist_load accepts it has compared with the checksum in the     *)
(* header that it read before.                                             *)
EngineWhole ==
  \A p \in Loaders : pc[p] = "chat" => model[p].tick = model[p].graph

(* A loaded model is all of one save, its graph, its query state and its   *)
(* tables, even when that save, or another, was writing the session file   *)
(* while it was read; but nobody else may have used the staging file       *)
(* during this load, nor during the save.                                  *)
ModelOfOneSave ==
  \A p \in Loaders :
    pc[p] = "chat" /\ p \in alone /\ model[p].query \in pure =>
      model[p] = Saved(model[p].query)

(* What a save reports as saved, a boot finds: if nobody else used the     *)
(* staging file or wrote the session file meanwhile and no call failed,    *)
(* the chat runs on that very model and not on the smoke model, whatever   *)
(* crashes and failures before have left in the staging file.              *)
SavedIsLoaded ==
  \A p \in Loaders : pc[p] = "chat" /\ sure[p] # 0 => model[p] = Saved(sure[p])
=============================================================================
