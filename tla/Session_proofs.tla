---------------------------- MODULE Session_proofs ----------------------------
(***************************************************************************)
(* Proofs about the session file (Session), for any number of tools that   *)
(* save, of chats that load, of crashes and of failed calls.               *)
(*                                                                         *)
(* The inductive invariant SessionInv follows a version through the files: *)
(*   - Honest: a header whose side blob is of a pure version has the       *)
(*     checksum of the engine of that version;                             *)
(*   - SaverHas and LoaderHas: what the staging file has in each step of a *)
(*     save, and of a load, that nobody has interfered with;               *)
(*   - FileHas: what the session file has in each step of the save that    *)
(*     wrote all of it;                                                    *)
(*   - SureHas: where a boot that has to find a version finds it.          *)
(* A step of one process keeps these for every other process, because it   *)
(* leaves the staging file alone or takes the other one out of those that  *)
(* are pure, or alone (OthersUndisturbed).                                 *)
(***************************************************************************)
EXTENDS Session, FiniteSetTheorems, TLAPS

(* The engine of a version, its session file, and that file half written.  *)
Whole(v) == [head |-> v, body |-> v]
HeaderOf(v) == [len |-> 2, sum |-> <<Whole(v), Encoded(Saved(v))>>]
FileOf(v) == [head |-> HeaderOf(v), eng |-> Whole(v), side |-> Encoded(Saved(v))]
HeadWritten(v) == [head |-> HeaderOf(v), eng |-> Empty, side |-> None]
EngineWritten(v) == [head |-> HeaderOf(v), eng |-> Whole(v), side |-> None]

(* What one process does, whichever it is.                                 *)
Step(p) == \/ p \in Savers /\ Save(p)
           \/ p \in Loaders /\ Load(p)
           \/ Crash(p)

(* The processes that a step of p takes out of those that are alone, or    *)
(* whose save is pure.                                                     *)
Spoilt(p) ==
  (IF tmp' # tmp \/ data' # data THEN {q \in Procs \ {p} : Staging(q)} ELSE {})
    \cup (IF faults' # faults THEN {p} ELSE {})

(* Each process is within its own program.                                 *)
Places == /\ \A s \in Savers : pc[s] \in SavePlaces
          /\ \A p \in Loaders : pc[p] \in LoadPlaces

(* A tool that saves has the model that it made, and no two have the same. *)
Makers ==
  /\ \A s \in Savers : /\ model[s].tick # 0 => model[s] = Saved(model[s].tick)
                       /\ pc[s] # "idle" => model[s].tick # 0
                       /\ model[s].tick <= made
  /\ \A s, t \in Savers : s # t /\ model[s].tick # 0 => model[s].tick # model[t].tick

(* Every engine in memory is whole.                                        *)
Engines == \A p \in Procs : model[p].tick = model[p].graph

(* A header that is complete, and one that is not that of a mixed save.    *)
Complete(h) == h # None /\ h.sum # None
Honest(h) == h.sum[2].ver \in pure => h.sum[1] = Whole(h.sum[2].ver)

Headers ==
  /\ ckpt.head # None => Complete(ckpt.head) /\ Honest(ckpt.head)
  /\ \A p \in Procs :
       /\ pc[p] \in {"create", "copy", "engine", "payload"} => Complete(got[p])
       /\ Complete(got[p]) => Honest(got[p])

(* What a save has in the staging file, and in its header.                 *)
SaverHas(s) ==
  LET v == model[s].tick
  IN  v \in pure =>
        /\ pc[s] \in {"body", "seal", "sum", "create", "copy"} => ino[s] = tmp
        /\ pc[s] = "seal" => data[tmp] = [head |-> Placeholder, body |-> v]
        /\ pc[s] \in {"reopen", "sum", "create", "copy"} => tmp # None /\ data[tmp] = Whole(v)
        /\ pc[s] = "sum" => got[s].len = 2
        /\ pc[s] \in {"create", "copy"} => got[s] = HeaderOf(v)

(* What a load has in memory and in the staging file.                      *)
LoaderHas(p) ==
  LET v == pay[p].side.ver
  IN  /\ pc[p] \in {"stage", "stageHead", "stageBody", "persist"} /\ v \in pure
           => pay[p].eng = Whole(v)
      /\ p \in alone =>
           /\ pc[p] \in {"stageHead", "stageBody"} => ino[p] = tmp
           /\ pc[p] = "stageBody" => data[tmp].head = pay[p].eng.head
           /\ pc[p] = "persist" => data[tmp] = pay[p].eng
           /\ pc[p] = "load" /\ v \in pure => pay[p].top = v
           /\ pc[p] \in {"unstage", "decode"} /\ v \in pure => model[p].tick = v
           /\ pc[p] \in {"words", "chat"} /\ model[p].query \in pure
                => model[p] = Saved(model[p].query)

(* What the save of the version good has written so far.                   *)
FileHas ==
  good \in pure =>
    \/ ckpt = FileOf(good)
    \/ \E s \in Savers :
         /\ model[s].tick = good
         /\ \/ pc[s] = "copy" /\ ckpt = HeadWritten(good)
            \/ pc[s] = "side" /\ ckpt = EngineWritten(good)

(* Where a boot that has to find the version sure[p] finds it.             *)
SureHas(p) ==
  LET v == sure[p]
  IN  v # 0 =>
        /\ ckpt = FileOf(v)
        /\ pc[p] # "drop"
        /\ pc[p] \in {"engine", "payload"} => got[p] = HeaderOf(v)
        /\ pc[p] \in {"payload", "stage", "stageHead", "stageBody"} => pay[p].eng = Whole(v)
        /\ pc[p] \in {"stage", "stageHead", "stageBody", "persist", "load", "unstage", "decode"}
             => pay[p].side = Encoded(Saved(v))
        /\ pc[p] \in {"stageHead", "stageBody", "load"} => ino[p] = tmp
        /\ pc[p] = "stageBody" => data[tmp].head = v
        /\ pc[p] \in {"persist", "load"} => tmp # None /\ data[tmp] = Whole(v)
        /\ pc[p] = "load" => pay[p].top = v
        /\ pc[p] \in {"unstage", "decode"} => model[p].tick = v /\ model[p].graph = v
        /\ pc[p] \in {"words", "chat"} => model[p] = Saved(v)

SessionInv == /\ TypeOK /\ Places /\ Makers /\ Engines /\ Headers /\ FileHas
              /\ \A s \in Savers : SaverHas(s)
              /\ \A p \in Loaders : LoaderHas(p) /\ SureHas(p)

(* Parts of the data: what is read of an engine file is one, the side blob *)
(* of a version is one and decodes, and so on.                             *)
LEMMA VersionType == Versions \subseteq Nat \ {0}
  BY SessionSizes

(* What is written to an engine file, and read of one, is one.             *)
LEMMA EngineType ==
  /\ Empty \in EngineFile
  /\ \A v \in Versions : Whole(v) \in EngineFile /\ [head |-> Placeholder, body |-> v] \in EngineFile
  /\ \A f \in EngineFile, n \in 0..2 : Prefix(f, n) \in EngineFile
  BY DEF EngineFile, Empty, Whole, Prefix

(* The sizes of engine files: all of a file of size 2 is the file.         *)
LEMMA EngineSize ==
  /\ \A f \in EngineFile : Size(f) \in 0..2 /\ Prefix(f, 2) = f
  /\ \A v \in Versions : Size(Whole(v)) = 2
  /\ Size(Empty) = 0
  BY NoneIsNothing DEF EngineFile, Empty, Whole, Prefix, Size

(* The side blob of a version says which it is, and always decodes.        *)
LEMMA SideType ==
  /\ \A v \in Versions : Encoded(Saved(v)) \in SideBlob /\ Encoded(Saved(v)).ver = v
  /\ \A side \in SideBlob :
       /\ side.ver \in Versions /\ side = Encoded(Saved(side.ver)) /\ Decodes(side)
       /\ side.has = TablesOf[side.ver]
       /\ side # None
  <1>1. \A v \in Versions : /\ Encoded(Saved(v)) \in SideBlob /\ Encoded(Saved(v)).ver = v
                            /\ Decodes(Encoded(Saved(v)))
                            /\ Encoded(Saved(v)).has = TablesOf[v]
    BY DEF SideBlob, Encoded, Saved, Decodes
  <1>2. \A side \in SideBlob : \E v \in Versions : side = Encoded(Saved(v))
    BY DEF SideBlob
  <1> QED BY <1>1, <1>2, NoneIsNothing

(* The models: the smoke model, and those of the versions.                 *)
LEMMA ModelType ==
  /\ Smoke \in Model /\ \A v \in Versions : Saved(v) \in Model
  /\ \A v \in Versions : TablesOf[v] \in Range(TablesOf)
  <1>1. \A v \in Versions : TablesOf[v] \in Range(TablesOf)
    BY DEF Versions, Range
  <1> QED BY <1>1 DEF Smoke, Saved, Model

(* Headers, before and after their checksum is known.                      *)
LEMMA HeaderType ==
  /\ \A n \in 0..2, f \in EngineFile, side \in SideBlob :
       /\ [len |-> n, sum |-> <<f, side>>] \in Header
       /\ Complete([len |-> n, sum |-> <<f, side>>])
  /\ \A n \in 0..2 : [len |-> n, sum |-> None] \in Header
  /\ \A h \in Header : /\ h # None /\ h.len \in 0..2
                       /\ h.sum # None => h.sum[1] \in EngineFile /\ h.sum[2] \in SideBlob
                                          /\ h.sum = <<h.sum[1], h.sum[2]>>
  <1>1. \A h \in Header : /\ h # None /\ h.len \in 0..2
                          /\ h.sum # None => h.sum \in EngineFile \X SideBlob
    BY NoneIsNothing DEF Header
  <1>2. \A f \in EngineFile, side \in SideBlob : <<f, side>> # None
    BY NoneIsNothing
  <1>3. \A x \in EngineFile \X SideBlob : x[1] \in EngineFile /\ x[2] \in SideBlob /\ x = <<x[1], x[2]>>
    OBVIOUS
  <1>4. \A n \in 0..2, f \in EngineFile, side \in SideBlob :
          [len |-> n, sum |-> <<f, side>>] \in Header
    BY DEF Header
  <1>5. \A n \in 0..2 : [len |-> n, sum |-> None] \in Header
    BY DEF Header
  <1> QED BY <1>1, <1>2, <1>3, <1>4, <1>5 DEF Complete

(* There always is a file that is neither named nor open.                  *)
LEMMA FileFree ==
  ASSUME TypeOK
  PROVE  \E i \in Inodes : i \notin {ino[q] : q \in Procs}
  <1> DEFINE T == {ino[q] : q \in Procs}
  <1>1. ino \in Surjection(Procs, T)
    BY DEF TypeOK, Surjection
  <1>2. IsFiniteSet(T) /\ Cardinality(T) <= Cardinality(Procs)
    BY <1>1, FS_Surjection, SessionSizes
  <1>3. Cardinality(T) \in Nat /\ Cardinality(Procs) \in Nat /\ Cardinality(Inodes) \in Nat
    BY <1>2, FS_CardinalityType, SessionSizes
  <1>4. ~(Inodes \subseteq T)
    BY <1>2, <1>3, FS_Subset, SessionSizes
  <1> QED BY <1>4

(* The file a process opens under the staging name is empty.               *)
LEMMA OpenStagingType ==
  ASSUME TypeOK, NEW p \in Procs, OpenStaging(p)
  PROVE  /\ tmp' \in Inodes /\ tmp' # None /\ data' \in [Inodes -> EngineFile]
         /\ ino' = [ino EXCEPT ![p] = tmp'] /\ data'[tmp'] = Empty
  <1> DEFINE free == Inodes \ {ino[q] : q \in Procs}
  <1>1. free # {}
    BY FileFree
  <1>2. (CHOOSE j \in free : TRUE) \in free
    BY <1>1
  <1> HIDE DEF free
  <1>3. free \subseteq Inodes
    BY DEF free
  <1>4. /\ tmp' = IF tmp = None THEN CHOOSE j \in free : TRUE ELSE tmp
        /\ data' = [j \in Inodes |-> IF j = tmp' \/ j \in free THEN Empty ELSE data[j]]
        /\ ino' = [ino EXCEPT ![p] = tmp']
    BY DEF OpenStaging, free
  <1>5. tmp' \in Inodes
    BY <1>2, <1>3, <1>4 DEF TypeOK
  <1>6. data' \in [Inodes -> EngineFile]
    BY <1>4, EngineType DEF TypeOK
  <1> QED BY <1>4, <1>5, <1>6, NoneIsNothing

(* A step of one process moves no other.                                   *)
LEMMA OthersFrame ==
  ASSUME TypeOK, NEW p \in Procs, Step(p), NEW q \in Procs, q # p
  PROVE  /\ pc'[q] = pc[q] /\ ino'[q] = ino[q] /\ got'[q] = got[q]
         /\ pay'[q] = pay[q] /\ model'[q] = model[q]
  <1>1. pc'[q] = pc[q]
    BY DEF Step, Save, Load, SaveEngine, WriteBody, Seal, SaveEngineFails, Reopen, Sum, Create,
           Copy, WriteSide, SaveFails, EndSave, Boot, LoadHeader, LoadEngine, LoadSide, Stage,
           StageHead, StageBody, StageFails, PersistHeader, PersistBody, PersistFails, Unstage,
           Drop, Decode, LoadWords, FallBack, Quit, Crash, SmokeTrain, At, Goto, TypeOK
  <1>2. ino'[q] = ino[q]
    BY DEF Step, Save, Load, SaveEngine, WriteBody, Seal, SaveEngineFails, Reopen, Sum, Create,
           Copy, WriteSide, SaveFails, EndSave, Boot, LoadHeader, LoadEngine, LoadSide, Stage,
           StageHead, StageBody, StageFails, PersistHeader, PersistBody, PersistFails, Unstage,
           Drop, Decode, LoadWords, FallBack, Quit, Crash, SmokeTrain, OpenStaging, RemoveStaging,
           TypeOK, local
  <1>3. got'[q] = got[q]
    BY DEF Step, Save, Load, SaveEngine, WriteBody, Seal, SaveEngineFails, Reopen, Sum, Create,
           Copy, WriteSide, SaveFails, EndSave, Boot, LoadHeader, LoadEngine, LoadSide, Stage,
           StageHead, StageBody, StageFails, PersistHeader, PersistBody, PersistFails, Unstage,
           Drop, Decode, LoadWords, FallBack, Quit, Crash, SmokeTrain, RemoveStaging, TypeOK, local
  <1>4. pay'[q] = pay[q]
    BY DEF Step, Save, Load, SaveEngine, WriteBody, Seal, SaveEngineFails, Reopen, Sum, Create,
           Copy, WriteSide, SaveFails, EndSave, Boot, LoadHeader, LoadEngine, LoadSide, Stage,
           StageHead, StageBody, StageFails, PersistHeader, PersistBody, PersistFails, Unstage,
           Drop, Decode, LoadWords, FallBack, Quit, Crash, SmokeTrain, RemoveStaging, TypeOK, local
  <1>5. model'[q] = model[q]
    BY DEF Step, Save, Load, SaveEngine, WriteBody, Seal, SaveEngineFails, Reopen, Sum, Create,
           Copy, WriteSide, SaveFails, EndSave, Boot, LoadHeader, LoadEngine, LoadSide, Stage,
           StageHead, StageBody, StageFails, PersistHeader, PersistBody, PersistFails, Unstage,
           Drop, Decode, LoadWords, FallBack, Quit, Crash, SmokeTrain, TypeOK, local
  <1> QED BY <1>1, <1>2, <1>3, <1>4, <1>5

(* How a step changes the staging file, and the session file.              *)
LEMMA FileSteps ==
  ASSUME NEW p \in Procs, Step(p)
  PROVE  /\ \/ tmp' = tmp
            \/ tmp' = None
            \/ OpenStaging(p)
         /\ \/ data' = data
            \/ OpenStaging(p)
            \/ /\ pc[p] = "body" /\ p \in Savers
               /\ data' = [data EXCEPT ![ino[p]] = [head |-> Placeholder, body |-> model[p].graph]]
            \/ /\ pc[p] = "seal" /\ p \in Savers
               /\ data' = [data EXCEPT ![ino[p]].head = model[p].tick]
            \/ /\ pc[p] = "stageHead" /\ p \in Loaders
               /\ data' = [data EXCEPT ![ino[p]].head = pay[p].eng.head]
            \/ /\ pc[p] = "stageBody" /\ p \in Loaders
               /\ data' = [data EXCEPT ![ino[p]].body = pay[p].eng.body]
         /\ \/ ckpt' = ckpt
            \/ /\ pc[p] = "create" /\ p \in Savers
               /\ ckpt' = [NoFile EXCEPT !.head = got[p]]
            \/ /\ pc[p] = "copy" /\ p \in Savers
               /\ ckpt' = [ckpt EXCEPT !.eng = Prefix(data[ino[p]], got[p].len)]
            \/ /\ pc[p] = "side" /\ p \in Savers
               /\ ckpt' = [ckpt EXCEPT !.side = Encoded(model[p])]
  BY DEF Step, Save, Load, SaveEngine, WriteBody, Seal, SaveEngineFails, Reopen, Sum, Create,
         Copy, WriteSide, SaveFails, EndSave, Boot, LoadHeader, LoadEngine, LoadSide, Stage,
         StageHead, StageBody, StageFails, PersistHeader, PersistBody, PersistFails, Unstage,
         Drop, Decode, LoadWords, FallBack, Quit, Crash, At, RemoveStaging, files

(* Each process stays within its program.                                  *)
LEMMA PlacesStep ==
  ASSUME TypeOK, Places, NEW p \in Procs, Step(p)
  PROVE  pc' \in [Procs -> SavePlaces \cup LoadPlaces] /\ Places'
  <1>1. Savers \cap Loaders = {} /\ Procs = Savers \cup Loaders
    BY SessionSizes DEF Procs
  <1>2. pc' \in [Procs -> SavePlaces \cup LoadPlaces]
   <2>1. CASE Crash(p)
    BY <2>1 DEF Crash, Goto, Idle, TypeOK, SavePlaces, LoadPlaces
   <2>2. CASE ~Crash(p)
    BY <2>2 DEF Step, Save, Load, SaveEngine, WriteBody, Seal, SaveEngineFails, Reopen, Sum, Create,
           Copy, WriteSide, SaveFails, EndSave, Boot, LoadHeader, LoadEngine, LoadSide, Stage,
           StageHead, StageBody, StageFails, PersistHeader, PersistBody, PersistFails, Unstage,
           Drop, Decode, LoadWords, FallBack, Quit, SmokeTrain, At, Goto, TypeOK, SavePlaces,
           LoadPlaces
   <2> QED BY <2>1, <2>2
  <1>3. p \in Savers => pc'[p] \in SavePlaces
    <2>1. CASE Crash(p)
      BY <2>1 DEF Crash, Goto, Idle, SavePlaces, TypeOK
    <2>2. CASE p \in Savers /\ Save(p)
      BY <2>2 DEF Save, SaveEngine, WriteBody, Seal, SaveEngineFails, Reopen, Sum, Create,
           Copy, WriteSide, SaveFails, EndSave, At, Goto, TypeOK, SavePlaces
    <2> QED BY <2>1, <2>2, <1>1 DEF Step
  <1>4. p \in Loaders => pc'[p] \in LoadPlaces
    <2>1. CASE Crash(p)
      BY <2>1, <1>1 DEF Crash, Goto, Idle, LoadPlaces, TypeOK
    <2>2. CASE p \in Loaders /\ Load(p)
      BY <2>2 DEF Load, Boot, LoadHeader, LoadEngine, LoadSide, Stage,
           StageHead, StageBody, StageFails, PersistHeader, PersistBody, PersistFails, Unstage,
           Drop, Decode, LoadWords, FallBack, Quit, SmokeTrain, At, Goto, TypeOK, LoadPlaces
    <2> QED BY <2>1, <2>2, <1>1 DEF Step
  <1> QED BY <1>1, <1>2, <1>3, <1>4, OthersFrame DEF Places

(* Models: those that a tool makes, and those that a load puts together.   *)
LEMMA ModelStep ==
  ASSUME TypeOK, NEW p \in Procs, Step(p)
  PROVE  /\ made' \in {0} \cup Versions /\ made' >= made
         /\ \/ model' = model
            \/ /\ SaveEngine(p) /\ made' = made + 1 /\ made' \in Versions
               /\ model' = [model EXCEPT ![p] = Saved(made')]
            \/ model' = [model EXCEPT ![p] = Smoke]
            \/ p \in Loaders /\ PersistBody(p)
            \/ p \in Loaders /\ Decode(p)
         /\ made' # made => SaveEngine(p)
  <1>1. made' = made \/ (SaveEngine(p) /\ made' = made + 1 /\ made + 1 \in Versions)
    BY DEF Step, Save, Load, SaveEngine, WriteBody, Seal, SaveEngineFails, Reopen, Sum, Create,
           Copy, WriteSide, SaveFails, EndSave, Boot, LoadHeader, LoadEngine, LoadSide, Stage,
           StageHead, StageBody, StageFails, PersistHeader, PersistBody, PersistFails, Unstage,
           Drop, Decode, LoadWords, FallBack, Quit, Crash
  <1>2. \/ model' = model
        \/ /\ SaveEngine(p) /\ made' = made + 1 /\ made' \in Versions
           /\ model' = [model EXCEPT ![p] = Saved(made')]
        \/ model' = [model EXCEPT ![p] = Smoke]
        \/ p \in Loaders /\ PersistBody(p)
        \/ p \in Loaders /\ Decode(p)
    BY DEF Step, Save, Load, SaveEngine, WriteBody, Seal, SaveEngineFails, Reopen, Sum, Create,
           Copy, WriteSide, SaveFails, EndSave, Boot, LoadHeader, LoadEngine, LoadSide, Stage,
           StageHead, StageBody, StageFails, PersistHeader, PersistFails, Unstage,
           Drop, LoadWords, FallBack, Quit, Crash, SmokeTrain, local
  <1>3. made \in {0} \cup Versions
    BY DEF TypeOK
  <1> QED BY <1>1, <1>2, <1>3, VersionType

(* Every step leaves models, and the engines in them whole.                *)
LEMMA ModelTypeStep ==
  ASSUME TypeOK, Engines, NEW p \in Procs, Step(p)
  PROVE  model' \in [Procs -> Model] /\ Engines'
  <1> USE DEF Engines
  <1>1. model \in [Procs -> Model]
    BY DEF TypeOK
  <1>2. CASE model' = model
    BY <1>1, <1>2
  <1>3. CASE model' = [model EXCEPT ![p] = Saved(made')] /\ made' \in Versions
    BY <1>1, <1>3, ModelType DEF Saved
  <1>4. CASE model' = [model EXCEPT ![p] = Smoke]
    BY <1>1, <1>4, ModelType DEF Smoke
  <1>5. CASE p \in Loaders /\ PersistBody(p)
    <2> DEFINE body == data[ino[p]].body
               m == Staged(model[p], pay[p].top, body)
    <2>1. model' = [model EXCEPT ![p] = m] /\ body = pay[p].top /\ pc[p] = "load"
      BY <1>5 DEF PersistBody, BodyValid, At
    <2>2. pay[p].top \in Versions
      BY <2>1 DEF TypeOK
    <2>3. m \in Model /\ m.tick = m.graph
      BY <1>1, <2>1, <2>2 DEF Staged, Cleared, Model
    <2> QED BY <1>1, <2>1, <2>3
  <1>6. CASE p \in Loaders /\ Decode(p)
    <2> DEFINE side == pay[p].side
               m == [model[p] EXCEPT !.query = side.ver, !.tables = side.has]
    <2>1. model' = [model EXCEPT ![p] = m] /\ pc[p] = "decode"
      BY <1>6 DEF Decode, At
    <2>2. side \in SideBlob
      BY <2>1 DEF TypeOK
    <2>3. m \in Model /\ m.tick = model[p].tick /\ m.graph = model[p].graph
      BY <1>1, <2>2, SideType, ModelType DEF Model
    <2> QED BY <1>1, <2>1, <2>3
  <1> QED BY <1>2, <1>3, <1>4, <1>5, <1>6, ModelStep

(* The model that a tool is saving.                                        *)
LEMMA SavedModel ==
  ASSUME TypeOK, Makers, NEW s \in Savers, pc[s] # "idle"
  PROVE  /\ model[s].tick \in Versions /\ model[s] = Saved(model[s].tick)
         /\ model[s].graph = model[s].tick
         /\ Encoded(model[s]) = Encoded(Saved(model[s].tick))
         /\ Encoded(model[s]) \in SideBlob
  <1>1. model[s].tick \in {0} \cup Versions
    BY DEF TypeOK, Procs, Model
  <1>2. model[s].tick \in Versions /\ model[s] = Saved(model[s].tick)
    BY <1>1 DEF Makers
  <1>3. model[s].graph = model[s].tick
    BY <1>2 DEF Saved
  <1> QED BY <1>2, <1>3, SideType

(* Every step leaves files of the right form.                              *)
LEMMA FileTypeStep ==
  ASSUME TypeOK, Makers, Headers, NEW p \in Procs, Step(p)
  PROVE  /\ tmp' \in Inodes \cup {None} /\ data' \in [Inodes -> EngineFile]
         /\ ckpt' \in [head : Header \cup {None}, eng : EngineFile, side : SideBlob \cup {None}]
  <1>1. tmp' \in Inodes \cup {None}
    BY FileSteps, OpenStagingType DEF TypeOK
  <1>2. data' \in [Inodes -> EngineFile]
    <2>1. data \in [Inodes -> EngineFile] /\ pay[p].eng \in EngineFile
          /\ ino[p] \in Inodes \cup {None}
      BY DEF TypeOK
    <2>2. CASE /\ pc[p] = "body" /\ p \in Savers
               /\ data' = [data EXCEPT ![ino[p]] = [head |-> Placeholder, body |-> model[p].graph]]
      BY <2>1, <2>2, SavedModel, EngineType
    <2>3. CASE /\ pc[p] = "seal" /\ p \in Savers
               /\ data' = [data EXCEPT ![ino[p]].head = model[p].tick]
      <3>1. model[p].tick \in Versions /\ ino[p] \in Inodes
        BY <2>3, SavedModel DEF TypeOK
      <3>2. [data[ino[p]] EXCEPT !.head = model[p].tick] \in EngineFile
        BY <2>1, <3>1 DEF EngineFile
      <3> QED BY <2>1, <2>3, <3>1, <3>2
    <2>4. CASE /\ pc[p] = "stageHead" /\ p \in Loaders
               /\ data' = [data EXCEPT ![ino[p]].head = pay[p].eng.head]
      <3>1. ino[p] \in Inodes
        BY <2>4 DEF TypeOK
      <3>2. [data[ino[p]] EXCEPT !.head = pay[p].eng.head] \in EngineFile
        BY <2>1, <3>1 DEF EngineFile
      <3> QED BY <2>1, <2>4, <3>1, <3>2
    <2>5. CASE /\ pc[p] = "stageBody" /\ p \in Loaders
               /\ data' = [data EXCEPT ![ino[p]].body = pay[p].eng.body]
      <3>1. ino[p] \in Inodes
        BY <2>5 DEF TypeOK
      <3>2. [data[ino[p]] EXCEPT !.body = pay[p].eng.body] \in EngineFile
        BY <2>1, <3>1 DEF EngineFile
      <3> QED BY <2>1, <2>5, <3>1, <3>2
    <2> QED BY <2>1, <2>2, <2>3, <2>4, <2>5, FileSteps, OpenStagingType
  <1>3. ckpt' \in [head : Header \cup {None}, eng : EngineFile, side : SideBlob \cup {None}]
    <2>1. ckpt \in [head : Header \cup {None}, eng : EngineFile, side : SideBlob \cup {None}]
          /\ got[p] \in Header \cup {None}
      BY DEF TypeOK
    <2>2. CASE ckpt' = [NoFile EXCEPT !.head = got[p]]
      BY <2>1, <2>2, EngineType DEF NoFile
    <2>3. CASE pc[p] = "copy" /\ ckpt' = [ckpt EXCEPT !.eng = Prefix(data[ino[p]], got[p].len)]
      <3>1. data[ino[p]] \in EngineFile /\ got[p] \in Header
        BY <2>3 DEF TypeOK
      <3>2. Prefix(data[ino[p]], got[p].len) \in EngineFile
        BY <3>1, EngineType, HeaderType
      <3> QED BY <2>1, <2>3, <3>2
    <2>4. CASE /\ pc[p] = "side" /\ p \in Savers
               /\ ckpt' = [ckpt EXCEPT !.side = Encoded(model[p])]
      BY <2>1, <2>4, SavedModel
    <2> QED BY <2>1, <2>2, <2>3, <2>4, FileSteps
  <1> QED BY <1>1, <1>2, <1>3

(* How a step changes what a process has open, its header and its payload. *)
LEMMA LocalSteps ==
  ASSUME NEW p \in Procs, Step(p)
  PROVE  /\ \/ ino' = ino \/ ino' = [ino EXCEPT ![p] = None]
            \/ OpenStaging(p) \/ (ino' = [ino EXCEPT ![p] = tmp] /\ tmp # None)
         /\ \/ got' = got \/ got' = [got EXCEPT ![p] = None]
            \/ (p \in Savers /\ Reopen(p)) \/ (p \in Savers /\ Sum(p))
            \/ (p \in Loaders /\ LoadHeader(p))
         /\ \/ pay' = pay \/ pay' = [pay EXCEPT ![p] = NoPay]
            \/ (p \in Loaders /\ LoadEngine(p)) \/ (p \in Loaders /\ LoadSide(p))
            \/ (p \in Loaders /\ PersistHeader(p)) \/ (p \in Loaders /\ PersistBody(p))
  <1>1. \/ ino' = ino \/ ino' = [ino EXCEPT ![p] = None]
        \/ OpenStaging(p) \/ (ino' = [ino EXCEPT ![p] = tmp] /\ tmp # None)
    BY DEF Step, Save, Load, Crash, SaveEngine, WriteBody, Seal,
           SaveEngineFails, Reopen, Sum, Create, Copy, WriteSide, SaveFails,
           EndSave, RemoveStaging, Boot, LoadHeader, LoadEngine, LoadSide,
           Stage, StageHead, StageBody, StageFails, PersistHeader,
           PersistBody, PersistFails, Unstage, Drop, Decode, LoadWords,
           FallBack, Quit, SmokeTrain, local, EngineHeaderValid
  <1>2. \/ got' = got \/ got' = [got EXCEPT ![p] = None]
        \/ (p \in Savers /\ Reopen(p)) \/ (p \in Savers /\ Sum(p))
        \/ (p \in Loaders /\ LoadHeader(p))
    BY DEF Step, Save, Load, Crash, SaveEngine, WriteBody, Seal,
           SaveEngineFails, Create, Copy, WriteSide, SaveFails, EndSave,
           RemoveStaging, Boot, LoadEngine, LoadSide, Stage, StageHead,
           StageBody, StageFails, PersistHeader, PersistBody, PersistFails,
           Unstage, Drop, Decode, LoadWords, FallBack, Quit, SmokeTrain, local
  <1>3. \/ pay' = pay \/ pay' = [pay EXCEPT ![p] = NoPay]
        \/ (p \in Loaders /\ LoadEngine(p)) \/ (p \in Loaders /\ LoadSide(p))
        \/ (p \in Loaders /\ PersistHeader(p)) \/ (p \in Loaders /\ PersistBody(p))
    BY DEF Step, Save, Load, Crash, SaveEngine, WriteBody, Seal,
           SaveEngineFails, Reopen, Sum, Create, Copy, WriteSide, SaveFails,
           EndSave, RemoveStaging, Boot, LoadHeader, Stage, StageHead,
           StageBody, StageFails, PersistFails, Unstage, Drop, Decode,
           LoadWords, FallBack, Quit, SmokeTrain, local
  <1> QED BY <1>1, <1>2, <1>3

(* Every step leaves what a process has in hand of the right form.         *)
LEMMA LocalTypeStep ==
  ASSUME TypeOK, Places, Makers, Headers, NEW p \in Procs, Step(p)
  PROVE  /\ ino' \in [Procs -> Inodes \cup {None}]
         /\ got' \in [Procs -> Header \cup {None}]
         /\ pay' \in [Procs -> [eng : EngineFile, side : SideBlob \cup {None},
                                top : Versions \cup {None}]]
  <1>1. /\ ino \in [Procs -> Inodes \cup {None}]
        /\ got \in [Procs -> Header \cup {None}]
        /\ pay \in [Procs -> [eng : EngineFile, side : SideBlob \cup {None},
                                top : Versions \cup {None}]]
        /\ data \in [Inodes -> EngineFile] /\ tmp \in Inodes \cup {None}
        /\ ckpt \in [head : Header \cup {None}, eng : EngineFile, side : SideBlob \cup {None}]
    BY DEF TypeOK
  <1>2. ino' \in [Procs -> Inodes \cup {None}]
    BY <1>1, LocalSteps, OpenStagingType
  <1>3. got' \in [Procs -> Header \cup {None}]
    <2>1. CASE p \in Savers /\ Reopen(p)
      <3>1. got' = [got EXCEPT ![p] = [len |-> Size(data[tmp]), sum |-> None]] /\ tmp # None
        BY <2>1 DEF Reopen
      <3> QED BY <1>1, <3>1, EngineSize, HeaderType
    <2>2. CASE p \in Savers /\ Sum(p)
      <3> DEFINE f == Prefix(data[ino[p]], got[p].len)
      <3>1. got' = [got EXCEPT ![p].sum = <<f, Encoded(model[p])>>] /\ pc[p] = "sum"
        BY <2>2 DEF Sum, At
      <3>2. got[p] \in Header /\ data[ino[p]] \in EngineFile
        BY <3>1, <1>1 DEF TypeOK
      <3>3. f \in EngineFile /\ Encoded(model[p]) \in SideBlob
        BY <3>1, <3>2, <2>2, EngineType, HeaderType, SavedModel
      <3> HIDE DEF f
      <3>4. [got[p] EXCEPT !.sum = <<f, Encoded(model[p])>>] \in Header
        BY <3>2, <3>3 DEF Header
      <3> QED BY <1>1, <3>1, <3>4
    <2>3. CASE p \in Loaders /\ LoadHeader(p)
      BY <1>1, <2>3 DEF LoadHeader
    <2> QED BY <1>1, <2>1, <2>2, <2>3, LocalSteps
  <1>4. pay' \in [Procs -> [eng : EngineFile, side : SideBlob \cup {None},
                                top : Versions \cup {None}]]
    <2>1. CASE p \in Loaders /\ LoadEngine(p)
      <3>1. pay' = [pay EXCEPT ![p].eng = Prefix(ckpt.eng, got[p].len)] /\ pc[p] = "engine"
        BY <2>1 DEF LoadEngine, At
      <3>2. got[p] \in Header
        BY <3>1, <1>1 DEF TypeOK
      <3>3. Prefix(ckpt.eng, got[p].len) \in EngineFile
        BY <1>1, <3>2, HeaderType, EngineType
      <3> QED BY <1>1, <3>1, <3>3
    <2>2. CASE p \in Loaders /\ LoadSide(p)
      <3>1. pay' = [pay EXCEPT ![p].side = ckpt.side]
        BY <2>2 DEF LoadSide
      <3> QED BY <1>1, <3>1
    <2>3. CASE p \in Loaders /\ PersistHeader(p)
      <3>1. pay' = [pay EXCEPT ![p].top = data[tmp].head] /\ data[tmp].head \in Versions
        BY <2>3 DEF PersistHeader, EngineHeaderValid
      <3> QED BY <1>1, <3>1
    <2>4. CASE p \in Loaders /\ PersistBody(p)
      <3>1. pay' = [pay EXCEPT ![p].top = None, ![p].eng = Empty]
        BY <2>4 DEF PersistBody
      <3> QED BY <1>1, <3>1, EngineType
    <2>5. CASE pay' = [pay EXCEPT ![p] = NoPay]
      BY <1>1, <2>5, EngineType DEF NoPay
    <2> QED BY <1>1, <2>1, <2>2, <2>3, <2>4, <2>5, LocalSteps
  <1> QED BY <1>2, <1>3, <1>4

(* What a process has at each place of its program, after its own step.    *)
Held(p) ==
  /\ pc[p] \in {"body", "seal", "sum", "create", "copy", "stageHead", "stageBody", "load"}
       => ino[p] # None
  /\ pc[p] \in {"sum", "create", "copy", "engine", "payload"} => got[p] # None
  /\ pc[p] \in {"stage", "stageHead", "stageBody", "persist", "load", "unstage", "decode"}
       => pay[p].side # None
  /\ pc[p] = "load" => pay[p].top # None

(* A process has what the next step of its program takes for granted.      *)
LEMMA HeldStep ==
  ASSUME TypeOK, Places, Makers, Headers, NEW p \in Procs, Step(p)
  PROVE  Held(p)'
  <1>1. /\ ino \in [Procs -> Inodes \cup {None}]
        /\ got \in [Procs -> Header \cup {None}]
        /\ pay \in [Procs -> [eng : EngineFile, side : SideBlob \cup {None},
                                top : Versions \cup {None}]]
        /\ data \in [Inodes -> EngineFile] /\ tmp \in Inodes \cup {None}
        /\ pc \in [Procs -> SavePlaces \cup LoadPlaces] /\ Held(p)
    BY DEF TypeOK, Held
  <1> USE DEF At, Goto
  <1>2. CASE Crash(p)
    BY <1>1, <1>2 DEF Held, Crash, Idle
  <1>3. CASE p \in Savers /\ Save(p)
    <2> DEFINE x == pc'[p]
    <2>1. CASE SaveEngine(p)
      <3>1. x = "body" /\ OpenStaging(p)
        BY <2>1, <1>1 DEF SaveEngine
      <3> QED BY <1>1, <3>1, OpenStagingType DEF Held
    <2>2. CASE WriteBody(p)
      <3>1. x = "seal" /\ ino' = ino /\ pc[p] = "body"
        BY <2>2, <1>1 DEF WriteBody, local
      <3> QED BY <1>1, <3>1 DEF Held
    <2>3. CASE Reopen(p)
      <3>1. x = "sum" /\ ino'[p] = tmp /\ tmp # None
            /\ got' = [got EXCEPT ![p] = [len |-> Size(data[tmp]), sum |-> None]]
        BY <2>3, <1>1 DEF Reopen
      <3>2. got'[p] # None
        BY <1>1, <3>1, EngineSize, HeaderType
      <3> QED BY <3>1, <3>2 DEF Held
    <2>4. CASE Sum(p)
      <3>1. x = "create" /\ ino' = ino /\ pc[p] = "sum"
            /\ got' = [got EXCEPT ![p].sum = <<Prefix(data[ino[p]], got[p].len), Encoded(model[p])>>]
        BY <2>4, <1>1 DEF Sum
      <3>2. got[p] \in Header /\ got'[p] = [got[p] EXCEPT !.sum = <<Prefix(data[ino[p]], got[p].len), Encoded(model[p])>>]
        BY <1>1, <3>1 DEF Held
      <3>3. got'[p] \in Header \cup {None}
        BY LocalTypeStep
      <3>4. got'[p] # None
        <4>1. data[ino[p]] \in EngineFile
          BY <1>1, <3>1 DEF Held
        <4>2. Prefix(data[ino[p]], got[p].len) \in EngineFile /\ Encoded(model[p]) \in SideBlob
          BY <4>1, <3>1, <3>2, <1>3, EngineType, HeaderType, SavedModel
        <4>3. got'[p] \in Header
          BY <3>2, <4>2 DEF Header
        <4> QED BY <4>3, HeaderType
      <3> QED BY <1>1, <3>1, <3>4 DEF Held
    <2>5. CASE Create(p) \/ Copy(p) \/ SaveFails(p)
      <3>1. /\ ino' = ino /\ got' = got
            /\ x \in {"copy", "side", "giveUp", "close"}
            /\ x = "copy" => pc[p] = "create"
        BY <2>5, <1>1 DEF Create, Copy, SaveFails, local
      <3> QED BY <1>1, <3>1 DEF Held
    <2>6. CASE Seal(p) \/ SaveEngineFails(p) \/ WriteSide(p) \/ EndSave(p)
      <3>1. x \in {"reopen", "idle", "close"}
        BY <2>6, <1>1 DEF Seal, SaveEngineFails, WriteSide, EndSave
      <3> QED BY <3>1 DEF Held
    <2> QED BY <1>3, <2>1, <2>2, <2>3, <2>4, <2>5, <2>6 DEF Save
  <1>4. CASE p \in Loaders /\ Load(p)
    <2> DEFINE x == pc'[p]
    <2>1. CASE LoadHeader(p)
      <3>1. x = "engine" /\ got'[p] = ckpt.head /\ ckpt.head # None
        BY <2>1, <1>1 DEF LoadHeader, HeaderValid
      <3> QED BY <3>1 DEF Held
    <2>2. CASE LoadEngine(p)
      <3>1. x = "payload" /\ got' = got /\ pc[p] = "engine"
        BY <2>2, <1>1 DEF LoadEngine
      <3> QED BY <1>1, <3>1 DEF Held
    <2>3. CASE LoadSide(p)
      <3>1. x = "stage" /\ pay' = [pay EXCEPT ![p].side = ckpt.side] /\ ckpt.side # None
        BY <2>3, <1>1 DEF LoadSide, PayloadValid
      <3> QED BY <1>1, <3>1 DEF Held
    <2>4. CASE Stage(p)
      <3>1. x = "stageHead" /\ OpenStaging(p) /\ pay' = pay /\ pc[p] = "stage"
        BY <2>4, <1>1 DEF Stage
      <3> QED BY <1>1, <3>1, OpenStagingType DEF Held
    <2>5. CASE StageHead(p) \/ StageBody(p) \/ StageFails(p) \/ Unstage(p) \/ PersistFails(p)
      <3>1. /\ pay' = pay
            /\ \/ x = "stageBody" /\ pc[p] = "stageHead" /\ ino' = ino
               \/ x = "persist" /\ pc[p] = "stageBody"
               \/ x = "decode" /\ pc[p] = "unstage"
               \/ x = "drop"
        BY <2>5, <1>1 DEF StageHead, StageBody, StageFails, Unstage, PersistFails, local
      <3> QED BY <1>1, <3>1 DEF Held
    <2>6. CASE PersistHeader(p)
      <3>1. x = "load" /\ pc[p] = "persist" /\ ino'[p] = tmp /\ tmp # None
            /\ pay' = [pay EXCEPT ![p].top = data[tmp].head] /\ data[tmp].head \in Versions
        BY <2>6, <1>1 DEF PersistHeader, EngineHeaderValid
      <3> QED BY <1>1, <3>1, NoneIsNothing DEF Held
    <2>7. CASE PersistBody(p)
      <3>1. x = "unstage" /\ pc[p] = "load"
            /\ pay' = [pay EXCEPT ![p].top = None, ![p].eng = Empty]
        BY <2>7, <1>1 DEF PersistBody
      <3> QED BY <1>1, <3>1 DEF Held
    <2>8. CASE Boot(p) \/ Drop(p) \/ Decode(p) \/ LoadWords(p) \/ FallBack(p) \/ Quit(p)
      <3>1. x \in {"chat", "header", "words", "off"}
        BY <2>8, <1>1 DEF Boot, Drop, Decode, LoadWords, FallBack, Quit, SmokeTrain
      <3> QED BY <3>1 DEF Held
    <2> QED BY <1>4, <2>1, <2>2, <2>3, <2>4, <2>5, <2>6, <2>7, <2>8 DEF Load
  <1> QED BY <1>2, <1>3, <1>4 DEF Step

(* The histories, in terms of the processes that the step spoils.          *)
LEMMA HistoryStep ==
  ASSUME NEW p \in Procs, Witnessed(p)
  PROVE  /\ alone' = (IF pc[p] = "off" THEN alone \cup {p} ELSE alone) \ Spoilt(p)
         /\ pure' = pure \ {model[q].tick : q \in Spoilt(p) \cap Savers}
         /\ good' = IF ckpt' = ckpt THEN good
                    ELSE IF pc[p] = "create" \/ good = model[p].tick THEN model[p].tick ELSE 0
         /\ sure' = [q \in Loaders |->
                       CASE q = p /\ pc[p] = "off"          -> IF Reported THEN good ELSE 0
                         [] q \in Spoilt(p) \/ ckpt' # ckpt -> 0
                         [] OTHER                           -> sure[q]]
  BY DEF Witnessed, Spoilt

(* The counts of boots and faults stay within their bounds.                *)
LEMMA CounterStep ==
  ASSUME TypeOK, NEW p \in Procs, Step(p)
  PROVE  faults' \in 0..MaxFaults /\ boots' \in 0..MaxBoots
  <1>1. \/ faults' = faults
        \/ faults < MaxFaults /\ faults' = faults + 1
    BY DEF Step, Save, Load, Crash, SaveEngine, WriteBody, Seal, SaveEngineFails, Reopen, Sum, Create,
           Copy, WriteSide, SaveFails, EndSave, Boot, LoadHeader, LoadEngine, LoadSide, Stage,
           StageHead, StageBody, StageFails, PersistHeader, PersistBody, PersistFails, Unstage,
           Drop, Decode, LoadWords, FallBack, Quit, Fault
  <1>2. \/ boots' = boots
        \/ boots < MaxBoots /\ boots' = boots + 1
    BY DEF Step, Save, Load, Crash, SaveEngine, WriteBody, Seal, SaveEngineFails, Reopen, Sum, Create,
           Copy, WriteSide, SaveFails, EndSave, Boot, LoadHeader, LoadEngine, LoadSide, Stage,
           StageHead, StageBody, StageFails, PersistHeader, PersistBody, PersistFails, Unstage,
           Drop, Decode, LoadWords, FallBack, Quit
  <1> QED BY <1>1, <1>2, SessionSizes DEF TypeOK

(* Every step keeps the type invariant.                                    *)
LEMMA TypeStep ==
  ASSUME TypeOK, Places, Makers, Headers, Engines, NEW p \in Procs, Step(p), Witnessed(p)
  PROVE  TypeOK'
  <1>1. Held(p)' /\ \A q \in Procs \ {p} : Held(q)
    BY HeldStep DEF TypeOK, Held
  <1>2. \A q \in Procs \ {p} : Held(q)'
    BY <1>1, OthersFrame DEF Held
  <1>3. \A q \in Procs : Held(q)'
    BY <1>1, <1>2
  <1>4. pc[p] = "off" => p \in Loaders
    BY DEF Places, Procs, SavePlaces
  <1>5. alone' \subseteq Loaders /\ pure' \subseteq Versions
    BY <1>4, HistoryStep DEF TypeOK
  <1>6. good' \in {0} \cup Versions
    BY HistoryStep DEF TypeOK, Model
  <1>7. sure' \in [Loaders -> {0} \cup Versions]
    BY HistoryStep DEF TypeOK
  <1>8. made' \in {0} \cup Versions
    BY ModelStep
  <1>9. /\ pc' \in [Procs -> SavePlaces \cup LoadPlaces]
        /\ model' \in [Procs -> Model]
    BY PlacesStep, ModelTypeStep
  <1> QED BY <1>3, <1>5, <1>6, <1>7, <1>8, <1>9, FileTypeStep, LocalTypeStep, CounterStep
          DEF TypeOK, Held

(* Makers: a save makes a version that nobody has made.                    *)
LEMMA MakersStep ==
  ASSUME TypeOK, Places, Makers, NEW p \in Procs, Step(p)
  PROVE  Makers'
  <1>1. Savers \subseteq Procs /\ Savers \cap Loaders = {}
    BY SessionSizes DEF Procs
  <1>2. /\ made \in Nat /\ made' \in Nat /\ made' >= made
        /\ model \in [Procs -> Model] /\ \A q \in Procs : model[q].tick \in Nat
        /\ pc \in [Procs -> SavePlaces \cup LoadPlaces]
    <2>1. made \in {0} \cup Versions /\ made' \in {0} \cup Versions /\ made' >= made
      BY ModelStep DEF TypeOK
    <2>2. model \in [Procs -> Model] /\ \A q \in Procs : model[q].tick \in {0} \cup Versions
      BY DEF TypeOK, Model
    <2>3. {0} \cup Versions \subseteq Nat
      BY VersionType
    <2>4. made \in Nat /\ made' \in Nat
      BY <2>1, <2>3
    <2>5. \A q \in Procs : model[q].tick \in Nat
      BY <2>2, <2>3
    <2>6. pc \in [Procs -> SavePlaces \cup LoadPlaces]
      BY DEF TypeOK
    <2> QED BY <2>1, <2>2, <2>4, <2>5, <2>6
  <1>3. CASE p \notin Savers
    BY <1>1, <1>2, <1>3, OthersFrame DEF Makers
  <1>4. CASE p \in Savers
    <2>1. CASE SaveEngine(p)
      <3>1. /\ made' = made + 1 /\ made' \in Versions
            /\ model' = [model EXCEPT ![p] = Saved(made')]
        BY <2>1 DEF SaveEngine
      <3>2. model'[p] = Saved(made') /\ model'[p].tick = made'
        BY <1>2, <3>1 DEF Saved
      <3> QED BY <1>1, <1>2, <3>1, <3>2, OthersFrame DEF Makers
    <2>2. CASE model' = [model EXCEPT ![p] = Smoke]
      <3>1. pc'[p] = "idle"
        <4>1. CASE Crash(p)
          BY <1>2, <4>1, <1>4 DEF Crash, Idle, Goto
        <4>2. CASE ~Crash(p) /\ pc[p] # "idle"
          <5>1. p \in Savers /\ Save(p)
            BY <4>2, <1>1, <1>4 DEF Step
          <5>2. ~SaveEngine(p)
            BY <4>2 DEF SaveEngine, At
          <5>3. model' = model
            BY <5>1, <5>2 DEF Save, WriteBody, Seal, SaveEngineFails, Reopen, Sum, Create, Copy,
                              WriteSide, SaveFails, EndSave, local
          <5>4. model[p].tick # 0
            BY <1>4, <4>2 DEF Makers
          <5> QED BY <1>2, <2>2, <5>3, <5>4 DEF Smoke
        <4>3. CASE ~Crash(p) /\ pc[p] = "idle"
          <5>1. SaveEngine(p)
            BY <4>3, <1>1, <1>4 DEF Step, Save, WriteBody, Seal, SaveEngineFails, Reopen, Sum,
                          Create, Copy, WriteSide, SaveFails, EndSave, At
          <5>2. model'[p] = Saved(made') /\ made' \in Versions
            BY <1>2, <5>1 DEF SaveEngine
          <5> QED BY <1>2, <2>2, <5>2, VersionType DEF Smoke, Saved
        <4> QED BY <4>1, <4>2, <4>3
      <3>2. model'[p].tick = 0
        BY <1>2, <2>2 DEF Smoke
      <3> QED BY <1>1, <1>2, <3>1, <3>2, OthersFrame DEF Makers
    <2>3. CASE model' = model /\ ~SaveEngine(p)
      <3>1. pc'[p] # "idle" => pc[p] # "idle"
        <4>1. CASE Crash(p)
          BY <1>2, <4>1, <1>4 DEF Crash, Idle, Goto
        <4>2. CASE Save(p)
          BY <2>3, <4>2 DEF Save, WriteBody, Seal, SaveEngineFails, Reopen, Sum,
                          Create, Copy, WriteSide, SaveFails, EndSave, At, Fault
        <4> QED BY <4>1, <4>2, <1>1, <1>4 DEF Step
      <3> QED BY <1>1, <1>2, <2>3, <3>1, OthersFrame DEF Makers
    <2> QED BY <1>1, <1>4, <2>1, <2>2, <2>3, ModelStep
  <1> QED BY <1>3, <1>4

(* While a process uses the staging file, the others leave it alone or     *)
(* spoil what it does.                                                     *)
LEMMA OthersUndisturbed ==
  ASSUME NEW p \in Procs, NEW q \in Procs, q # p, Staging(q), q \notin Spoilt(p)
  PROVE  tmp' = tmp /\ data' = data
  BY DEF Spoilt

(* Versions only cease to be pure, and a step that spoils a save takes its *)
(* version out of them.                                                    *)
LEMMA PureStep ==
  ASSUME NEW p \in Procs, Witnessed(p)
  PROVE  /\ pure' \subseteq pure
         /\ \A s \in Savers : model[s].tick \in pure' => s \notin Spoilt(p)
  BY HistoryStep

(* What Sum computes.                                                      *)
LEMMA SumStep ==
  ASSUME TypeOK, Makers, NEW p \in Savers, Sum(p), SaverHas(p)
  PROVE  /\ pc[p] = "sum" /\ pc'[p] = "create" /\ ino' = ino /\ tmp' = tmp /\ data' = data
         /\ model' = model /\ Complete(got'[p])
         /\ got'[p].sum[2] = Encoded(Saved(model[p].tick))
         /\ model[p].tick \in pure => got'[p] = HeaderOf(model[p].tick)
  <1> DEFINE f == Prefix(data[ino[p]], got[p].len)
             v == model[p].tick
  <1>1. /\ pc[p] = "sum" /\ pc' = [pc EXCEPT ![p] = "create"] /\ ino' = ino
        /\ tmp' = tmp /\ data' = data /\ model' = model
        /\ got' = [got EXCEPT ![p].sum = <<f, Encoded(model[p])>>]
    BY DEF Sum, At, Goto, files
  <1>2. /\ p \in Procs /\ pc \in [Procs -> SavePlaces \cup LoadPlaces]
        /\ got \in [Procs -> Header \cup {None}] /\ data[ino[p]] \in EngineFile
        /\ got[p] \in Header
    BY <1>1 DEF TypeOK, Procs
  <1>3. Encoded(model[p]) = Encoded(Saved(v)) /\ Encoded(model[p]) \in SideBlob /\ v \in Versions
    BY <1>1, SavedModel
  <1>4. f \in EngineFile /\ got[p].len \in 0..2
    BY <1>2, HeaderType, EngineType
  <1> HIDE DEF f
  <1>5. got'[p] = [len |-> got[p].len, sum |-> <<f, Encoded(Saved(v))>>]
    BY <1>1, <1>2, <1>3 DEF Header
  <1>6. Complete(got'[p]) /\ got'[p].sum[2] = Encoded(Saved(v))
    BY <1>3, <1>4, <1>5, HeaderType
  <1>7. ASSUME v \in pure PROVE got'[p] = HeaderOf(v)
    <2>1. got[p].len = 2 /\ data[ino[p]] = Whole(v)
      BY <1>1, <1>7 DEF SaverHas
    <2>2. f = Whole(v)
      BY <2>1, <1>3, EngineType, EngineSize DEF f
    <2> QED BY <1>5, <2>1, <2>2 DEF HeaderOf
  <1> QED BY <1>1, <1>2, <1>6, <1>7

(* A complete header keeps the checksum it had, and Sum takes it of what   *)
(* the staging file has.                                                   *)
LEMMA HeadersStep ==
  ASSUME TypeOK, Places, Makers, Headers, NEW p \in Procs, Step(p), Witnessed(p),
         p \in Savers => SaverHas(p)
  PROVE  Headers'
  <1>1. /\ pure' \subseteq pure /\ Procs = Savers \cup Loaders
        /\ got \in [Procs -> Header \cup {None}] /\ pc \in [Procs -> SavePlaces \cup LoadPlaces]
        /\ ckpt \in [head : Header \cup {None}, eng : EngineFile, side : SideBlob \cup {None}]
    BY PureStep DEF TypeOK, Procs
  <1>2. \A h : Honest(h) => Honest(h)'
    BY <1>1 DEF Honest
  <1>3. ckpt'.head # None => (Complete(ckpt.head) /\ Honest(ckpt.head))'
    <2>1. CASE pc[p] = "create" /\ ckpt' = [NoFile EXCEPT !.head = got[p]]
      BY <2>1, <1>2 DEF NoFile, Headers, Honest, Complete
    <2>2. CASE ckpt'.head = ckpt.head
      BY <2>2, <1>2 DEF Headers, Honest, Complete
    <2>3. \/ ckpt'.head = ckpt.head
          \/ pc[p] = "create" /\ ckpt' = [NoFile EXCEPT !.head = got[p]]
      BY FileSteps, <1>1
    <2> QED BY <2>1, <2>2, <2>3
  <1>4. \/ got'[p] = got[p]
        \/ got'[p] = None
        \/ got'[p] # None /\ got'[p].sum = None
        \/ p \in Savers /\ Sum(p)
        \/ p \in Loaders /\ LoadHeader(p)
    <2>1. CASE p \in Savers /\ Reopen(p)
      <3>1. got'[p] = [len |-> Size(data[tmp]), sum |-> None] /\ tmp # None
        BY <2>1, <1>1 DEF Reopen
      <3>2. got'[p] # None
        BY <3>1, EngineSize, HeaderType DEF TypeOK
      <3> QED BY <3>1, <3>2
    <2> QED BY <2>1, <1>1, LocalSteps
  <1>5. (Complete(got[p]) => Honest(got[p]))'
    <2>1. CASE got'[p] = got[p]
      BY <2>1, <1>2 DEF Headers, Honest, Complete
    <2>2. CASE p \in Savers /\ Sum(p)
      <3>1. got'[p].sum[2].ver = model[p].tick /\ pure' \subseteq pure
        BY <2>2, SumStep, SavedModel, SideType, <1>1
      <3>2. model[p].tick \in pure => got'[p].sum[1] = Whole(model[p].tick)
        <4>1. \A v : HeaderOf(v).sum[1] = Whole(v)
          BY DEF HeaderOf
        <4> QED BY <4>1, <2>2, SumStep
      <3> QED BY <3>1, <3>2 DEF Honest
    <2>3. CASE p \in Loaders /\ LoadHeader(p)
      <3>1. got'[p] = ckpt.head /\ ckpt' = ckpt
        BY <2>3, <1>1 DEF LoadHeader, files
      <3> QED BY <1>3, <3>1 DEF Honest, Complete
    <2> QED BY <1>4, <2>1, <2>2, <2>3 DEF Complete
  <1>6. (pc[p] \in {"create", "copy", "engine", "payload"} => Complete(got[p]))'
    <2>1. CASE Crash(p)
      BY <2>1, <1>1 DEF Crash, Goto, Idle
    <2>2. CASE p \in Savers /\ Sum(p)
      BY <2>2, SumStep DEF Complete
    <2>3. CASE p \in Savers /\ Save(p) /\ ~Sum(p)
      <3>1. pc'[p] \in {"create", "copy", "engine", "payload"}
              => pc[p] = "create" /\ got' = got
        BY <2>3, <1>1 DEF Save, SaveEngine, WriteBody, Seal, SaveEngineFails, Reopen, Create,
           Copy, WriteSide, SaveFails, EndSave, At, Goto, local
      <3> QED BY <3>1 DEF Headers, Complete
    <2>4. CASE p \in Loaders /\ LoadHeader(p)
      <3>1. got'[p] = ckpt.head /\ ckpt.head # None
        BY <2>4, <1>1 DEF LoadHeader, HeaderValid
      <3> QED BY <3>1 DEF Headers, Complete
    <2>5. CASE p \in Loaders /\ Load(p) /\ ~LoadHeader(p)
      <3>1. pc'[p] \in {"create", "copy", "engine", "payload"}
              => pc[p] = "engine" /\ got' = got
        BY <2>5, <1>1 DEF Load, Boot, LoadEngine, LoadSide, Stage,
         StageHead, StageBody, StageFails, PersistHeader, PersistBody, PersistFails, Unstage,
         Drop, Decode, LoadWords, FallBack, Quit, At, Goto, SmokeTrain, local
      <3> QED BY <3>1 DEF Headers, Complete
    <2> QED BY <2>1, <2>2, <2>3, <2>4, <2>5 DEF Step
  <1>7. \A q \in Procs \ {p} : got'[q] = got[q] /\ pc'[q] = pc[q]
    BY OthersFrame
  <1>8. \A q \in Procs \ {p} :
          /\ (pc[q] \in {"create", "copy", "engine", "payload"} => Complete(got[q]))'
          /\ (Complete(got[q]) => Honest(got[q]))'
    BY <1>2, <1>7 DEF Headers, Honest, Complete
  <1> QED BY <1>3, <1>5, <1>6, <1>8 DEF Headers

(* A save that stays pure finds in the staging file what it wrote there.   *)
LEMMA SaverHasStep ==
  ASSUME TypeOK, Places, Makers, Headers, NEW p \in Procs, Step(p), Witnessed(p),
         NEW s \in Savers, SaverHas(s)
  PROVE  SaverHas(s)'
  <1> DEFINE v == model[s].tick
  <1>1. /\ s \in Procs /\ Savers \cap Loaders = {} /\ pure' \subseteq pure
        /\ ino \in [Procs -> Inodes \cup {None}]
        /\ pc \in [Procs -> SavePlaces \cup LoadPlaces]
        /\ tmp \in Inodes \cup {None} /\ data \in [Inodes -> EngineFile]
        /\ v \in pure' => s \notin Spoilt(p)
    BY SessionSizes, PureStep DEF TypeOK, Procs
  <1>2. CASE s # p
    <2>1. /\ pc'[s] = pc[s] /\ ino'[s] = ino[s] /\ got'[s] = got[s] /\ model'[s] = model[s]
      BY <1>1, <1>2, OthersFrame
    <2>2. SUFFICES ASSUME v \in pure' PROVE SaverHas(s)'
      BY <2>1 DEF SaverHas
    <2>3. pc[s] \in {"body", "seal", "reopen", "sum", "create", "copy"} => tmp' = tmp /\ data' = data
      BY <1>1, <1>2, <2>2, OthersUndisturbed DEF Staging
    <2> QED BY <1>1, <2>1, <2>2, <2>3 DEF SaverHas
  <1>3. CASE s = p /\ Crash(p)
    <2>1. pc'[s] = "idle"
      BY <1>1, <1>3 DEF Crash, Goto, Idle
    <2> QED BY <2>1 DEF SaverHas
  <1>4. CASE s = p /\ Save(p)
    <2>1. CASE SaveEngine(p)
      <3>1. pc'[s] = "body" /\ ino'[s] = tmp'
        BY <1>1, <1>4, <2>1, OpenStagingType DEF SaveEngine, At, Goto
      <3> QED BY <3>1 DEF SaverHas
    <2>2. CASE WriteBody(p)
      <3>1. /\ pc[s] = "body" /\ pc'[s] = "seal" /\ ino' = ino /\ tmp' = tmp /\ model' = model
            /\ data' = [data EXCEPT ![ino[s]] = [head |-> Placeholder, body |-> model[s].graph]]
        BY <1>1, <1>4, <2>2 DEF WriteBody, At, Goto, local
      <3>2. model[s].graph = v /\ ino[s] # None
        BY <1>1, <3>1, SavedModel DEF TypeOK
      <3>3. v \in pure' => ino[s] = tmp
        BY <1>1, <3>1 DEF SaverHas
      <3>4. v \in pure' => data'[tmp] = [head |-> Placeholder, body |-> v]
        BY <1>1, <3>1, <3>2, <3>3
      <3> QED BY <3>1, <3>3, <3>4 DEF SaverHas
    <2>3. CASE Seal(p)
      <3>1. /\ pc[s] = "seal" /\ pc'[s] = "reopen" /\ tmp' = tmp /\ model' = model
            /\ data' = [data EXCEPT ![ino[s]].head = v]
        BY <1>1, <1>4, <2>3 DEF Seal, At, Goto
      <3>2. ino[s] # None
        BY <1>1, <3>1 DEF TypeOK
      <3>3. ASSUME v \in pure' PROVE tmp # None /\ data'[tmp] = Whole(v)
        <4>1. tmp # None /\ ino[s] = tmp /\ data[tmp] = [head |-> Placeholder, body |-> v]
          BY <1>1, <3>1, <3>2, <3>3 DEF SaverHas
        <4>2. data'[tmp] = [data[tmp] EXCEPT !.head = v]
          BY <1>1, <3>1, <4>1
        <4> QED BY <4>1, <4>2 DEF Whole
      <3> QED BY <3>1, <3>3 DEF SaverHas
    <2>4. CASE SaveEngineFails(p)
      <3>1. faults' # faults /\ model' = model
        BY <2>4, SessionSizes DEF SaveEngineFails, Fault, TypeOK
      <3>2. s \in Spoilt(p)
        BY <1>4, <3>1 DEF Spoilt
      <3> QED BY <1>1, <3>1, <3>2 DEF SaverHas
    <2>5. CASE Reopen(p)
      <3>1. /\ pc[s] = "reopen" /\ pc'[s] = "sum" /\ tmp' = tmp /\ data' = data /\ model' = model
            /\ ino'[s] = tmp /\ got'[s] = [len |-> Size(data[tmp]), sum |-> None]
        BY <1>1, <1>4, <2>5 DEF Reopen, At, Goto, files, TypeOK
      <3>2. ASSUME v \in pure' PROVE tmp # None /\ data[tmp] = Whole(v) /\ Size(data[tmp]) = 2
        BY <1>1, <3>1, <3>2, EngineSize DEF SaverHas, TypeOK
      <3> QED BY <3>1, <3>2 DEF SaverHas
    <2>6. CASE Sum(p)
      <3>1. v \in pure' => /\ ino[s] = tmp /\ tmp # None /\ data[tmp] = Whole(v)
                           /\ got'[s] = HeaderOf(v)
        BY <1>1, <1>4, <2>6, SumStep DEF SaverHas
      <3> QED BY <1>4, <2>6, <3>1, SumStep DEF SaverHas
    <2>7. CASE Create(p)
      <3>1. /\ pc[s] = "create" /\ pc'[s] = "copy" /\ tmp' = tmp /\ data' = data /\ model' = model
            /\ ino' = ino /\ got' = got
        BY <1>1, <1>4, <2>7 DEF Create, At, Goto, local
      <3> QED BY <1>1, <3>1 DEF SaverHas
    <2>8. CASE Copy(p) \/ WriteSide(p) \/ SaveFails(p) \/ EndSave(p)
      <3>1. pc'[s] \in {"side", "close", "giveUp", "idle"}
        BY <1>1, <1>4, <2>8 DEF Copy, WriteSide, SaveFails, EndSave, At, Goto
      <3> QED BY <3>1 DEF SaverHas
    <2> QED BY <1>4, <2>1, <2>2, <2>3, <2>4, <2>5, <2>6, <2>7, <2>8 DEF Save
  <1> QED BY <1>1, <1>2, <1>3, <1>4 DEF Step

(* A process that a call fails is spoilt.                                  *)
LEMMA FaultSpoils ==
  ASSUME TypeOK, NEW p \in Procs, Fault
  PROVE  faults' # faults /\ p \in Spoilt(p)
  BY SessionSizes DEF Fault, Spoilt, TypeOK

(* A load that stays alone finds in the staging file what it wrote there.  *)
LEMMA LoaderHasStep ==
  ASSUME TypeOK, Places, Headers, Engines, NEW p \in Procs, Step(p), Witnessed(p),
         NEW q \in Loaders, LoaderHas(q)
  PROVE  LoaderHas(q)'
  <1> DEFINE v == pay[q].side.ver
  <1>1. /\ q \in Procs /\ Savers \cap Loaders = {} /\ pure' \subseteq pure /\ 0 \notin pure'
        /\ ino \in [Procs -> Inodes \cup {None}]
        /\ pc \in [Procs -> SavePlaces \cup LoadPlaces]
        /\ tmp \in Inodes \cup {None} /\ data \in [Inodes -> EngineFile]
        /\ got \in [Procs -> Header \cup {None}]
        /\ pay \in [Procs -> [eng : EngineFile, side : SideBlob \cup {None},
                                top : Versions \cup {None}]]
        /\ model \in [Procs -> Model]
    BY SessionSizes, PureStep, VersionType DEF TypeOK, Procs
  <1>2. q \in alone' /\ pc[q] # "off" => q \in alone /\ q \notin Spoilt(p)
    BY HistoryStep
  <1>3. CASE q # p
    <2>1. /\ pc'[q] = pc[q] /\ ino'[q] = ino[q] /\ pay'[q] = pay[q] /\ model'[q] = model[q]
      BY <1>1, <1>3, OthersFrame
    <2>2. q \in alone' => q \in alone /\ q \notin Spoilt(p)
      BY <1>3, HistoryStep
    <2>3. q \in alone' /\ pc[q] \in {"stageHead", "stageBody", "persist", "load"}
            => tmp' = tmp /\ data' = data
      BY <1>1, <1>3, <2>2, OthersUndisturbed DEF Staging
    <2> QED BY <1>1, <2>1, <2>2, <2>3 DEF LoaderHas
  <1>4. CASE q = p /\ Crash(p)
    <2>1. pc'[q] = "off"
      BY <1>1, <1>4 DEF Crash, Goto, Idle
    <2> QED BY <2>1 DEF LoaderHas
  <1>5. CASE q = p /\ SmokeTrain(p)
    <2>1. pc'[q] = "chat" /\ model'[q] = Smoke
      BY <1>1, <1>5 DEF SmokeTrain, Goto
    <2>2. model'[q].query = 0
      BY <2>1 DEF Smoke
    <2> QED BY <1>1, <2>1, <2>2 DEF LoaderHas
  <1>6. CASE q = p /\ Load(p) /\ ~SmokeTrain(p)
    <2>1. CASE Boot(p) \/ LoadHeader(p) \/ LoadEngine(p) \/ PersistFails(p) \/ FallBack(p)
               \/ Quit(p) \/ Drop(p)
      <3>1. pc'[q] \in {"header", "engine", "payload", "drop", "off"}
        BY <1>1, <1>6, <2>1 DEF Boot, LoadHeader, LoadEngine, PersistFails, FallBack, Quit, Drop,
                                At, Goto
      <3> QED BY <3>1 DEF LoaderHas
    <2>2. CASE LoadSide(p)
      <3>1. /\ pc[q] = "payload" /\ pc'[q] = "stage" /\ pay' = [pay EXCEPT ![q].side = ckpt.side]
            /\ got[q].sum = <<pay[q].eng, ckpt.side>>
        BY <1>1, <1>6, <2>2 DEF LoadSide, At, Goto, PayloadValid
      <3>2. Honest(got[q])
        BY <1>1, <3>1 DEF Headers
      <3>3. pay'[q].eng = pay[q].eng /\ pay'[q].side = ckpt.side
        BY <1>1, <3>1
      <3>4. got[q].sum[1] = pay[q].eng /\ got[q].sum[2] = ckpt.side
        BY <3>1
      <3>5. ckpt.side.ver \in pure' => pay[q].eng = Whole(ckpt.side.ver)
        BY <1>1, <3>2, <3>4 DEF Honest
      <3> QED BY <3>1, <3>3, <3>5 DEF LoaderHas
    <2>3. CASE Stage(p)
      <3>1. pc[q] = "stage" /\ pc'[q] = "stageHead" /\ pay' = pay /\ ino'[q] = tmp'
        BY <1>1, <1>6, <2>3, OpenStagingType DEF Stage, At, Goto
      <3> QED BY <1>1, <3>1 DEF LoaderHas
    <2>4. CASE StageHead(p)
      <3>1. /\ pc[q] = "stageHead" /\ pc'[q] = "stageBody" /\ pay' = pay /\ ino' = ino /\ tmp' = tmp
            /\ data' = [data EXCEPT ![ino[q]].head = pay[q].eng.head]
        BY <1>1, <1>6, <2>4 DEF StageHead, At, Goto, local
      <3>2. ino[q] # None
        BY <1>1, <3>1 DEF TypeOK
      <3>3. data'[ino[q]].head = pay[q].eng.head
        BY <1>1, <3>1, <3>2 DEF EngineFile
      <3> QED BY <1>1, <1>2, <3>1, <3>3 DEF LoaderHas
    <2>5. CASE StageBody(p)
      <3>1. /\ pc[q] = "stageBody" /\ pc'[q] = "persist" /\ pay' = pay /\ tmp' = tmp
            /\ data' = [data EXCEPT ![ino[q]].body = pay[q].eng.body]
        BY <1>1, <1>6, <2>5 DEF StageBody, At, Goto
      <3>2. ino[q] # None
        BY <1>1, <3>1 DEF TypeOK
      <3>3. ASSUME q \in alone PROVE data'[tmp] = pay[q].eng
        <4>1. ino[q] = tmp /\ data[tmp].head = pay[q].eng.head
          BY <1>1, <3>1, <3>3 DEF LoaderHas
        <4>2. data'[tmp] = [data[tmp] EXCEPT !.body = pay[q].eng.body]
          BY <1>1, <3>1, <3>2, <4>1
        <4>3. data[tmp] \in EngineFile /\ pay[q].eng \in EngineFile
          BY <1>1, <3>2, <4>1
        <4> QED BY <4>1, <4>2, <4>3 DEF EngineFile
      <3> QED BY <1>1, <1>2, <3>1, <3>3 DEF LoaderHas
    <2>6. CASE StageFails(p)
      <3>1. /\ pay' = pay
            /\ pc'[q] = "drop" \/ (pc[q] = "stageBody" /\ pc'[q] = "persist")
        BY <1>1, <1>6, <2>6 DEF StageFails, At, Goto
      <3>2. pc[q] # "off"
        BY <1>6, <2>6 DEF StageFails, At
      <3>3. q \notin alone'
        BY <1>2, <1>6, <2>6, <3>2, FaultSpoils DEF StageFails
      <3> QED BY <1>1, <3>1, <3>3 DEF LoaderHas
    <2>7. CASE PersistHeader(p)
      <3>1. /\ pc[q] = "persist" /\ pc'[q] = "load"
            /\ pay' = [pay EXCEPT ![q].top = data[tmp].head]
        BY <1>1, <1>6, <2>7 DEF PersistHeader, At, Goto
      <3>2. pay'[q].top = data[tmp].head /\ pay'[q].side = pay[q].side
        BY <1>1, <3>1
      <3>3. q \in alone /\ v \in pure => data[tmp].head = v
        BY <3>1 DEF LoaderHas, Whole
      <3>4. q \in alone' => ino'[q] = tmp'
        BY <1>1, <1>6, <2>7 DEF PersistHeader, files
      <3> QED BY <1>1, <1>2, <3>1, <3>2, <3>3, <3>4 DEF LoaderHas
    <2>8. CASE PersistBody(p)
      <3>1. /\ pc[q] = "load" /\ pc'[q] = "unstage"
            /\ pay' = [pay EXCEPT ![q].top = None, ![q].eng = Empty]
            /\ model' = [model EXCEPT ![q] = Staged(@, pay[q].top, data[ino[q]].body)]
        BY <1>1, <1>6, <2>8 DEF PersistBody, At, Goto
      <3>2. pay'[q].side = pay[q].side
        BY <1>1, <3>1
      <3>3. model'[q].tick = pay[q].top
        <4>1. model'[q] = Staged(model[q], pay[q].top, data[ino[q]].body) /\ model[q] \in Model
          BY <1>1, <3>1
        <4> QED BY <4>1 DEF Staged, Cleared, Model
      <3> QED BY <1>1, <1>2, <3>1, <3>2, <3>3 DEF LoaderHas
    <2>9. CASE Unstage(p)
      <3>1. /\ pc[q] = "unstage" /\ pc'[q] = "decode" /\ pay' = pay /\ model' = model
        BY <1>1, <1>6, <2>9 DEF Unstage, At, Goto, local
      <3> QED BY <1>1, <1>2, <3>1 DEF LoaderHas
    <2>10. CASE Decode(p)
      <3> DEFINE side == pay[q].side
                 m == [model[q] EXCEPT !.query = side.ver, !.tables = side.has]
      <3>1. /\ pc[q] = "decode" /\ pc'[q] = "words"
            /\ model' = [model EXCEPT ![q] = m]
        BY <1>1, <1>6, <2>10 DEF Decode, At, Goto
      <3>2. side \in SideBlob
        BY <1>1, <3>1 DEF TypeOK
      <3>3. /\ model'[q] = m /\ m.query = v /\ m.tick = model[q].tick /\ m.graph = model[q].tick
            /\ m.tables = TablesOf[v] /\ m \in Model
        BY <1>1, <3>1, <3>2, SideType, ModelType DEF Engines, Model
      <3> HIDE DEF m
      <3>4. ASSUME q \in alone', v \in pure' PROVE m = Saved(v)
        <4>1. model[q].tick = v
          BY <1>1, <1>2, <3>1, <3>4 DEF LoaderHas
        <4> QED BY <3>3, <4>1 DEF Saved, Model
      <3> QED BY <1>1, <3>1, <3>3, <3>4 DEF LoaderHas
    <2>11. CASE LoadWords(p)
      <3>1. pc[q] = "words" /\ pc'[q] = "chat" /\ model' = model
        BY <1>1, <1>6, <2>11 DEF LoadWords, At, Goto, local
      <3> QED BY <1>1, <1>2, <3>1 DEF LoaderHas
    <2> QED BY <1>6, <2>1, <2>2, <2>3, <2>4, <2>5, <2>6, <2>7, <2>8, <2>9, <2>10, <2>11 DEF Load
  <1> QED BY <1>1, <1>3, <1>4, <1>5, <1>6 DEF Step

(* Who changes the session file, and to what.                              *)
LEMMA SessionFileSteps ==
  ASSUME NEW p \in Procs, Step(p), ckpt' # ckpt
  PROVE  p \in Savers /\ (Create(p) \/ Copy(p) \/ WriteSide(p))
  BY DEF Step, Save, Load, Crash, SaveEngine, WriteBody, Seal, SaveEngineFails, Reopen, Sum,
         SaveFails, EndSave, Boot, LoadHeader, LoadEngine, LoadSide, Stage,
         StageHead, StageBody, StageFails, PersistHeader, PersistBody, PersistFails, Unstage,
         Drop, Decode, LoadWords, FallBack, Quit, files

(* The parts of a session file.                                            *)
LEMMA FileParts ==
  ASSUME NEW v \in Versions
  PROVE  /\ FileOf(v).head = HeaderOf(v) /\ FileOf(v).eng = Whole(v)
         /\ FileOf(v).side = Encoded(Saved(v))
         /\ HeaderOf(v).len = 2 /\ HeaderOf(v).sum = <<Whole(v), Encoded(Saved(v))>>
         /\ HeaderOf(v) # None /\ Encoded(Saved(v)) # None /\ FileOf(v) # NoFile
         /\ Whole(v).head = v /\ Whole(v).body = v /\ Size(Whole(v)) = 2
         /\ Prefix(Whole(v), 2) = Whole(v)
  <1>1. /\ FileOf(v).head = HeaderOf(v) /\ FileOf(v).eng = Whole(v)
        /\ FileOf(v).side = Encoded(Saved(v)) /\ NoFile.side = None
    BY DEF FileOf, NoFile
  <1>2. /\ HeaderOf(v).len = 2 /\ HeaderOf(v).sum = <<Whole(v), Encoded(Saved(v))>>
    BY DEF HeaderOf
  <1>3. HeaderOf(v) \in Header
    <2>1. Whole(v) \in EngineFile /\ Encoded(Saved(v)) \in SideBlob
      BY EngineType, SideType, Zenon
    <2>2. [len |-> 2, sum |-> <<Whole(v), Encoded(Saved(v))>>] \in Header
      BY <2>1, HeaderType
    <2> QED BY <2>2 DEF HeaderOf
  <1>4. Whole(v).head = v /\ Whole(v).body = v
    BY DEF Whole
  <1> QED BY <1>1, <1>2, <1>3, <1>4, HeaderType, SideType, EngineSize, EngineType

(* The three writes of a save that nobody has interfered with.             *)
LEMMA CleanWrites ==
  ASSUME TypeOK, Makers, NEW p \in Savers, SaverHas(p), model[p].tick \in pure
  PROVE  LET v == model[p].tick
         IN  /\ Create(p) => /\ ckpt' = HeadWritten(v)
                             /\ pc'[p] = "copy" /\ pc[p] = "create" /\ model' = model
             /\ Copy(p) => /\ ckpt' = [ckpt EXCEPT !.eng = Whole(v)]
                           /\ pc'[p] = "side" /\ pc[p] = "copy" /\ model' = model
             /\ WriteSide(p) => /\ ckpt' = [ckpt EXCEPT !.side = Encoded(Saved(v))]
                                /\ pc'[p] = "close" /\ pc[p] = "side" /\ model' = model
             /\ pc[p] \in {"sum", "copy"} => ~Short(p)
  <1> DEFINE v == model[p].tick
  <1>1. /\ p \in Procs /\ pc \in [Procs -> SavePlaces \cup LoadPlaces] /\ v \in Versions
        /\ ino \in [Procs -> Inodes \cup {None}]
    BY DEF TypeOK, Procs
  <1> HIDE DEF v
  <1>2. ASSUME Create(p)
        PROVE  /\ ckpt' = HeadWritten(v)
               /\ pc'[p] = "copy" /\ pc[p] = "create" /\ model' = model
    <2>1. /\ ckpt' = [NoFile EXCEPT !.head = got[p]]
          /\ pc'[p] = "copy" /\ pc[p] = "create" /\ model' = model
      BY <1>1, <1>2 DEF Create, At, Goto, local
    <2>2. got[p] = HeaderOf(v)
      BY <2>1 DEF SaverHas, v
    <2> QED BY <2>1, <2>2 DEF NoFile, HeadWritten
  <1>3. pc[p] \in {"sum", "copy"} => data[ino[p]] = Whole(v) /\ got[p].len = 2
    BY FileParts, <1>1 DEF SaverHas, v
  <1>4. ASSUME Copy(p)
        PROVE  /\ ckpt' = [ckpt EXCEPT !.eng = Whole(v)]
               /\ pc'[p] = "side" /\ pc[p] = "copy" /\ model' = model
    <2>1. /\ ckpt' = [ckpt EXCEPT !.eng = Prefix(data[ino[p]], got[p].len)]
          /\ pc'[p] = "side" /\ pc[p] = "copy" /\ model' = model
      BY <1>1, <1>4 DEF Copy, At, Goto, local
    <2> QED BY <1>1, <1>3, <2>1, FileParts
  <1>5. ASSUME WriteSide(p)
        PROVE  /\ ckpt' = [ckpt EXCEPT !.side = Encoded(Saved(v))]
               /\ pc'[p] = "close" /\ pc[p] = "side" /\ model' = model
    <2>1. /\ ckpt' = [ckpt EXCEPT !.side = Encoded(model[p])]
          /\ pc'[p] = "close" /\ pc[p] = "side" /\ model' = model
      BY <1>1, <1>5 DEF WriteSide, At, Goto, local
    <2> QED BY <2>1, SavedModel DEF v
  <1>6. pc[p] \in {"sum", "copy"} => ~Short(p)
    BY <1>1, <1>3, FileParts DEF Short
  <1> QED BY <1>2, <1>4, <1>5, <1>6 DEF v

(* The session file stays that of the version good, as far as it has been  *)
(* written.                                                                *)
LEMMA FileHasStep ==
  ASSUME TypeOK, Places, Makers, FileHas, \A s \in Savers : SaverHas(s),
         NEW p \in Procs, Step(p), Witnessed(p)
  PROVE  FileHas'
  <1> DEFINE Begun(s, v) ==
               \/ pc[s] = "copy" /\ ckpt = HeadWritten(v)
               \/ pc[s] = "side" /\ ckpt = EngineWritten(v)
  <1>1. SUFFICES ASSUME good' \in pure'
                 PROVE  \/ (ckpt = FileOf(good))'
                        \/ \E s \in Savers : (model[s].tick = good /\ Begun(s, good))'
    BY DEF FileHas
  <1>2. /\ pure' \subseteq pure /\ pure \subseteq Versions /\ 0 \notin pure
        /\ Savers \cap Loaders = {} /\ Savers \subseteq Procs
        /\ \A v : (FileOf(v) = FileOf(v)')
    BY PureStep, SessionSizes, VersionType DEF TypeOK, Procs
  <1>3. ASSUME p \in Savers, good = model[p].tick, good' = good, Begun(p, good)
        PROVE  \/ ckpt' = FileOf(good)
               \/ model'[p].tick = good /\ Begun(p, good)'
    <2>1. /\ p \notin Spoilt(p) /\ model[p].tick \in pure /\ SaverHas(p)
          /\ model[p].tick \in Versions
      BY <1>1, <1>2, <1>3, PureStep
    <2>2. ~Crash(p) /\ ~Fault
      BY <2>1, FaultSpoils DEF Crash
    <2>3. pc[p] \in {"copy", "side"}
      BY <1>3
    <2>4. CASE Copy(p)
      <3>1. /\ ckpt' = [ckpt EXCEPT !.eng = Whole(good)]
            /\ pc'[p] = "side" /\ pc[p] = "copy" /\ model' = model
        BY <1>3, <2>1, <2>4, CleanWrites
      <3>2. ckpt = HeadWritten(good)
        BY <1>3, <3>1
      <3>3. ckpt' = EngineWritten(good)
        BY <3>1, <3>2 DEF HeadWritten, EngineWritten
      <3> QED BY <1>3, <3>1, <3>3
    <2>5. CASE WriteSide(p)
      <3>1. /\ ckpt' = [ckpt EXCEPT !.side = Encoded(Saved(good))] /\ pc[p] = "side"
        BY <1>3, <2>1, <2>5, CleanWrites
      <3>2. ckpt = EngineWritten(good)
        BY <1>3, <3>1
      <3> QED BY <3>1, <3>2 DEF EngineWritten, FileOf
    <2>6. ~SaveFails(p)
      <3>1. pc[p] \in {"sum", "copy"} => ~Short(p)
        BY <1>3, <2>1, CleanWrites
      <3> QED BY <2>2, <2>3, <3>1 DEF SaveFails
    <2> QED BY <1>2, <1>3, <2>2, <2>3, <2>4, <2>5, <2>6
            DEF Step, Save, SaveEngine, WriteBody, Seal, SaveEngineFails, Reopen, Sum, Create,
                EndSave, At
  <1>4. CASE ckpt' = ckpt
    <2>1. good' = good /\ good \in pure
      BY <1>1, <1>2, <1>4, HistoryStep
    <2>2. CASE ckpt = FileOf(good)
      BY <1>4, <2>1, <2>2
    <2>3. CASE \E s \in Savers : model[s].tick = good /\ Begun(s, good)
      <3>1. PICK s \in Savers : model[s].tick = good /\ Begun(s, good)
        BY <2>3
      <3>2. CASE s = p
        BY <1>3, <2>1, <3>1, <3>2
      <3>3. CASE s # p
        BY <1>2, <1>4, <2>1, <3>1, <3>3, OthersFrame
      <3> QED BY <3>2, <3>3
    <2> QED BY <2>1, <2>2, <2>3 DEF FileHas
  <1>5. CASE ckpt' # ckpt
    <2>1. p \in Savers /\ (Create(p) \/ Copy(p) \/ WriteSide(p))
      BY <1>5, SessionFileSteps
    <2>2. good' = model[p].tick /\ (pc[p] = "create" \/ good = model[p].tick)
      BY <1>1, <1>2, <1>5, HistoryStep
    <2>3. model[p].tick \in pure /\ SaverHas(p) /\ model[p].tick \in Versions
      BY <1>1, <1>2, <2>1, <2>2
    <2>4. CASE Create(p)
      BY <2>1, <2>2, <2>3, <2>4, CleanWrites
    <2>5. CASE ~Create(p)
      <3>1. pc[p] # "create" /\ good = model[p].tick
        BY <2>1, <2>2, <2>5 DEF Copy, WriteSide, At
      <3>2. CASE ckpt = FileOf(good)
        <4>1. \/ ckpt' = [ckpt EXCEPT !.eng = Whole(good)]
              \/ ckpt' = [ckpt EXCEPT !.side = Encoded(Saved(good))]
          BY <2>1, <2>3, <2>5, <3>1, CleanWrites
        <4>2. ckpt' = ckpt
          BY <3>2, <4>1 DEF FileOf
        <4> QED BY <1>5, <4>2
      <3>3. CASE \E s \in Savers : model[s].tick = good /\ Begun(s, good)
        <4>1. PICK s \in Savers : model[s].tick = good /\ Begun(s, good)
          BY <3>3
        <4>2. s = p
          BY <1>2, <2>1, <2>3, <3>1, <4>1 DEF Makers
        <4> QED BY <1>3, <2>1, <2>2, <3>1, <4>1, <4>2
      <3> QED BY <2>3, <3>1, <3>2, <3>3 DEF FileHas
    <2> QED BY <2>4, <2>5
  <1> QED BY <1>4, <1>5

(* A boot that has to find a version finds it in each of its steps, and    *)
(* none of the ways to fail is open to it.                                 *)
LEMMA SureHasStep ==
  ASSUME TypeOK, Places, FileHas, Engines, NEW p \in Procs, Step(p), Witnessed(p),
         NEW q \in Loaders, SureHas(q)
  PROVE  SureHas(q)'
  <1>1. /\ q \in Procs /\ Savers \cap Loaders = {} /\ Versions \subseteq Nat \ {0}
        /\ ino \in [Procs -> Inodes \cup {None}]
        /\ pc \in [Procs -> SavePlaces \cup LoadPlaces]
        /\ tmp \in Inodes \cup {None} /\ data \in [Inodes -> EngineFile]
        /\ got \in [Procs -> Header \cup {None}]
        /\ pay \in [Procs -> [eng : EngineFile, side : SideBlob \cup {None},
                                top : Versions \cup {None}]]
        /\ model \in [Procs -> Model]
        /\ \A v : FileOf(v)' = FileOf(v)
    BY SessionSizes, VersionType DEF TypeOK, Procs
  <1>2. SUFFICES ASSUME sure'[q] # 0 PROVE SureHas(q)'
    BY DEF SureHas
  <1>3. CASE q = p /\ pc[p] = "off"
    <2>1. Reported /\ sure'[q] = good
      BY <1>2, <1>3, HistoryStep
    <2>2. good \in Versions /\ ckpt = FileOf(good)
      BY <2>1 DEF Reported, FileHas, TypeOK
    <2>3. Boot(p)
      BY <1>1, <1>3 DEF Step, Crash, Load, LoadHeader, LoadEngine, LoadSide, Stage,
         StageHead, StageBody, StageFails, PersistHeader, PersistBody, PersistFails, Unstage,
         Drop, Decode, LoadWords, FallBack, Quit, At
    <2>4. ckpt' = ckpt /\ pc'[q] = "header"
      BY <1>1, <1>3, <2>2, <2>3, FileParts DEF Boot, files, Goto
    <2> QED BY <2>1, <2>2, <2>4 DEF SureHas
  <1>4. CASE ~(q = p /\ pc[p] = "off")
    <2> DEFINE v == sure[q]
    <2>1. q \notin Spoilt(p) /\ ckpt' = ckpt /\ sure'[q] = v /\ v # 0 /\ v \in Versions
      BY <1>2, <1>4, HistoryStep DEF TypeOK
    <2>2. /\ ckpt = FileOf(v) /\ pc[q] # "drop"
          /\ pc[q] \in {"engine", "payload"} => got[q] = HeaderOf(v)
          /\ pc[q] \in {"payload", "stage", "stageHead", "stageBody"} => pay[q].eng = Whole(v)
          /\ pc[q] \in {"stage", "stageHead", "stageBody", "persist", "load", "unstage", "decode"}
               => pay[q].side = Encoded(Saved(v))
          /\ pc[q] \in {"stageHead", "stageBody", "load"} => ino[q] = tmp
          /\ pc[q] = "stageBody" => data[tmp].head = v
          /\ pc[q] \in {"persist", "load"} => tmp # None /\ data[tmp] = Whole(v)
          /\ pc[q] = "load" => pay[q].top = v
          /\ pc[q] \in {"unstage", "decode"} => model[q].tick = v /\ model[q].graph = v
          /\ pc[q] \in {"words", "chat"} => model[q] = Saved(v)
      BY <2>1 DEF SureHas
    <2>3. CASE q # p
      <3>1. /\ pc'[q] = pc[q] /\ ino'[q] = ino[q] /\ got'[q] = got[q] /\ pay'[q] = pay[q]
            /\ model'[q] = model[q]
        BY <1>1, <2>3, OthersFrame
      <3>2. pc[q] \in {"stageHead", "stageBody", "persist", "load"} => tmp' = tmp /\ data' = data
        BY <1>1, <2>1, <2>3, OthersUndisturbed DEF Staging
      <3> QED BY <2>1, <2>2, <3>1, <3>2 DEF SureHas
    <2>4. CASE q = p
      <3>1. ~Fault /\ ~Crash(p)
        BY <2>1, <2>4, FaultSpoils DEF Crash
      <3> HIDE DEF v
      <3>2. CASE LoadHeader(p)
        <4>1. pc'[q] = "engine" /\ got'[q] = ckpt.head
          BY <1>1, <2>4, <3>2 DEF LoadHeader, At, Goto
        <4>2. got'[q] = HeaderOf(v)
          BY <2>1, <2>2, <4>1, FileParts
        <4> QED BY <2>1, <2>2, <4>1, <4>2 DEF SureHas
      <3>3. CASE LoadEngine(p)
        <4>1. /\ pc[q] = "engine" /\ pc'[q] = "payload" /\ got' = got
              /\ pay' = [pay EXCEPT ![q].eng = Prefix(ckpt.eng, got[q].len)]
          BY <1>1, <2>4, <3>3 DEF LoadEngine, At, Goto
        <4>2. Prefix(ckpt.eng, got[q].len) = Whole(v)
          BY <2>1, <2>2, <4>1, FileParts
        <4>3. pay'[q].eng = Whole(v) /\ got'[q] = HeaderOf(v)
          BY <1>1, <2>2, <4>1, <4>2
        <4> QED BY <2>1, <2>2, <4>1, <4>3 DEF SureHas
      <3>4. CASE LoadSide(p)
        <4>1. /\ pc[q] = "payload" /\ pc'[q] = "stage"
              /\ pay' = [pay EXCEPT ![q].side = ckpt.side]
          BY <1>1, <2>4, <3>4 DEF LoadSide, At, Goto
        <4>2. pay'[q].side = Encoded(Saved(v)) /\ pay'[q].eng = Whole(v)
          BY <1>1, <2>1, <2>2, <4>1, FileParts
        <4> QED BY <2>1, <2>2, <4>1, <4>2 DEF SureHas
      <3>5. CASE Stage(p)
        <4>1. pc[q] = "stage" /\ pc'[q] = "stageHead" /\ pay' = pay /\ ino'[q] = tmp'
          BY <1>1, <2>4, <3>5, OpenStagingType DEF Stage, At, Goto
        <4> QED BY <2>1, <2>2, <4>1 DEF SureHas
      <3>6. CASE StageHead(p)
        <4>1. /\ pc[q] = "stageHead" /\ pc'[q] = "stageBody" /\ pay' = pay /\ ino' = ino
              /\ tmp' = tmp /\ data' = [data EXCEPT ![ino[q]].head = pay[q].eng.head]
          BY <1>1, <2>4, <3>6 DEF StageHead, At, Goto, local
        <4>2. ino[q] # None /\ ino[q] = tmp /\ pay[q].eng.head = v
          BY <1>1, <2>1, <2>2, <4>1, FileParts DEF TypeOK
        <4>3. data'[tmp].head = v
          BY <1>1, <4>1, <4>2 DEF EngineFile
        <4> QED BY <2>1, <2>2, <4>1, <4>2, <4>3 DEF SureHas
      <3>7. CASE StageBody(p)
        <4>1. /\ pc[q] = "stageBody" /\ pc'[q] = "persist" /\ pay' = pay
              /\ tmp' = tmp /\ data' = [data EXCEPT ![ino[q]].body = pay[q].eng.body]
          BY <1>1, <2>4, <3>7 DEF StageBody, At, Goto
        <4>2. /\ ino[q] # None /\ ino[q] = tmp /\ pay[q].eng.body = v /\ data[tmp].head = v
          BY <1>1, <2>1, <2>2, <4>1, FileParts DEF TypeOK
        <4>3. data'[tmp] = [data[tmp] EXCEPT !.body = v] /\ data[tmp] \in EngineFile
          BY <1>1, <4>1, <4>2
        <4>4. data'[tmp] = Whole(v)
          BY <4>2, <4>3 DEF EngineFile, Whole
        <4> QED BY <2>1, <2>2, <4>1, <4>2, <4>4 DEF SureHas
      <3>8. CASE PersistHeader(p)
        <4>1. /\ pc[q] = "persist" /\ pc'[q] = "load" /\ ino'[q] = tmp
              /\ tmp' = tmp /\ data' = data
              /\ pay' = [pay EXCEPT ![q].top = data[tmp].head]
          BY <1>1, <2>4, <3>8 DEF PersistHeader, At, Goto, files
        <4>2. pay'[q].top = v /\ pay'[q].side = pay[q].side
          BY <1>1, <2>1, <2>2, <4>1, FileParts
        <4> QED BY <2>1, <2>2, <4>1, <4>2 DEF SureHas
      <3>9. CASE PersistBody(p)
        <4>1. /\ pc[q] = "load" /\ pc'[q] = "unstage"
              /\ pay' = [pay EXCEPT ![q].top = None, ![q].eng = Empty]
              /\ model' = [model EXCEPT ![q] = Staged(@, pay[q].top, data[ino[q]].body)]
          BY <1>1, <2>4, <3>9 DEF PersistBody, At, Goto
        <4>2. pay'[q].side = pay[q].side
          BY <1>1, <4>1
        <4>3. data[ino[q]].body = v /\ pay[q].top = v
          BY <2>1, <2>2, <4>1, FileParts
        <4>4. model'[q] = Staged(model[q], v, v) /\ model[q] \in Model
          BY <1>1, <4>1, <4>3
        <4>5. model'[q].tick = v /\ model'[q].graph = v
          BY <4>4 DEF Staged, Cleared, Model
        <4> QED BY <2>1, <2>2, <4>1, <4>2, <4>5 DEF SureHas
      <3>10. CASE Unstage(p)
        <4>1. pc[q] = "unstage" /\ pc'[q] = "decode" /\ pay' = pay /\ model' = model
          BY <1>1, <2>4, <3>10 DEF Unstage, At, Goto, local
        <4> QED BY <2>1, <2>2, <4>1 DEF SureHas
      <3>11. CASE Decode(p)
        <4> DEFINE side == pay[q].side
                   m == [model[q] EXCEPT !.query = side.ver, !.tables = side.has]
        <4>1. pc[q] = "decode" /\ pc'[q] = "words" /\ model' = [model EXCEPT ![q] = m]
          BY <1>1, <2>4, <3>11 DEF Decode, At, Goto
        <4>2. side \in SideBlob /\ side.ver = v /\ side.has = TablesOf[v]
          BY <1>1, <2>1, <2>2, <4>1, SideType
        <4>3. model'[q] = m /\ model[q] \in Model /\ model[q].tick = v /\ model[q].graph = v
          BY <1>1, <2>2, <4>1
        <4>4. m = Saved(v)
          BY <4>2, <4>3 DEF Saved, Model
        <4> QED BY <2>1, <2>2, <4>1, <4>3, <4>4 DEF SureHas
      <3>12. CASE LoadWords(p)
        <4>1. pc[q] = "words" /\ pc'[q] = "chat" /\ model' = model
          BY <1>1, <2>4, <3>12 DEF LoadWords, At, Goto, local
        <4> QED BY <2>1, <2>2, <4>1 DEF SureHas
      <3>13. CASE Quit(p)
        <4>1. pc'[q] = "off"
          BY <1>1, <2>4, <3>13 DEF Quit, At, Goto
        <4> QED BY <2>1, <2>2, <4>1 DEF SureHas
      <3>14. ~FallBack(p)
        <4>1. pc[q] = "header" => HeaderValid
          BY <2>1, <2>2, FileParts DEF HeaderValid
        <4>2. pc[q] = "engine" => EngineThere(q)
          BY <2>1, <2>2, FileParts DEF EngineThere
        <4>3. pc[q] = "payload" => PayloadValid(q)
          BY <2>1, <2>2, FileParts DEF PayloadValid
        <4>4. pc[q] = "decode" => Decodes(pay[q].side)
          BY <2>1, <2>2, SideType
        <4> QED BY <2>4, <3>1, <4>1, <4>2, <4>3, <4>4 DEF FallBack
      <3>15. ~PersistFails(p)
        <4>1. pc[q] = "persist" => EngineHeaderValid
          BY <2>1, <2>2, FileParts DEF EngineHeaderValid
        <4>2. pc[q] = "load" => BodyValid(pay[q].top, data[ino[q]].body)
          BY <2>1, <2>2, FileParts DEF BodyValid
        <4> QED BY <2>4, <4>1, <4>2 DEF PersistFails
      <3>16. ~Boot(p) /\ ~Drop(p) /\ ~StageFails(p)
        BY <1>4, <2>2, <2>4, <3>1 DEF Boot, Drop, StageFails
      <3> QED BY <1>1, <2>4, <3>1, <3>2, <3>3, <3>4, <3>5, <3>6, <3>7, <3>8, <3>9, <3>10, <3>11,
                 <3>12, <3>13, <3>14, <3>15, <3>16 DEF Step, Load
    <2> QED BY <2>3, <2>4
  <1> QED BY <1>3, <1>4

(* The invariant holds at first.                                           *)
LEMMA InitInv == Init => SessionInv
  <1> SUFFICES ASSUME Init PROVE SessionInv
    OBVIOUS
  <1> USE DEF Init
  <1>1. Procs = Savers \cup Loaders /\ Savers \cap Loaders = {} /\ Versions \subseteq Nat \ {0}
    BY SessionSizes, VersionType DEF Procs
  <1>2. TypeOK
    <2>1. tmp \in Inodes \cup {None} /\ data \in [Inodes -> EngineFile]
      BY EngineType
    <2>2. ckpt \in [head : Header \cup {None}, eng : EngineFile, side : SideBlob \cup {None}]
      BY EngineType DEF NoFile
    <2>3. /\ pc \in [Procs -> SavePlaces \cup LoadPlaces] /\ ino \in [Procs -> Inodes \cup {None}]
          /\ got \in [Procs -> Header \cup {None}]
      BY DEF SavePlaces, LoadPlaces
    <2>4. pay \in [Procs -> [eng : EngineFile, side : SideBlob \cup {None},
                             top : Versions \cup {None}]]
      BY EngineType DEF NoPay
    <2>5. model \in [Procs -> Model]
      BY ModelType
    <2>6. \A p \in Procs : pc[p] \in {"idle", "off"}
      OBVIOUS
    <2>7. sure \in [Loaders -> {0} \cup Versions]
      OBVIOUS
    <2>8. faults \in 0..MaxFaults /\ boots \in 0..MaxBoots
      BY SessionSizes
    <2> QED BY <2>1, <2>2, <2>3, <2>4, <2>5, <2>6, <2>7, <2>8 DEF TypeOK
  <1>3. Places
    BY <1>1 DEF Places, SavePlaces, LoadPlaces
  <1>4. Makers
    BY <1>1 DEF Makers, Smoke
  <1>5. Engines
    BY DEF Engines, Smoke
  <1>6. Headers
    BY <1>1 DEF Headers, NoFile, Complete
  <1>7. FileHas
    BY <1>1 DEF FileHas
  <1>8. \A s \in Savers : SaverHas(s)
    BY <1>1 DEF SaverHas
  <1>9. \A p \in Loaders : LoaderHas(p) /\ SureHas(p)
    BY <1>1 DEF LoaderHas, SureHas
  <1> QED BY <1>2, <1>3, <1>4, <1>5, <1>6, <1>7, <1>8, <1>9 DEF SessionInv

(* Every step keeps the invariant.                                         *)
LEMMA StepInv == SessionInv /\ [Next]_vars => SessionInv'
  <1> SUFFICES ASSUME SessionInv, [Next]_vars PROVE SessionInv'
    OBVIOUS
  <1>1. /\ TypeOK /\ Places /\ Makers /\ Engines /\ Headers /\ FileHas
        /\ \A s \in Savers : SaverHas(s)
        /\ \A p \in Loaders : LoaderHas(p) /\ SureHas(p)
    BY DEF SessionInv
  <1>2. CASE Next
    <2>1. PICK p \in Procs : Step(p) /\ Witnessed(p)
      BY <1>2 DEF Next, Step
    <2>2. TypeOK'
      BY <1>1, <2>1, TypeStep
    <2>3. Places' /\ Engines'
      BY <1>1, <2>1, PlacesStep, ModelTypeStep
    <2>4. Makers'
      BY <1>1, <2>1, MakersStep
    <2>5. Headers'
      BY <1>1, <2>1, HeadersStep
    <2>6. FileHas'
      BY <1>1, <2>1, FileHasStep
    <2>7. \A s \in Savers : SaverHas(s)'
      BY <1>1, <2>1, SaverHasStep
    <2>8. \A q \in Loaders : LoaderHas(q)'
      BY <1>1, <2>1, LoaderHasStep
    <2>9. \A q \in Loaders : SureHas(q)'
      BY <1>1, <2>1, SureHasStep
    <2> QED BY <2>2, <2>3, <2>4, <2>5, <2>6, <2>7, <2>8, <2>9 DEF SessionInv
  <1>3. CASE UNCHANGED vars
    <2>1. /\ UNCHANGED <<ckpt, tmp, data, pc, ino, got, pay, model, made, boots, faults>>
          /\ UNCHANGED <<alone, pure, good, sure>>
      BY <1>3 DEF vars, files, local, history
    <2>2. TypeOK' /\ Places' /\ Makers' /\ Engines'
      BY <1>1, <2>1 DEF TypeOK, Places, Makers, Engines
    <2>3. Headers' /\ FileHas'
      BY <1>1, <2>1 DEF Headers, Complete, Honest, FileHas
    <2>4. \A s \in Savers : SaverHas(s)'
      BY <1>1, <2>1 DEF SaverHas
    <2>5. \A p \in Loaders : LoaderHas(p)' /\ SureHas(p)'
      BY <1>1, <2>1 DEF LoaderHas, SureHas
    <2> QED BY <2>2, <2>3, <2>4, <2>5 DEF SessionInv
  <1> QED BY <1>2, <1>3
-----------------------------------------------------------------------------
(* The invariant holds in every reachable state, for any number of tools   *)
(* and chats, of saves, boots and faults.                                  *)
THEOREM SessionInvariant == Spec => []SessionInv
  BY InitInv, StepInv, PTL DEF Spec

(* The session file, the staging file and all that the tools and the chats *)
(* have in hand are, part by part, what some save wrote.                   *)
THEOREM SessionTyped == Spec => []TypeOK
  <1>1. SessionInv => TypeOK
    BY DEF SessionInv
  <1> QED BY <1>1, SessionInvariant, PTL

(* No chat runs on an engine put together from two saves: the checksum of  *)
(* the body is compared with the header that was read before it            *)
(* (nerva_persist_load), whoever writes the staging file in between.       *)
THEOREM EngineNeverMixed == Spec => []EngineWhole
  <1>1. SessionInv => EngineWhole
    BY DEF SessionInv, Engines, EngineWhole, Procs
  <1> QED BY <1>1, SessionInvariant, PTL

(* A loaded model is all of one save if nobody else used the staging file  *)
(* during this load and that save, whoever writes the session file while   *)
(* it is read (fluency_session_save, fluency_session_load_ex).             *)
THEOREM ModelNeverMixed == Spec => []ModelOfOneSave
  <1>1. SessionInv => ModelOfOneSave
    BY DEF SessionInv, LoaderHas, ModelOfOneSave
  <1> QED BY <1>1, SessionInvariant, PTL

(* What a save reported, a boot loads, whatever crashed before, if nobody  *)
(* interferes and no call fails.                                           *)
THEOREM ReportedIsLoaded == Spec => []SavedIsLoaded
  <1>1. SessionInv => SavedIsLoaded
    BY DEF SessionInv, SureHas, SavedIsLoaded
  <1> QED BY <1>1, SessionInvariant, PTL
=============================================================================
