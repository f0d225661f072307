---------------------------- MODULE Pretrain_proofs ----------------------------
(***************************************************************************)
(* Proofs about Pretrain, for every corpus, interval between partial       *)
(* checkpoints and number of starts, crashes and failed writes.            *)
(***************************************************************************)
EXTENDS Pretrain, FiniteSetTheorems, SequenceTheorems, TLAPS

(* From the first step of training on, or after a resume: the model in     *)
(* memory is the one that is trained.                                      *)
InTraining == pc \in TrainAt \ {"load"}

(* No model and no resume point is of a run that has not started yet.      *)
RunsStarted ==
  /\ model.run <= starts
  /\ \A file \in {"ckpt", "part", "tmp"} : disk[file] \in Model => disk[file].run <= starts
  /\ disk["meta"] \in Meta => disk["meta"].run <= starts

(* What the places of the program count on.                                *)
Places ==
  /\ pc = "load" => disk["meta"] \in Meta
  /\ pc \in {"part", "meta"} => trained \in 1..Chunks /\ last = trained
  /\ pc = "part" /\ open => disk["part"] = Torn
  /\ pc = "meta" => disk["part"] \in {model, Torn}
  /\ pc \in {"words", "train"} /\ trained < Chunks => trained - last < SaveEvery
  /\ pc = "ckpt" => trained = Chunks
  /\ pc = "organs" /\ ~model.stale => Seen(model) = 1..Chunks
  /\ pc \in {"organs", "verify", "unlinkCkpt"} => Whole("ckpt")
  /\ pc \in {"unlinkCkpt", "rename"} => Whole("tmp")

(* The trained model has seen what the count of tokens says, and a resume  *)
(* point of the same run is not ahead of it.                               *)
Covered ==
  InTraining /\ ~model.stale =>
    /\ 1..trained \subseteq Seen(model)
    /\ disk["meta"] \in Meta /\ disk["meta"].run = model.run => disk["meta"].toks <= trained

(* The organs build works on checkpoints that are complete.                *)
TmpComplete == Whole("tmp") /\ ~disk["tmp"].stale => Seen(disk["tmp"]) = 1..Chunks

(* The inductive invariant behind ResumeCovered and CheckpointComplete.    *)
CoverInv == /\ TypeOK /\ RunsStarted /\ Places
            /\ Covered /\ ResumeCovered /\ TmpComplete /\ CheckpointComplete
-----------------------------------------------------------------------------
(* How many of the chunks that a model has learned it had learned before.  *)
Repeats(m) == Len(m.seen) - Cardinality(Seen(m))

(* How much of what a model has seen lies ahead of token t.                *)
Ahead(m, t) == Cardinality({k \in Seen(m) : k > t})

(* What training on from token t has repeated and will repeat.             *)
Cost(m, t) == Repeats(m) + Ahead(m, t)

(* What all the crashes and failed writes so far may have cost: an interval*)
(* each.                                                                   *)
Allowed == SaveEvery * (crashes + faults)

(* How much of the running training is not covered by the resume point on  *)
(* disk yet.                                                               *)
Lag == IF disk["meta"] \in Meta /\ last > disk["meta"].toks
       THEN last - disk["meta"].toks ELSE 0

(* A running training stays within what is allowed, also if it is resumed  *)
(* from the resume point on disk; while a partial save is under way, the   *)
(* interval it is about to secure is still at stake.                       *)
TrainingCost ==
  InTraining =>
    /\ Cost(model, trained) <= Allowed
    /\ Cost(model, trained) + Lag
         <= Allowed + IF pc \in {"part", "meta"} THEN SaveEvery ELSE 0

(* So does the training that the files on disk lead to.                    *)
ResumeCost ==
  disk["part"] \in Model /\ disk["meta"] \in Meta =>
    Cost(disk["part"], disk["meta"].toks)
      <= Allowed + IF pc = "meta" THEN SaveEvery ELSE 0

(* So do the models of the finished checkpoints.                           *)
FileCost ==
  \A file \in {"ckpt", "tmp"} : disk[file] \in Model => Repeats(disk[file]) <= Allowed

(* The inductive invariant behind RetrainsOneInterval.                     *)
RetrainInv == RetrainsOneInterval /\ TrainingCost /\ ResumeCost /\ FileCost
-----------------------------------------------------------------------------
(* The places that save, and their files.                                  *)
LEMMA SavePlaces ==
  /\ DOMAIN SavedAt = {"words", "part", "meta", "ckpt", "wordsAgain", "organs"}
  /\ SavedAt["words"] = "words" /\ SavedAt["part"] = "part" /\ SavedAt["meta"] = "meta"
  /\ SavedAt["ckpt"] = "ckpt" /\ SavedAt["wordsAgain"] = "words" /\ SavedAt["organs"] = "tmp"
  BY DEF SavedAt

(* A model and a resume point are no marks of a missing or torn file.      *)
LEMMA Contents ==
  /\ Absent \notin Model /\ Torn \notin Model /\ Lexicon \notin Model
  /\ Absent \notin Meta /\ Torn \notin Meta /\ Lexicon \notin Meta
  BY ContentAssumption

(* The model that a run from scratch begins with.                          *)
LEMMA ScratchModel ==
  ASSUME NEW r \in 0..MaxStarts
  PROVE  /\ [NoModel EXCEPT !.run = r] \in Model
         /\ [NoModel EXCEPT !.run = r].run = r
         /\ ~[NoModel EXCEPT !.run = r].stale
         /\ [NoModel EXCEPT !.run = r].seen = <<>>
<1>1. NoModel \in Model /\ NoModel.stale = FALSE /\ NoModel.seen = <<>>
  BY BoundAssumption DEF NoModel, Model
<1>2. \A m \in Model : /\ [m EXCEPT !.run = r] \in Model
                        /\ [m EXCEPT !.run = r].run = r
                        /\ [m EXCEPT !.run = r].stale = m.stale
                        /\ [m EXCEPT !.run = r].seen = m.seen
  BY DEF Model
<1> QED BY <1>1, <1>2

(* A resumed model differs from the saved one at most in its history.      *)
LEMMA ResumedModel ==
  ASSUME NEW m \in Model, NEW b \in BOOLEAN
  PROVE  /\ [m EXCEPT !.stale = @ \/ b] \in Model
         /\ [m EXCEPT !.stale = @ \/ b].run = m.run
         /\ [m EXCEPT !.stale = @ \/ b].stale = (m.stale \/ b)
         /\ [m EXCEPT !.stale = @ \/ b].seen = m.seen
<1>1. m.stale \in BOOLEAN /\ (m.stale \/ b) \in BOOLEAN
  BY DEF Model
<1>2. \A c \in BOOLEAN : /\ [m EXCEPT !.stale = c] \in Model
                         /\ [m EXCEPT !.stale = c].run = m.run
                         /\ [m EXCEPT !.stale = c].stale = c
                         /\ [m EXCEPT !.stale = c].seen = m.seen
  BY DEF Model
<1> QED BY <1>1, <1>2

(* A model that has seen one more chunk.                                   *)
LEMMA TrainedModel ==
  ASSUME NEW m \in Model, NEW k \in 1..Chunks
  PROVE  /\ [m EXCEPT !.seen = Append(@, k)] \in Model
         /\ [m EXCEPT !.seen = Append(@, k)].run = m.run
         /\ [m EXCEPT !.seen = Append(@, k)].stale = m.stale
         /\ [m EXCEPT !.seen = Append(@, k)].seen = Append(m.seen, k)
<1>1. Append(m.seen, k) \in Seq(1..Chunks)
  BY DEF Model
<1> QED BY <1>1 DEF Model

(* Where each save goes on.                                                *)
LEMMA AfterSaves ==
  /\ AfterSave("words") = "train" /\ AfterSave("part") = "meta"
  /\ AfterSave("meta") = "train" /\ AfterSave("ckpt") = "unlinkPart"
  /\ AfterSave("wordsAgain") = "idle" /\ AfterSave("organs") = "verify"
  BY DEF AfterSave

(* Where a save that succeeds leads, and what it leaves on disk.           *)
LEMMA CloseCases ==
  ASSUME Close, TypeOK
  PROVE  \/ /\ pc = "words" /\ disk' = [disk EXCEPT !["words"] = Lexicon]
            /\ pc' = "train" /\ saved' = saved
         \/ /\ pc = "part" /\ disk' = [disk EXCEPT !["part"] = model]
            /\ pc' = "meta" /\ saved' = saved
         \/ /\ pc = "meta" /\ pc' = "train" /\ saved' = trained
            /\ disk' = [disk EXCEPT !["meta"] = [toks |-> trained, run |-> model.run]]
         \/ /\ pc = "ckpt" /\ disk' = [disk EXCEPT !["ckpt"] = model]
            /\ pc' = "unlinkPart" /\ saved' = 0
         \/ /\ pc = "wordsAgain" /\ disk' = [disk EXCEPT !["words"] = Lexicon]
            /\ pc' = "idle" /\ saved' = saved
         \/ /\ pc = "organs" /\ disk' = [disk EXCEPT !["tmp"] = model]
            /\ pc' = "verify" /\ saved' = saved
<1>1. pc \in DOMAIN SavedAt
  BY DEF Close, TypeOK
<1>2. /\ Content("words") = Lexicon /\ Content("part") = model /\ Content("ckpt") = model
      /\ Content("tmp") = model /\ Content("meta") = [toks |-> trained, run |-> model.run]
  BY DEF Content
<1>4. /\ pc = "meta" => saved' = trained
      /\ pc = "ckpt" => saved' = 0
      /\ pc # "meta" /\ pc # "ckpt" => saved' = saved
  BY DEF Close
<1>5. /\ disk' = [disk EXCEPT ![SavedAt[pc]] = Content(SavedAt[pc])]
      /\ pc' = AfterSave(pc)
  BY DEF Close
<1> QED BY <1>1, <1>2, <1>4, <1>5, SavePlaces, AfterSaves

(* What a failed save does.                                                *)
LEMMA SaveFailsEffect ==
  ASSUME SaveFails
  PROVE  /\ UNCHANGED <<disk, model, trained, last, starts, crashes, saved>>
         /\ open' = FALSE /\ faults' = faults + 1 /\ faults < MaxFaults
         /\ \/ pc \in {"words", "part", "meta"} /\ pc' = "train"
            \/ pc \in {"ckpt", "wordsAgain", "organs"} /\ pc' = "idle"
            \/ open /\ pc = "part" /\ pc' = "meta"
            \/ open /\ pc = "ckpt" /\ pc' = "unlinkPart"
            \/ open /\ pc = "organs" /\ pc' = "verify"
<1>1. pc \in {"words", "part", "meta", "ckpt", "wordsAgain", "organs"}
  BY SavePlaces DEF SaveFails
<1>2. pc' = AfterFailure(pc) \/ (open /\ pc' = AfterSave(pc))
  BY DEF SaveFails
<1>3. AfterFailure(pc) = IF pc \in {"words", "part", "meta"} THEN "train" ELSE "idle"
  BY DEF AfterFailure
<1> QED BY <1>1, <1>2, <1>3, AfterSaves DEF SaveFails

(* What the start of a training run does.                                  *)
LEMMA StartEffect ==
  ASSUME NEW fresh, Start(fresh), TypeOK
  PROVE  /\ UNCHANGED <<disk, open, crashes, faults>> /\ pc = "idle"
         /\ starts' = starts + 1 /\ starts' \in 0..MaxStarts
         /\ \/ /\ pc' = "load" /\ disk["meta"] \in Meta
               /\ UNCHANGED <<model, trained, last, saved>>
            \/ /\ pc' = "words" /\ model' \in Model /\ model'.run = starts'
               /\ ~model'.stale /\ model'.seen = <<>>
               /\ trained' = 0 /\ last' = 0 /\ saved' = 0
<1>1. starts + 1 \in 0..MaxStarts
  BY BoundAssumption DEF Start, TypeOK
<1> QED BY <1>1, ScratchModel DEF Start, Resumes

(* What resuming does.                                                     *)
LEMMA LoadEffect ==
  ASSUME LoadPartial, TypeOK, disk["meta"] \in Meta
  PROVE  /\ UNCHANGED <<disk, open, starts, crashes, faults, saved>> /\ pc = "load"
         /\ \/ /\ pc' = "train" /\ model' \in Model
               /\ disk["part"] \in Model
               /\ model'.run = disk["part"].run /\ model'.seen = disk["part"].seen
               /\ ~model'.stale =>
                    ~disk["part"].stale /\ disk["part"].run = disk["meta"].run
               /\ trained' = disk["meta"].toks /\ last' = trained' /\ trained' \in 1..Chunks
            \/ pc' = "idle" /\ UNCHANGED <<model, trained, last>>
<1>1. disk["meta"].toks \in 1..Chunks
  BY DEF Meta
<1>2. Whole("part") => disk["part"] \in Model
  BY DEF Whole, TypeOK
<1>3. CASE Whole("words") /\ Whole("part")
  <2> DEFINE differs == disk["part"].run # disk["meta"].run
  <2>1. /\ pc' = "train"
        /\ model' = [disk["part"] EXCEPT !.stale = @ \/ differs]
        /\ trained' = disk["meta"].toks /\ last' = disk["meta"].toks
    BY <1>3 DEF LoadPartial, ResumePoint
  <2>2. differs \in BOOLEAN
    OBVIOUS
  <2>3. /\ model' \in Model /\ model'.run = disk["part"].run
        /\ model'.seen = disk["part"].seen /\ model'.stale = (disk["part"].stale \/ differs)
    <3> HIDE DEF differs
    <3> QED BY <1>2, <1>3, <2>1, <2>2, ResumedModel
  <2> QED BY <1>1, <1>2, <1>3, <2>1, <2>3 DEF LoadPartial
<1>4. CASE ~(Whole("words") /\ Whole("part"))
  BY <1>4 DEF LoadPartial
<1> QED BY <1>3, <1>4

(* What training on one chunk does.                                        *)
LEMMA TrainEffect ==
  ASSUME Train, TypeOK
  PROVE  /\ UNCHANGED <<disk, open, starts, crashes, faults, saved>> /\ pc = "train"
         /\ trained' = trained + 1 /\ trained' \in 1..Chunks
         /\ model' \in Model /\ model'.run = model.run /\ model'.stale = model.stale
         /\ model'.seen = Append(model.seen, trained + 1)
         /\ \/ pc' = "part" /\ last' = trained' /\ trained' - last >= SaveEvery
            \/ /\ pc' = "train" /\ last' = last
               /\ trained' - last < SaveEvery \/ trained' = Chunks
<1>1. trained + 1 \in 1..Chunks
  BY ChunkAssumption DEF Train, TypeOK
<1>2. /\ model' \in Model /\ model'.run = model.run /\ model'.stale = model.stale
      /\ model'.seen = Append(model.seen, trained + 1)
  BY <1>1, TrainedModel DEF Train, TypeOK
<1> QED BY <1>1, <1>2, ChunkAssumption DEF Train, TypeOK

(* Every step preserves the types, given what the places count on.         *)
LEMMA TypeStep ==
  ASSUME TypeOK, Places, [Next]_vars
  PROVE  TypeOK'
<1> USE SavePlaces DEF TypeOK, OrgansAt, TrainAt, File
<1>1. CASE Truncate
  BY <1>1 DEF Truncate
<1>2. CASE Close
  <2>1. pc = "meta" => [toks |-> trained, run |-> model.run] \in Meta
    BY DEF Meta, Model, Places
  <2>2. UNCHANGED <<model, trained, last, starts, crashes, faults>> /\ open' = FALSE
    BY <1>2 DEF Close
  <2>3. /\ DOMAIN disk' = File
        /\ \A file \in {"ckpt", "part", "tmp"} : disk'[file] \in {Absent, Torn} \cup Model
        /\ disk'["words"] \in {Absent, Torn, Lexicon}
        /\ disk'["meta"] \in {Absent, Torn} \cup Meta
    BY <1>2, <2>1, CloseCases
  <2>4. pc' \in {"train", "meta", "unlinkPart", "idle", "verify"} /\ saved' \in 0..Chunks
    BY <1>2, CloseCases, ChunkAssumption
  <2> QED BY <2>2, <2>3, <2>4
<1>3. CASE SaveFails
  BY <1>3, SaveFailsEffect, BoundAssumption
<1>4. ASSUME NEW fresh \in BOOLEAN, Start(fresh) PROVE TypeOK'
  <2>1. UNCHANGED <<disk, open, crashes, faults>> /\ pc = "idle" /\ starts' \in 0..MaxStarts
    BY <1>4, StartEffect
  <2>2. pc' \in {"load", "words"} /\ model' \in Model /\ trained' \in 0..Chunks
        /\ last' \in 0..trained' /\ saved' \in 0..Chunks
    BY <1>4, StartEffect, ChunkAssumption
  <2> QED BY <2>1, <2>2
<1>5. CASE LoadPartial
  BY <1>5, LoadEffect DEF LoadPartial, Places
<1>6. CASE Train
  BY <1>6, TrainEffect
<1>7. CASE FinishTraining
  BY <1>7 DEF FinishTraining
<1>8. ASSUME NEW at \in {"unlinkPart", "unlinkMeta", "unlinkCkpt"},
             NEW file \in {"part", "meta", "ckpt"},
             NEW next \in {"unlinkMeta", "wordsAgain", "rename"},
             Unlink(at, file, next)
      PROVE  TypeOK'
  BY <1>8 DEF Unlink
<1>9. CASE StartOrgans
  BY <1>9, BoundAssumption DEF StartOrgans, Whole
<1>10. CASE Verify
  BY <1>10 DEF Verify
<1>11. CASE Rename
  <2>1. UNCHANGED <<open, model, trained, last, starts, crashes, saved>> /\ pc' = "idle"
        /\ pc = "rename" /\ faults' \in 0..MaxFaults
    BY <1>11, BoundAssumption DEF Rename
  <2>2. disk' = disk \/ disk' = [disk EXCEPT !["ckpt"] = disk["tmp"], !["tmp"] = Absent]
    BY <1>11 DEF Rename
  <2> QED BY <2>1, <2>2
<1>12. CASE Crash
  <2>1. crashes' \in 0..MaxCrashes
    BY <1>12, BoundAssumption DEF Crash
  <2> QED BY <1>12, <2>1 DEF Crash
<1>13. CASE UNCHANGED vars
  BY <1>13 DEF vars
<1> QED
  BY <1>1, <1>2, <1>3, <1>4, <1>5, <1>6, <1>7, <1>8, <1>9, <1>10, <1>11, <1>12, <1>13
     DEF Next
-----------------------------------------------------------------------------
(* The partial checkpoint is only ever replaced by the model in memory.    *)
LEMMA PartStep ==
  ASSUME TypeOK, [Next]_vars
  PROVE  \/ disk'["part"] \in {disk["part"], Absent, Torn}
         \/ /\ pc = "part" /\ pc' = "meta" /\ disk'["part"] = model
            /\ disk'["meta"] = disk["meta"]
            /\ UNCHANGED <<model, trained, last, starts, crashes, faults>>
<1> USE SavePlaces DEF TypeOK, File
<1>1. CASE Truncate
  BY <1>1 DEF Truncate
<1>2. CASE Close
  <2>1. UNCHANGED <<model, trained, last, starts, crashes, faults>>
    BY <1>2 DEF Close
  <2> QED BY <1>2, <2>1, CloseCases
<1>3. CASE disk' = disk
  BY <1>3
<1>4. ASSUME NEW at, NEW file \in {"part", "meta", "ckpt"}, NEW next, Unlink(at, file, next)
      PROVE  disk'["part"] \in {disk["part"], Absent, Torn}
  BY <1>4 DEF Unlink
<1>5. CASE Verify
  BY <1>5 DEF Verify
<1>6. CASE Rename
  BY <1>6 DEF Rename
<1> QED
  BY <1>1, <1>2, <1>3, <1>4, <1>5, <1>6
     DEF Next, vars, SaveFails, Start, LoadPartial, Train, FinishTraining, StartOrgans, Crash

(* The resume point is only ever replaced by the count of the running      *)
(* training.                                                               *)
LEMMA MetaStep ==
  ASSUME TypeOK, [Next]_vars
  PROVE  \/ disk'["meta"] \in {disk["meta"], Absent, Torn}
         \/ /\ pc = "meta" /\ pc' = "train" /\ disk'["part"] = disk["part"]
            /\ disk'["meta"] = [toks |-> trained, run |-> model.run]
            /\ UNCHANGED <<model, trained, last, starts, crashes, faults>>
<1> USE SavePlaces DEF TypeOK, File
<1>1. CASE Truncate
  BY <1>1 DEF Truncate
<1>2. CASE Close
  <2>1. UNCHANGED <<model, trained, last, starts, crashes, faults>>
    BY <1>2 DEF Close
  <2> QED BY <1>2, <2>1, CloseCases
<1>3. CASE disk' = disk
  BY <1>3
<1>4. ASSUME NEW at, NEW file \in {"part", "meta", "ckpt"}, NEW next, Unlink(at, file, next)
      PROVE  disk'["meta"] \in {disk["meta"], Absent, Torn}
  BY <1>4 DEF Unlink
<1>5. CASE Verify
  BY <1>5 DEF Verify
<1>6. CASE Rename
  BY <1>6 DEF Rename
<1> QED
  BY <1>1, <1>2, <1>3, <1>4, <1>5, <1>6
     DEF Next, vars, SaveFails, Start, LoadPartial, Train, FinishTraining, StartOrgans, Crash

(* Where the contents of the checkpoint and of its temporary successor     *)
(* come from.                                                              *)
LEMMA CheckpointStep ==
  ASSUME TypeOK, [Next]_vars
  PROVE  /\ \/ disk'["ckpt"] \in {disk["ckpt"], Absent, Torn}
            \/ pc = "ckpt" /\ disk'["ckpt"] = model
            \/ pc = "rename" /\ disk'["ckpt"] = disk["tmp"]
         /\ \/ disk'["tmp"] \in {disk["tmp"], Absent, Torn}
            \/ pc = "organs" /\ disk'["tmp"] = model
<1> USE SavePlaces DEF TypeOK, File
<1>1. CASE Truncate
  BY <1>1 DEF Truncate
<1>2. CASE Close
  BY <1>2, CloseCases
<1>3. CASE disk' = disk
  BY <1>3
<1>4. ASSUME NEW at, NEW file \in {"part", "meta", "ckpt"}, NEW next, Unlink(at, file, next)
      PROVE  /\ disk'["ckpt"] \in {disk["ckpt"], Absent, Torn}
             /\ disk'["tmp"] = disk["tmp"]
  BY <1>4 DEF Unlink
<1>5. CASE Verify
  BY <1>5 DEF Verify
<1>6. CASE Rename
  BY <1>6 DEF Rename
<1> QED
  BY <1>1, <1>2, <1>3, <1>4, <1>5, <1>6
     DEF Next, vars, SaveFails, Start, LoadPartial, Train, FinishTraining, StartOrgans, Crash

(* How the model in memory changes.                                        *)
LEMMA ModelStep ==
  ASSUME TypeOK, Places, [Next]_vars
  PROVE  \/ UNCHANGED <<model, trained, last>> /\ (InTraining' => InTraining)
         \/ \E fresh : Start(fresh) /\ pc' = "words"
         \/ LoadPartial /\ pc' = "train"
         \/ Train
         \/ /\ StartOrgans /\ pc' = "organs" /\ Whole("ckpt") /\ model' = disk["ckpt"]
            /\ UNCHANGED <<disk, trained, last, crashes, faults>>
<1> USE DEF TypeOK, InTraining, TrainAt, OrgansAt
<1>1. CASE Truncate
  BY <1>1 DEF Truncate
<1>2. CASE Close
  BY <1>2, CloseCases DEF Close
<1>3. CASE SaveFails
  BY <1>3, SaveFailsEffect
<1>4. ASSUME NEW fresh \in BOOLEAN, Start(fresh)
      PROVE  \/ UNCHANGED <<model, trained, last>> /\ (InTraining' => InTraining)
             \/ pc' = "words"
  BY <1>4, StartEffect
<1>5. CASE LoadPartial
  BY <1>5 DEF LoadPartial
<1>6. CASE FinishTraining
  BY <1>6 DEF FinishTraining
<1>7. ASSUME NEW at \in {"unlinkPart", "unlinkMeta", "unlinkCkpt"}, NEW file,
             NEW next \in {"unlinkMeta", "wordsAgain", "rename"},
             Unlink(at, file, next), at = "unlinkCkpt" <=> next = "rename"
      PROVE  UNCHANGED <<model, trained, last>> /\ (InTraining' => InTraining)
  BY <1>7 DEF Unlink
<1>8. CASE StartOrgans
  BY <1>8 DEF StartOrgans
<1>9. CASE Verify \/ Rename \/ Crash \/ UNCHANGED vars
  BY <1>9 DEF Verify, Rename, Crash, vars
<1> QED
  BY <1>1, <1>2, <1>3, <1>4, <1>5, <1>6, <1>7, <1>8, <1>9 DEF Next
-----------------------------------------------------------------------------
(* No step gets ahead of the number of starts.                             *)
LEMMA RunsStep ==
  ASSUME TypeOK, RunsStarted, Places, [Next]_vars
  PROVE  RunsStarted'
<1> USE Contents DEF TypeOK, RunsStarted
<1>1. starts \in Nat /\ starts' \in Nat /\ starts <= starts'
  BY TypeStep, BoundAssumption
     DEF Next, vars, Truncate, Close, SaveFails, Start, LoadPartial, Train, FinishTraining,
         Unlink, StartOrgans, Verify, Rename, Crash
<1>2. model.run \in Nat /\ \A m \in Model \cup Meta : m.run \in Nat
  BY DEF Model, Meta
<1>3. disk'["part"] \in Model => disk'["part"].run <= starts'
  BY <1>1, <1>2, PartStep
<1>4. disk'["meta"] \in Meta => disk'["meta"].run <= starts'
  BY <1>1, <1>2, MetaStep
<1>5. /\ disk'["ckpt"] \in Model => disk'["ckpt"].run <= starts'
      /\ disk'["tmp"] \in Model => disk'["tmp"].run <= starts'
  BY <1>1, <1>2, CheckpointStep
<1>6. model'.run <= starts'
  <2>1. CASE UNCHANGED model
    BY <1>1, <1>2, <2>1
  <2>2. ASSUME NEW fresh, Start(fresh), pc' = "words"
        PROVE  model'.run <= starts'
    BY <1>1, <2>2, StartEffect
  <2>3. CASE LoadPartial /\ pc' = "train"
    BY <1>1, <1>2, <2>3, LoadEffect DEF Places, LoadPartial
  <2>4. CASE Train
    BY <1>1, <1>2, <2>4, TrainEffect
  <2>5. CASE Whole("ckpt") /\ model' = disk["ckpt"]
    BY <1>1, <1>2, <2>5 DEF Whole
  <2> QED BY <2>1, <2>2, <2>3, <2>4, <2>5, ModelStep
<1> QED BY <1>3, <1>4, <1>5, <1>6

(* Every step arrives where what it counts on holds.                       *)
LEMMA PlacesStep ==
  ASSUME TypeOK, Places, CheckpointComplete, [Next]_vars
  PROVE  Places'
<1> USE SavePlaces, Contents, FileAssumption, ChunkAssumption DEF TypeOK, Whole, Places, File
<1>1. CASE Truncate
  BY <1>1 DEF Truncate
<1>2. CASE Close
  <2>1. UNCHANGED <<model, trained, last, starts, crashes, faults>>
    BY <1>2 DEF Close
  <2> QED BY <1>2, <2>1, CloseCases
<1>3. CASE SaveFails
  BY <1>3, SaveFailsEffect
<1>4. ASSUME NEW fresh \in BOOLEAN, Start(fresh) PROVE Places'
  BY <1>4, StartEffect
<1>5. CASE LoadPartial
  <2>1. pc = "load"
    BY <1>5 DEF LoadPartial
  <2> QED BY <1>5, <2>1, LoadEffect
<1>6. CASE Train
  BY <1>6, TrainEffect
<1>7. CASE FinishTraining
  BY <1>7 DEF FinishTraining, StreamEnds
<1>8. CASE Unlink("unlinkPart", "part", "unlinkMeta")
  BY <1>8 DEF Unlink
<1>9. CASE Unlink("unlinkMeta", "meta", "wordsAgain")
  BY <1>9 DEF Unlink
<1>10. CASE Unlink("unlinkCkpt", "ckpt", "rename")
  BY <1>10 DEF Unlink
<1>11. CASE StartOrgans
  BY <1>11 DEF StartOrgans, CheckpointComplete
<1>12. CASE Verify
  BY <1>12 DEF Verify, Verified
<1>13. CASE Rename
  BY <1>13 DEF Rename
<1>14. CASE Crash
  BY <1>14 DEF Crash
<1>15. CASE UNCHANGED vars
  BY <1>15 DEF vars
<1> QED
  BY <1>1, <1>2, <1>3, <1>4, <1>5, <1>6, <1>7, <1>8, <1>9, <1>10, <1>11, <1>12, <1>13,
     <1>14, <1>15 DEF Next

(* A model has seen chunks of the corpus only.                             *)
LEMMA SeenType ==
  ASSUME NEW m \in Model
  PROVE  Seen(m) \subseteq 1..Chunks
<1>1. m.seen \in Seq(1..Chunks)
  BY DEF Model
<1>2. m.seen \in [1..Len(m.seen) -> 1..Chunks]
  BY <1>1, LenProperties
<1> QED BY <1>2 DEF Seen

(* Training on a chunk adds it to what has been seen.                      *)
LEMMA SeenAppend ==
  ASSUME NEW m \in Model, NEW n \in Model, NEW k \in 1..Chunks, n.seen = Append(m.seen, k)
  PROVE  Seen(n) = Seen(m) \cup {k}
<1>1. m.seen \in Seq(1..Chunks) /\ Len(m.seen) \in Nat /\ DOMAIN m.seen = 1..Len(m.seen)
  BY DEF Model
<1>2. DOMAIN n.seen = 1..(Len(m.seen) + 1)
      /\ \A j \in 1..(Len(m.seen) + 1) :
           n.seen[j] = IF j = Len(m.seen) + 1 THEN k ELSE m.seen[j]
  BY <1>1
<1> QED BY <1>1, <1>2 DEF Seen

(* What is trained has seen everything before the count of its tokens.     *)
LEMMA CoveredStep ==
  ASSUME TypeOK, RunsStarted, Places, Covered, ResumeCovered, [Next]_vars
  PROVE  Covered'
<1> DEFINE Inv == /\ 1..trained \subseteq Seen(model)
                  /\ disk["meta"] \in Meta /\ disk["meta"].run = model.run
                       => disk["meta"].toks <= trained
<1> SUFFICES ASSUME InTraining', ~model'.stale
             PROVE  Inv'
  BY DEF Covered
<1> USE Contents
<1>1. CASE UNCHANGED <<model, trained, last>> /\ InTraining
  <2>1. Inv
    BY <1>1 DEF Covered
  <2>2. disk'["meta"] \in Meta /\ disk'["meta"].run = model.run => disk'["meta"].toks <= trained
    BY <2>1, MetaStep DEF TypeOK
  <2> QED BY <1>1, <2>1, <2>2
<1>2. ASSUME NEW fresh, Start(fresh), pc' = "words"
      PROVE  Inv'
  <2>1. disk' = disk /\ trained' = 0 /\ model'.run = starts + 1
    BY <1>2, StartEffect
  <2>2. disk["meta"] \in Meta => disk["meta"].run \in Nat /\ disk["meta"].run <= starts
    BY DEF RunsStarted, Meta
  <2>3. starts \in Nat
    BY BoundAssumption DEF TypeOK
  <2> QED BY <2>1, <2>2, <2>3
<1>3. CASE LoadPartial /\ pc' = "train"
  <2>1. /\ disk' = disk /\ disk["part"] \in Model /\ disk["meta"] \in Meta
        /\ model'.seen = disk["part"].seen
        /\ ~disk["part"].stale /\ disk["part"].run = disk["meta"].run
        /\ trained' = disk["meta"].toks
    BY <1>3, LoadEffect DEF Places, LoadPartial
  <2>2. 1..disk["meta"].toks \subseteq Seen(disk["part"])
    BY <2>1 DEF ResumeCovered, Whole
  <2>3. Seen(model') = Seen(disk["part"])
    BY <2>1 DEF Seen
  <2>4. disk["meta"].toks \in Nat
    BY <2>1 DEF Meta
  <2> QED BY <2>1, <2>2, <2>3, <2>4
<1>4. CASE Train
  <2>1. /\ disk' = disk /\ trained' = trained + 1 /\ trained' \in 1..Chunks
        /\ model' \in Model /\ model'.run = model.run /\ model'.stale = model.stale
        /\ model'.seen = Append(model.seen, trained + 1) /\ trained \in Nat
    BY <1>4, TrainEffect DEF TypeOK
  <2>2. Inv
    BY <1>4, <2>1 DEF Covered, InTraining, Train, TrainAt
  <2>3. Seen(model') = Seen(model) \cup {trained + 1}
    BY <2>1, SeenAppend DEF TypeOK
  <2>4. disk["meta"] \in Meta => disk["meta"].toks \in Nat
    BY DEF Meta
  <2> QED BY <2>1, <2>2, <2>3, <2>4
<1> QED
  BY <1>1, <1>2, <1>3, <1>4, ModelStep DEF InTraining, TrainAt

(* A save of the model or of its resume point keeps the one behind the     *)
(* other.                                                                  *)
LEMMA ResumeStep ==
  ASSUME TypeOK, Places, Covered, ResumeCovered, [Next]_vars
  PROVE  ResumeCovered'
<1> SUFFICES ASSUME disk'["part"] \notin {Absent, Torn}, disk'["meta"] \in Meta,
                    disk'["part"].run = disk'["meta"].run, ~disk'["part"].stale
             PROVE  1..disk'["meta"].toks \subseteq Seen(disk'["part"])
  BY DEF ResumeCovered, Whole
<1> USE Contents
<1>1. CASE disk'["part"] = disk["part"] /\ disk'["meta"] = disk["meta"]
  BY <1>1 DEF ResumeCovered, Whole
<1>2. CASE pc = "part" /\ disk'["part"] = model /\ disk'["meta"] = disk["meta"]
  <2>1. 1..trained \subseteq Seen(model) /\ disk["meta"].toks <= trained
    BY <1>2 DEF Covered, InTraining, TrainAt
  <2>2. disk["meta"].toks \in Nat /\ trained \in Nat
    BY <1>2 DEF Meta, TypeOK
  <2> QED BY <1>2, <2>1, <2>2
<1>3. CASE /\ pc = "meta" /\ disk'["part"] = disk["part"]
           /\ disk'["meta"] = [toks |-> trained, run |-> model.run]
  <2>1. disk["part"] = model
    BY <1>3 DEF Places
  <2>2. 1..trained \subseteq Seen(model)
    BY <1>3, <2>1 DEF Covered, InTraining, TrainAt
  <2> QED BY <1>3, <2>1, <2>2
<1> QED BY <1>1, <1>2, <1>3, PartStep, MetaStep

(* Only complete models become a checkpoint.                               *)
LEMMA CompleteStep ==
  ASSUME TypeOK, Places, Covered, TmpComplete, CheckpointComplete, [Next]_vars
  PROVE  TmpComplete' /\ CheckpointComplete'
<1>1. pc = "ckpt" /\ ~model.stale => Seen(model) = 1..Chunks
  <2>1. pc = "ckpt" /\ ~model.stale => 1..Chunks \subseteq Seen(model)
    BY DEF Covered, InTraining, TrainAt, Places
  <2> QED BY <2>1, SeenType DEF TypeOK
<1>2. CheckpointComplete'
  BY <1>1, CheckpointStep DEF TmpComplete, CheckpointComplete, Whole
<1>3. TmpComplete'
  BY CheckpointStep DEF TmpComplete, Places, Whole
<1> QED BY <1>2, <1>3

(* The invariant holds before the first start.                             *)
LEMMA CoverInit == Init => CoverInv
<1> SUFFICES ASSUME Init PROVE CoverInv
  OBVIOUS
<1>1. /\ \A file \in File : disk[file] = Absent
      /\ DOMAIN disk = File /\ pc = "idle" /\ ~open /\ open \in BOOLEAN
      /\ trained = 0 /\ last = 0 /\ starts = 0 /\ crashes = 0 /\ faults = 0 /\ saved = 0
  BY DEF Init
<1>2. model \in Model /\ model.run = 0
  BY BoundAssumption DEF Init, NoModel, Model
<1>3. TypeOK
  BY <1>1, <1>2, ChunkAssumption, BoundAssumption DEF TypeOK, File
<1>4. RunsStarted /\ Places
  BY <1>1, <1>2, Contents DEF RunsStarted, Places, File
<1> QED
  BY <1>1, <1>3, <1>4, Contents
     DEF CoverInv, Covered, InTraining, TrainAt, ResumeCovered, TmpComplete,
         CheckpointComplete, Whole, File

(* The invariant is inductive.                                             *)
LEMMA CoverNext == CoverInv /\ [Next]_vars => CoverInv'
  BY TypeStep, RunsStep, PlacesStep, CoveredStep, ResumeStep, CompleteStep DEF CoverInv

(* The inductive invariant holds in every reachable state of pretrain.     *)
THEOREM CoverInvariant == Spec => []CoverInv
  BY CoverInit, CoverNext, PTL DEF Spec

(* Files, places and counters have their types in every reachable state    *)
(* of pretrain; a resume point that is loaded is one that was written.     *)
THEOREM TypeCorrect == Spec => []TypeOK
  BY CoverInvariant, PTL DEF CoverInv

(* Resuming skips only what the loaded model has been trained on, unless   *)
(* model and resume point are of different runs: for every crash and       *)
(* failed write.                                                           *)
THEOREM ResumeNeverAhead == Spec => []ResumeCovered
  BY CoverInvariant, PTL DEF CoverInv

(* A finished checkpoint has seen the whole corpus, however often its      *)
(* training was interrupted and resumed.                                   *)
THEOREM FinishedSawAll == Spec => []CheckpointComplete
  BY CoverInvariant, PTL DEF CoverInv

(* No step of the organs build, nor a crash or failed write in it, loses   *)
(* the trained model.                                                      *)
THEOREM ModelNeverLost == Spec => OrgansKeepModel
<1>1. ASSUME CoverInv, [Next]_vars, pc \in OrgansAt, ModelOnDisk
      PROVE  ModelOnDisk'
  <2> USE <1>1, SavePlaces, Contents DEF ModelOnDisk, OrgansAt, CoverInv, TypeOK, Places, Whole, File
  <2>1. CASE Truncate
    BY <2>1 DEF Truncate
  <2>2. CASE Close
    BY <2>2, CloseCases
  <2>3. CASE Unlink("unlinkCkpt", "ckpt", "rename")
    BY <2>3 DEF Unlink
  <2>4. CASE Verify
    BY <2>4 DEF Verify
  <2>5. CASE Rename
    BY <2>5 DEF Rename
  <2>6. CASE disk' = disk
    BY <2>6
  <2> QED
    BY <2>1, <2>2, <2>3, <2>4, <2>5, <2>6
       DEF Next, vars, SaveFails, Start, LoadPartial, Train, FinishTraining, StartOrgans,
           Crash, Unlink
<1>2. CoverInv /\ [Next]_vars => [(pc \in OrgansAt /\ ModelOnDisk) => ModelOnDisk']_vars
  BY <1>1
<1> QED BY <1>2, CoverInvariant, PTL DEF OrgansKeepModel, Spec
-----------------------------------------------------------------------------
(* Sizes of what a model has seen are numbers.                             *)
LEMMA SeenFinite ==
  ASSUME NEW m \in Model, NEW t \in Nat
  PROVE  /\ IsFiniteSet(Seen(m)) /\ Cardinality(Seen(m)) \in Nat
         /\ IsFiniteSet({k \in Seen(m) : k > t}) /\ Ahead(m, t) \in Nat
         /\ Repeats(m) \in Int
<1>1. IsFiniteSet(1..Chunks)
  BY FS_Interval, ChunkAssumption
<1>2. IsFiniteSet(Seen(m))
  BY <1>1, SeenType, FS_Subset
<1>3. IsFiniteSet({k \in Seen(m) : k > t})
  BY <1>2, FS_Subset
<1>4. Len(m.seen) \in Nat
  BY DEF Model
<1> QED BY <1>2, <1>3, <1>4, FS_CardinalityType DEF Ahead, Repeats

(* A new chunk is no repetition.                                           *)
LEMMA RepeatsBothGrow ==
  ASSUME NEW m, NEW n, Len(m.seen) \in Nat, Cardinality(Seen(m)) \in Nat,
         Len(n.seen) = Len(m.seen) + 1, Cardinality(Seen(n)) = Cardinality(Seen(m)) + 1
  PROVE  Repeats(n) = Repeats(m)
  BY DEF Repeats

(* Training on the next chunk turns one that lay ahead into a repetition,  *)
(* or adds a new one: its cost stays.                                      *)
LEMMA RepeatsAppend ==
  ASSUME NEW m \in Model, NEW n \in Model, NEW t \in Nat, t + 1 \in 1..Chunks,
         n.seen = Append(m.seen, t + 1)
  PROVE  Cost(n, t + 1) = Cost(m, t)
<1> DEFINE A == {k \in Seen(m) : k > t}
           B == {k \in Seen(n) : k > t + 1}
<1>1. Seen(n) = Seen(m) \cup {t + 1}
  BY SeenAppend
<1>2. Len(n.seen) = Len(m.seen) + 1 /\ Len(m.seen) \in Nat
  BY DEF Model
<1>3. IsFiniteSet(Seen(m)) /\ IsFiniteSet(A) /\ IsFiniteSet(B)
  BY SeenFinite
<1>4. Seen(m) \subseteq Nat
  BY SeenType
<1>5. CASE t + 1 \in Seen(m)
  <2>1. Seen(n) = Seen(m)
    BY <1>1, <1>5
  <2>2. B = A \ {t + 1} /\ t + 1 \in A
    BY <1>4, <1>5, <2>1
  <2>3. Cardinality(B) = Cardinality(A) - 1
    BY <1>3, <2>2, FS_RemoveElement
  <2> QED BY <1>2, <1>3, <2>1, <2>3, FS_CardinalityType DEF Repeats, Ahead, Cost
<1>6. CASE t + 1 \notin Seen(m)
  <2>1. Cardinality(Seen(n)) = Cardinality(Seen(m)) + 1
    BY <1>1, <1>3, <1>6, FS_AddElement
  <2>2. B = A
    BY <1>1, <1>4, <1>6
  <2>3. Cardinality(Seen(m)) \in Nat /\ Cardinality(A) \in Nat
    BY <1>3, FS_CardinalityType
  <2>4. Repeats(n) = Repeats(m)
    BY <1>2, <2>1, <2>3, RepeatsBothGrow
  <2>5. Ahead(n, t + 1) = Ahead(m, t)
    BY <2>2 DEF Ahead
  <2> QED BY <2>4, <2>5 DEF Cost
<1> QED BY <1>5, <1>6

(* A cost is a number, and no less than the repetitions so far.            *)
LEMMA CostType ==
  ASSUME NEW m \in Model, NEW t \in Nat
  PROVE  Cost(m, t) \in Int /\ Repeats(m) <= Cost(m, t)
<1>1. Repeats(m) \in Int /\ Ahead(m, t) \in Nat
  BY SeenFinite
<1> QED BY <1>1 DEF Cost

(* Going on from an earlier token costs at most the distance between the   *)
(* two.                                                                    *)
LEMMA CostBound ==
  ASSUME NEW m \in Model, NEW t \in Nat, NEW u \in Nat
  PROVE  Cost(m, u) <= Cost(m, t) + IF t > u THEN t - u ELSE 0
<1> SUFFICES Ahead(m, u) <= Ahead(m, t) + IF t > u THEN t - u ELSE 0
  <2>1. Repeats(m) \in Int /\ Ahead(m, t) \in Nat /\ Ahead(m, u) \in Nat
    BY SeenFinite
  <2> QED BY <2>1 DEF Cost
<1> DEFINE A == {k \in Seen(m) : k > t}
           B == {k \in Seen(m) : k > u}
<1>1. IsFiniteSet(A) /\ IsFiniteSet(B) /\ Cardinality(A) \in Nat
  BY SeenFinite DEF Ahead
<1>2. Seen(m) \subseteq Nat
  BY SeenType
<1>3. CASE t > u
  <2>1. IsFiniteSet((u + 1)..t) /\ Cardinality((u + 1)..t) = t - u
    BY <1>3, FS_Interval
  <2>2. B \subseteq A \cup (u + 1)..t
    BY <1>2
  <2>3. /\ IsFiniteSet(A \cup (u + 1)..t)
        /\ Cardinality(A \cup (u + 1)..t) <= Cardinality(A) + (t - u)
    <3> HIDE DEF A, B
    <3>1. /\ IsFiniteSet(A \cup (u + 1)..t)
          /\ Cardinality(A \cup (u + 1)..t) =
               Cardinality(A) + Cardinality((u + 1)..t) - Cardinality(A \cap (u + 1)..t)
      BY <1>1, <2>1, FS_Union
    <3>2. Cardinality(A \cap (u + 1)..t) \in Nat
      BY <1>1, FS_Intersection, FS_CardinalityType
    <3> QED BY <1>1, <2>1, <3>1, <3>2
  <2>4. Cardinality(B) <= Cardinality(A \cup (u + 1)..t)
    BY <2>2, <2>3, FS_Subset
  <2>5. Cardinality(B) \in Nat /\ Cardinality(A \cup (u + 1)..t) \in Nat
    BY <1>1, <2>3, FS_CardinalityType
  <2> QED BY <1>1, <1>3, <2>3, <2>4, <2>5 DEF Ahead
<1>4. CASE ~(t > u)
  <2>1. B \subseteq A
    BY <1>2, <1>4
  <2> QED BY <1>1, <1>4, <2>1, FS_Subset DEF Ahead
<1> QED BY <1>3, <1>4
-----------------------------------------------------------------------------
(* A partial save that is left behind was completed, or a crash or a       *)
(* fault is counted for it.                                                *)
LEMMA CountStep ==
  ASSUME TypeOK, Places, [Next]_vars
  PROVE  /\ \/ UNCHANGED <<crashes, faults>>
            \/ crashes' = crashes + 1 /\ faults' = faults
            \/ crashes' = crashes /\ faults' = faults + 1
         /\ \/ pc \in {"part", "meta"} /\ pc' \notin {"part", "meta"}
            \/ pc = "meta" /\ pc' # "meta"
            => \/ crashes' + faults' = crashes + faults + 1
               \/ disk'["meta"] = [toks |-> trained, run |-> model.run]
<1> DEFINE Left == \/ pc \in {"part", "meta"} /\ pc' \notin {"part", "meta"}
                   \/ pc = "meta" /\ pc' # "meta"
           Written == disk'["meta"] = [toks |-> trained, run |-> model.run]
<1>0. crashes \in Nat /\ faults \in Nat
  BY BoundAssumption DEF TypeOK
<1>1. CASE Truncate
  BY <1>1 DEF Truncate
<1>2. CASE Close
  <2>1. UNCHANGED <<crashes, faults>>
    BY <1>2 DEF Close
  <2>2. Left => Written
    BY <1>2, CloseCases DEF TypeOK, File
  <2> QED BY <2>1, <2>2
<1>3. CASE SaveFails
  <2>1. crashes' = crashes /\ faults' = faults + 1
    BY <1>3, SaveFailsEffect
  <2> QED BY <1>0, <2>1
<1>4. CASE Crash
  BY <1>0, <1>4 DEF Crash
<1>5. CASE Rename
  BY <1>0, <1>5 DEF Rename
<1>6. CASE \/ \E fresh \in BOOLEAN : Start(fresh)
           \/ LoadPartial \/ Train \/ FinishTraining \/ StartOrgans \/ Verify
           \/ \E at \in {"unlinkPart", "unlinkMeta", "unlinkCkpt"} : \E file, next :
                Unlink(at, file, next)
           \/ UNCHANGED vars
  <2>1. UNCHANGED <<crashes, faults>>
    BY <1>6 DEF Start, LoadPartial, Train, FinishTraining, StartOrgans, Verify, Unlink, vars
  <2>2. pc \notin {"part", "meta"} \/ pc' = pc
    BY <1>6 DEF Start, LoadPartial, Train, FinishTraining, StartOrgans, Verify, Unlink, vars
  <2> QED BY <2>1, <2>2
<1> QED BY <1>1, <1>2, <1>3, <1>4, <1>5, <1>6 DEF Next

(* Each crash or fault allows for one more interval.                       *)
LEMMA AllowedStep ==
  ASSUME TypeOK, Places, [Next]_vars
  PROVE  /\ Allowed \in Nat /\ Allowed' \in Nat
         /\ Allowed' = Allowed \/ Allowed' = Allowed + SaveEvery
         /\ crashes' + faults' = crashes + faults + 1 => Allowed' = Allowed + SaveEvery
<1>1. crashes \in Nat /\ faults \in Nat /\ SaveEvery \in Nat
  BY BoundAssumption, ChunkAssumption DEF TypeOK
<1>2. \A a, b \in Nat : a * b \in Nat /\ a * (b + 1) = a * b + a
  OBVIOUS
<1>3. \A b \in Nat : SaveEvery * b \in Nat /\ SaveEvery * (b + 1) = SaveEvery * b + SaveEvery
  BY <1>1, <1>2
<1>4. crashes + faults \in Nat
  BY <1>1
<1>5. crashes' + faults' = crashes + faults \/ crashes' + faults' = (crashes + faults) + 1
  BY <1>1, CountStep
<1>6. crashes' + faults' = crashes + faults => crashes' + faults' # crashes + faults + 1
  BY <1>4
<1> QED BY <1>3, <1>4, <1>5, <1>6 DEF Allowed

(* A running training stays within what is allowed, also if its last       *)
(* partial save is lost.                                                   *)
LEMMA TrainingCostStep ==
  ASSUME TypeOK, Places, TrainingCost, ResumeCost, [Next]_vars
  PROVE  TrainingCost'
<1> DEFINE Room == IF pc \in {"part", "meta"} THEN SaveEvery ELSE 0
<1> SUFFICES ASSUME InTraining'
             PROVE  /\ Cost(model', trained') <= Allowed'
                    /\ Cost(model', trained') + Lag' <= Allowed' + Room'
  BY DEF TrainingCost
<1>1. /\ Allowed \in Nat /\ Allowed' \in Nat /\ SaveEvery \in Nat
      /\ Allowed' = Allowed \/ Allowed' = Allowed + SaveEvery
  BY AllowedStep, ChunkAssumption
<1>3. trained \in Nat /\ trained' \in Nat /\ last \in Nat /\ model \in Model
  BY TypeStep DEF TypeOK
<1>2. Lag \in Nat /\ Lag' \in Nat
  <2>1. last' \in Nat
    BY TypeStep DEF TypeOK
  <2>2. \A m \in Meta : m.toks \in Nat
    BY DEF Meta
  <2> QED BY <1>3, <2>1, <2>2 DEF Lag
<1>4. CASE UNCHANGED <<model, trained, last>> /\ InTraining
  <2>1. Cost(model, trained) \in Int
    BY <1>3, CostType
  <2>2. /\ Cost(model, trained) <= Allowed
        /\ Cost(model, trained) + Lag <= Allowed + Room
    BY <1>4 DEF TrainingCost
  <2>3. Cost(model', trained') = Cost(model, trained)
    BY <1>4
  <2>4. Lag' <= Lag
    <3>1. CASE disk'["meta"] = disk["meta"]
      BY <1>2, <1>4, <3>1 DEF Lag
    <3>2. CASE disk'["meta"] \in {Absent, Torn}
      BY <1>2, <3>2, Contents DEF Lag
    <3>3. CASE pc = "meta" /\ disk'["meta"] = [toks |-> trained, run |-> model.run]
      BY <1>2, <1>3, <1>4, <3>3 DEF Lag, Places
    <3> QED BY <3>1, <3>2, <3>3, MetaStep
  <2>5. CASE pc \in {"part", "meta"} /\ pc' \notin {"part", "meta"}
    <3>1. CASE crashes' + faults' = crashes + faults + 1
      <4>1. Allowed' = Allowed + SaveEvery /\ Room = SaveEvery /\ Room' = 0
        BY <2>5, <3>1, AllowedStep
      <4> HIDE DEF Room
      <4> QED BY <1>1, <1>2, <2>1, <2>2, <2>3, <2>4, <4>1
    <3>2. CASE disk'["meta"] = [toks |-> trained, run |-> model.run]
      <4>1. Lag' = 0 /\ Room' = 0
        BY <1>3, <1>4, <2>5, <3>2 DEF Lag, Places
      <4> HIDE DEF Room
      <4> QED BY <1>1, <2>1, <2>2, <2>3, <4>1
    <3> QED BY <2>5, <3>1, <3>2, CountStep
  <2>6. CASE ~(pc \in {"part", "meta"} /\ pc' \notin {"part", "meta"})
    <3>1. Room \in Nat /\ Room' \in Nat /\ Room <= Room'
      BY <1>1, <2>6
    <3> HIDE DEF Room
    <3> QED BY <1>1, <1>2, <2>1, <2>2, <2>3, <2>4, <3>1
  <2> QED BY <2>5, <2>6
<1>5. ASSUME NEW fresh, Start(fresh), pc' = "words"
      PROVE  /\ Cost(model', trained') <= Allowed'
             /\ Cost(model', trained') + Lag' <= Allowed' + Room'
  <2>1. model'.seen = <<>> /\ trained' = 0 /\ last' = 0 /\ disk' = disk
    BY <1>5, StartEffect
  <2>2. Seen(model') = {} /\ Len(model'.seen) = 0
    BY <2>1 DEF Seen
  <2>3. Cost(model', trained') = 0
    <3>1. {k \in Seen(model') : k > trained'} = {}
      BY <2>2
    <3> QED BY <2>2, <3>1, FS_EmptySet DEF Cost, Repeats, Ahead, Cost
  <2>4. Lag' = 0
    <3>1. disk["meta"] \in Meta => disk["meta"].toks \in Nat
      BY DEF Meta
    <3> QED BY <2>1, <3>1 DEF Lag
  <2>5. Room' = 0
    BY <1>5
  <2>6. \A c, l, a, r \in Int : c = 0 /\ l = 0 /\ r = 0 /\ 0 <= a => c <= a /\ c + l <= a + r
    OBVIOUS
  <2>7. 0 \in Int /\ Allowed' \in Int /\ 0 <= Allowed'
    BY <1>1
  <2> QED BY <2>3, <2>4, <2>5, <2>6, <2>7, Zenon
<1>6. CASE LoadPartial /\ pc' = "train"
  <2>1. /\ disk' = disk /\ disk["part"] \in Model /\ disk["meta"] \in Meta
        /\ model'.seen = disk["part"].seen /\ model' \in Model
        /\ trained' = disk["meta"].toks /\ last' = disk["meta"].toks /\ pc = "load"
    BY <1>6, LoadEffect DEF Places, LoadPartial
  <2>2. Cost(disk["part"], disk["meta"].toks) <= Allowed + 0
    BY <2>1 DEF ResumeCost
  <2>4. Lag' = 0
    BY <1>3, <2>1 DEF Lag
  <2>5. Cost(disk["part"], disk["meta"].toks) \in Int
    BY <1>3, <2>1, CostType
  <2>6. Room' = 0
    BY <1>6
  <2>7. Cost(model', trained') = Cost(disk["part"], disk["meta"].toks)
    BY <2>1 DEF Cost, Repeats, Ahead, Seen
  <2> HIDE DEF Room
  <2> QED BY <1>1, <2>2, <2>4, <2>5, <2>6, <2>7
<1>7. CASE Train
  <2>1. /\ disk' = disk /\ trained' = trained + 1 /\ trained' \in 1..Chunks
        /\ model' \in Model /\ model'.seen = Append(model.seen, trained + 1)
        /\ \/ pc' = "part" /\ last' = trained'
           \/ pc' = "train" /\ last' = last
    BY <1>7, TrainEffect
  <2>2. Cost(model', trained') = Cost(model, trained)
    BY <1>3, <2>1, RepeatsAppend
  <2>3. pc = "train" /\ trained - last < SaveEvery /\ last <= trained
    BY <1>3, <1>7 DEF Train, Places, TypeOK
  <2>4. Cost(model, trained) <= Allowed /\ Cost(model, trained) + Lag <= Allowed + 0
    BY <2>3 DEF TrainingCost, InTraining, TrainAt
  <2>5. Cost(model, trained) \in Int
    BY <1>3, CostType
  <2> HIDE DEF Room
  <2>6. Lag' <= Lag + (last' - last)
    <3>1. disk["meta"] \in Meta => disk["meta"].toks \in Nat
      BY DEF Meta
    <3> QED BY <1>3, <2>1, <2>3, <3>1 DEF Lag
  <2>7. last' - last <= Room' /\ Room' \in Nat /\ last' \in Nat
    BY <1>1, <1>3, <2>1, <2>3 DEF Room
  <2>9. /\ Allowed \in Int /\ Allowed' \in Int /\ Allowed <= Allowed'
        /\ Lag \in Int /\ Lag' \in Int /\ Room' \in Int
    BY <1>1, <1>2, <2>7
  <2>10. last' - last \in Int
    BY <1>3, <2>7
  <2>11. PICK b \in Int, r \in Int, l \in Int : b = Allowed' /\ r = Room' /\ l = Lag'
    BY <2>9, Zenon
  <2>12. Cost(model, trained) <= b /\ Cost(model, trained) + l <= b + r
    <3>1. Allowed <= b /\ l <= Lag + (last' - last) /\ last' - last <= r
      BY <2>6, <2>7, <2>9, <2>11, Zenon
    <3>2. \A d \in Int : l <= Lag + d /\ d <= r => l <= Lag + r
      BY <2>9
    <3>3. l <= Lag + r
      BY <2>10, <3>1, <3>2, Zenon
    <3> QED BY <2>4, <2>5, <2>9, <3>1, <3>3
  <2> QED BY <2>2, <2>11, <2>12, Zenon
<1> QED
  BY <1>4, <1>5, <1>6, <1>7, ModelStep DEF InTraining, TrainAt

(* Resuming from disk stays within what is allowed.                        *)
LEMMA ResumeCostStep ==
  ASSUME TypeOK, Places, TrainingCost, ResumeCost, [Next]_vars
  PROVE  ResumeCost'
<1> DEFINE part == disk'["part"]
           toks == disk'["meta"].toks
<1> SUFFICES ASSUME part \in Model, disk'["meta"] \in Meta
             PROVE  Cost(part, toks) <= Allowed' + IF pc' = "meta" THEN SaveEvery ELSE 0
  BY DEF ResumeCost
<1>1. /\ Allowed \in Nat /\ Allowed' \in Nat /\ SaveEvery \in Nat
      /\ Allowed' = Allowed \/ Allowed' = Allowed + SaveEvery
  BY AllowedStep, ChunkAssumption
<1>2. trained \in Nat /\ last \in Nat /\ model \in Model
  BY DEF TypeOK
<1>3. toks \in Nat
  BY DEF Meta
<1>4. Cost(part, toks) \in Int
  BY <1>3, CostType
<1>5. PICK b \in Int : b = Allowed' /\ (b = Allowed \/ b = Allowed + SaveEvery)
  BY <1>1
<1> HIDE DEF part, toks
<1>6. CASE part = disk["part"] /\ disk'["meta"] = disk["meta"]
  <2>1. Cost(part, toks) <= Allowed + IF pc = "meta" THEN SaveEvery ELSE 0
    BY <1>6 DEF ResumeCost, part, toks
  <2>2. CASE pc = "meta" /\ pc' # "meta"
    <3>1. crashes' + faults' = crashes + faults + 1
          \/ disk'["meta"] = [toks |-> trained, run |-> model.run]
      BY <2>2, CountStep
    <3>2. CASE crashes' + faults' = crashes + faults + 1
      <4>1. b = Allowed + SaveEvery
        BY <1>5, <3>2, AllowedStep
      <4>2. Cost(part, toks) <= b
        BY <1>1, <1>4, <2>1, <2>2, <4>1
      <4> QED BY <1>4, <1>5, <2>2, <4>2
    <3>3. CASE disk'["meta"] = [toks |-> trained, run |-> model.run]
      <4>1. toks = trained /\ part = model
        BY <1>6, <2>2, <3>3, Contents DEF Places, part, toks
      <4>2. Cost(part, toks) <= b
        BY <1>1, <1>4, <1>5, <2>2, <4>1 DEF TrainingCost, InTraining, TrainAt
      <4> QED BY <1>4, <1>5, <2>2, <4>2
    <3> QED BY <3>1, <3>2, <3>3
  <2>3. CASE pc = "meta" /\ pc' = "meta"
    <3>1. Cost(part, toks) <= b + SaveEvery
      BY <1>1, <1>4, <1>5, <2>1, <2>3
    <3> QED BY <1>5, <2>3, <3>1
  <2>4. CASE pc # "meta"
    <3>1. Cost(part, toks) <= b
      BY <1>1, <1>4, <1>5, <2>1, <2>4
    <3>2. Cost(part, toks) <= b + IF pc' = "meta" THEN SaveEvery ELSE 0
      BY <1>1, <1>4, <3>1
    <3> QED BY <1>5, <3>2
  <2> QED BY <2>2, <2>3, <2>4
<1>7. CASE /\ pc = "part" /\ pc' = "meta" /\ part = model /\ disk'["meta"] = disk["meta"]
  <2>1. Cost(model, trained) + Lag <= Allowed + SaveEvery
    BY <1>7 DEF TrainingCost, InTraining, TrainAt
  <2>2. Lag = IF trained > toks THEN trained - toks ELSE 0
    BY <1>7 DEF Lag, Places, toks
  <2>3. Cost(model, toks) <= Cost(model, trained) + IF trained > toks THEN trained - toks ELSE 0
    BY <1>2, <1>3, CostBound DEF toks
  <2>4. Cost(model, trained) \in Int /\ Lag \in Nat
    BY <1>2, <1>3, <2>2, CostType DEF toks
  <2>5. Cost(part, toks) <= b + SaveEvery
    BY <1>1, <1>4, <1>5, <1>7, <2>1, <2>2, <2>3, <2>4
  <2> QED BY <1>5, <1>7, <2>5
<1>8. CASE /\ pc = "meta" /\ pc' = "train" /\ part = disk["part"]
           /\ disk'["meta"] = [toks |-> trained, run |-> model.run]
  <2>1. toks = trained /\ part = model
    BY <1>8, Contents DEF Places, part, toks
  <2>2. Cost(part, toks) <= b
    BY <1>1, <1>4, <1>5, <1>8, <2>1 DEF TrainingCost, InTraining, TrainAt
  <2> QED BY <1>4, <1>5, <1>8, <2>2
<1> QED
  BY <1>6, <1>7, <1>8, PartStep, MetaStep, Contents DEF part

(* So do finished checkpoints, and the model in memory.                    *)
LEMMA FileCostStep ==
  ASSUME TypeOK, Places, RetrainInv, [Next]_vars
  PROVE  RetrainsOneInterval' /\ FileCost'
<1> USE DEF RetrainInv
<1>1. /\ Allowed \in Nat /\ Allowed' \in Nat /\ SaveEvery \in Nat
      /\ Allowed' = Allowed \/ Allowed' = Allowed + SaveEvery
  BY AllowedStep, ChunkAssumption
<1>2. PICK b \in Int : b = Allowed' /\ Allowed <= b
  BY <1>1
<1>3. \A m \in Model : Repeats(m) \in Int
  BY SeenFinite
<1>4. Repeats(model) <= Allowed
  BY DEF RetrainsOneInterval, Repeats, Allowed
<1>5. \A file \in {"ckpt", "tmp"} : disk[file] \in Model => Repeats(disk[file]) <= Allowed
  BY DEF FileCost
<1>6. \A file \in {"ckpt", "tmp"} : disk'[file] \in Model => Repeats(disk'[file]) <= b
  <2>1. model \in Model
    BY DEF TypeOK
  <2> QED BY <1>1, <1>2, <1>3, <1>4, <1>5, <2>1, CheckpointStep, Contents
<1>7. Repeats(model') <= b
  <2>1. CASE UNCHANGED model
    BY <1>1, <1>2, <1>3, <1>4, <2>1 DEF TypeOK
  <2>2. CASE Whole("ckpt") /\ model' = disk["ckpt"]
    BY <1>1, <1>2, <1>3, <1>5, <2>2 DEF TypeOK, Whole
  <2>3. CASE InTraining'
    <3>1. Cost(model', trained') <= Allowed'
      BY <2>3, TrainingCostStep DEF TrainingCost
    <3>2. model' \in Model /\ trained' \in Nat
      BY TypeStep DEF TypeOK
    <3>3. Repeats(model') <= Cost(model', trained') /\ Cost(model', trained') \in Int
      BY <3>2, CostType
    <3> QED BY <1>2, <1>3, <3>1, <3>2, <3>3
  <2> QED
    BY <2>1, <2>2, <2>3, ModelStep, TrainEffect DEF InTraining, TrainAt
<1>8. RetrainsOneInterval'
  BY <1>2, <1>7 DEF RetrainsOneInterval, Repeats, Allowed
<1> QED BY <1>2, <1>6, <1>8 DEF FileCost

(* At first nothing has been repeated.                                     *)
LEMMA RetrainInit == Init => RetrainInv
<1> SUFFICES ASSUME Init PROVE RetrainInv
  OBVIOUS
<1>1. ~InTraining /\ \A file \in File : disk[file] = Absent
  BY DEF Init, InTraining, TrainAt
<1>2. Seen(model) = {} /\ Len(model.seen) = 0
  BY DEF Init, NoModel, Seen
<1>3. RetrainsOneInterval
  BY <1>2, FS_EmptySet, ChunkAssumption DEF RetrainsOneInterval, Init
<1> QED
  BY <1>1, <1>3, Contents DEF RetrainInv, TrainingCost, ResumeCost, FileCost, File

(* A cancelled run, or one whose write fails, trains one interval again,   *)
(* for every length of the interval.                                       *)
THEOREM OneIntervalAgain == Spec => []RetrainsOneInterval
<1>1. CoverInv /\ RetrainInv /\ [Next]_vars => RetrainInv'
  BY TrainingCostStep, ResumeCostStep, FileCostStep DEF CoverInv, RetrainInv
<1>2. RetrainInv => RetrainsOneInterval
  BY DEF RetrainInv
<1> QED BY <1>1, <1>2, RetrainInit, CoverInvariant, PTL DEF Spec
=============================================================================
