------------------------------- MODULE Pretrain -------------------------------
(***************************************************************************)
(* tools/pretrain.c and the files it keeps: the full training run with its *)
(* partial checkpoints and resume, and the offline organs build, run one   *)
(* at a time by a user who may cancel either at any point and start again, *)
(* with or without --fresh.                                                *)
(*                                                                         *)
(* The corpus is one fixed stream of chunks of CHUNK_TOKS tokens; a token  *)
(* count is a number of chunks.  A file is Absent, Torn (truncated by      *)
(* fopen "wb", not yet or never completely written: every loader rejects   *)
(* it by size, CRC or a short read) or holds what a save put into it.  A   *)
(* saved model is the sequence of chunks fluency_train was given.          *)
(***************************************************************************)
EXTENDS Integers, Sequences, FiniteSets

CONSTANTS
  Chunks,       (* chunks of the corpus; the last one is the short tail   *)
  SaveEvery,    (* SAVE_EVERY_TOKS, in chunks                              *)
  Absent, Torn, Lexicon,   (* contents of files                            *)
  MaxStarts,    (* bounds of the model: runs of the tools,                 *)
  MaxCrashes,   (* cancelled runs,                                         *)
  MaxFaults     (* and failed file operations                              *)

ASSUME ChunkAssumption == Chunks \in Nat \ {0} /\ SaveEvery \in Nat \ {0}
ASSUME FileAssumption == Absent # Torn /\ Absent # Lexicon /\ Torn # Lexicon
ASSUME BoundAssumption == {MaxStarts, MaxCrashes, MaxFaults} \subseteq Nat

VARIABLES
  disk,     (* the contents of the files                                   *)
  pc,       (* where the running tool is; "idle" when none runs            *)
  open,     (* the file saved at pc has been truncated and not yet closed  *)
  model,    (* the model in memory                                         *)
  trained,  (* trained_toks                                                *)
  last,     (* last_ckpt                                                   *)
  starts, crashes, faults,   (* how many of each there have been           *)
  saved     (* history: the resume point of the last partial checkpoint    *)
            (* written completely since the last run from scratch          *)

vars == <<disk, pc, open, model, trained, last, starts, crashes, faults, saved>>
-----------------------------------------------------------------------------
File == {"ckpt", "words", "part", "meta", "tmp"}

(* run: the start the model was begun in; stale: it was resumed with the   *)
(* resume point of another one.  Both are history.                         *)
Model == [run : 0..MaxStarts, stale : BOOLEAN, seen : Seq(1..Chunks)]
Meta == [toks : 1..Chunks, run : 0..MaxStarts]

(* What a file holds tells whether it has been written.                    *)
ASSUME ContentAssumption == {Absent, Torn, Lexicon} \cap (Model \cup Meta) = {}

NoModel == [run |-> 0, stale |-> FALSE, seen |-> <<>>]

(* The places where the tools save, and the file they save to there.       *)
SavedAt == [words |-> "words", part |-> "part", meta |-> "meta",
            ckpt |-> "ckpt", wordsAgain |-> "words", organs |-> "tmp"]

OrgansAt == {"organs", "verify", "unlinkCkpt", "rename"}
TrainAt == {"load", "words", "train", "part", "meta", "ckpt",
            "unlinkPart", "unlinkMeta", "wordsAgain"}

Content(file) ==
  CASE file = "words" -> Lexicon
    [] file = "meta"  -> [toks |-> trained, run |-> model.run]
    [] OTHER          -> model

Present(file) == disk[file] # Absent
Whole(file) == disk[file] \notin {Absent, Torn}

Init == /\ disk = [file \in File |-> Absent]
        /\ pc = "idle"
        /\ open = FALSE
        /\ model = NoModel
        /\ trained = 0
        /\ last = 0
        /\ starts = 0 /\ crashes = 0 /\ faults = 0
        /\ saved = 0
-----------------------------------------------------------------------------
(* Where a save goes on when it succeeds.                                  *)
AfterSave(at) ==
  CASE at = "words"      -> "train"
    [] at = "part"       -> "meta"
    [] at = "meta"       -> "train"
    [] at = "ckpt"       -> "unlinkPart"
    [] at = "wordsAgain" -> "idle"
    [] at = "organs"     -> "verify"

(* The resume point is saved also when the model was not (mutant).         *)
AfterFailureGoesOn(at) ==
  CASE at = "part"             -> "meta"
    [] at \in {"words", "meta"} -> "train"
    [] OTHER                   -> "idle"

(* A failed save of the early lexicon or of a partial checkpoint is a      *)
(* warning; any other ends the run.                                        *)
AfterFailure(at) == IF at \in {"words", "part", "meta"} THEN "train" ELSE "idle"

(* fopen(path, "wb") truncates the file in place.                          *)
Truncate ==
  /\ pc \in DOMAIN SavedAt
  /\ ~open
  /\ disk' = [disk EXCEPT ![SavedAt[pc]] = Torn]
  /\ open' = TRUE
  /\ UNCHANGED <<pc, model, trained, last, starts, crashes, faults, saved>>

Close ==
  /\ open
  /\ disk' = [disk EXCEPT ![SavedAt[pc]] = Content(SavedAt[pc])]
  /\ open' = FALSE
  /\ pc' = AfterSave(pc)
  /\ saved' = CASE pc = "meta" -> trained
                [] pc = "ckpt" -> 0
                [] OTHER       -> saved
  /\ UNCHANGED <<model, trained, last, starts, crashes, faults>>

(* The file cannot be opened, or not all of it can be written.  A write    *)
(* that fails as fclose flushes it goes unnoticed: no save looks at what   *)
(* fclose returns.                                                         *)
SaveFails ==
  /\ faults < MaxFaults
  /\ pc \in DOMAIN SavedAt
  /\ pc' \in {AfterFailure(pc)} \cup (IF open THEN {AfterSave(pc)} ELSE {})
  /\ open' = FALSE
  /\ faults' = faults + 1
  /\ UNCHANGED <<disk, model, trained, last, starts, crashes, saved>>
-----------------------------------------------------------------------------
(* main looks whether there is a resume point, and whether the partial     *)
(* checkpoint and the lexicon can be opened.                               *)
Resumes == disk["meta"] \in Meta /\ Present("part") /\ Present("words")

(* A run from scratch keeps the last one's last_ckpt (mutant).             *)
StartKeepsLast(fresh) ==
  /\ pc = "idle"
  /\ starts < MaxStarts
  /\ starts' = starts + 1
  /\ IF Resumes /\ ~fresh
     THEN pc' = "load" /\ UNCHANGED <<model, trained, saved>>
     ELSE /\ pc' = "words"
          /\ model' = [NoModel EXCEPT !.run = starts + 1]
          /\ trained' = 0 /\ saved' = 0
  /\ UNCHANGED <<disk, open, last, crashes, faults>>

Start(fresh) ==
  /\ pc = "idle"
  /\ starts < MaxStarts
  /\ starts' = starts + 1
  /\ IF Resumes /\ ~fresh
     THEN pc' = "load" /\ UNCHANGED <<model, trained, last, saved>>
     ELSE /\ pc' = "words"
          /\ model' = [NoModel EXCEPT !.run = starts + 1]
          /\ trained' = 0 /\ last' = 0 /\ saved' = 0
  /\ UNCHANGED <<disk, open, crashes, faults>>

(* Training goes on from the first token (mutant).                         *)
ResumePointZero == 0

(* The tokens that a resumed run skips.                                    *)
ResumePoint == disk["meta"].toks

(* A resumed run loads the lexicon and the partial checkpoint, or fails.   *)
LoadPartial ==
  /\ pc = "load"
  /\ IF Whole("words") /\ Whole("part")
     THEN /\ pc' = "train"
          /\ model' = [disk["part"] EXCEPT
                         !.stale = @ \/ disk["part"].run # disk["meta"].run]
          /\ trained' = ResumePoint
          /\ last' = ResumePoint
     ELSE pc' = "idle" /\ UNCHANGED <<model, trained, last>>
  /\ UNCHANGED <<disk, open, starts, crashes, faults, saved>>

(* One chunk; the tail after the last full chunk saves no partial.         *)
Train ==
  /\ pc = "train"
  /\ trained < Chunks
  /\ model' = [model EXCEPT !.seen = Append(@, trained + 1)]
  /\ trained' = trained + 1
  /\ IF trained + 1 - last >= SaveEvery /\ trained + 1 < Chunks
     THEN pc' = "part" /\ last' = trained + 1
     ELSE UNCHANGED <<pc, last>>
  /\ UNCHANGED <<disk, open, starts, crashes, faults, saved>>

(* The tail is left out (mutant).                                          *)
StreamEndsEarly == trained >= Chunks - 1

StreamEnds == trained = Chunks

FinishTraining ==
  /\ pc = "train"
  /\ StreamEnds
  /\ pc' = "ckpt"
  /\ UNCHANGED <<disk, open, model, trained, last, starts, crashes, faults, saved>>

(* remove(part_path), then remove(part_meta).                              *)
Unlink(at, file, next) ==
  /\ pc = at
  /\ disk' = [disk EXCEPT ![file] = Absent]
  /\ pc' = next
  /\ UNCHANGED <<open, model, trained, last, starts, crashes, faults, saved>>
-----------------------------------------------------------------------------
(* run_organs_build loads the checkpoint and the lexicon, adds its tables  *)
(* and saves the model next to the checkpoint.                             *)
StartOrgans ==
  /\ pc = "idle"
  /\ starts < MaxStarts
  /\ starts' = starts + 1
  /\ IF Whole("ckpt") /\ Whole("words")
     THEN pc' = "organs" /\ model' = disk["ckpt"]
     ELSE UNCHANGED <<pc, model>>
  /\ UNCHANGED <<disk, open, trained, last, crashes, faults, saved>>

(* The tables are there, whatever the file holds (mutant).                 *)
VerifiedBlindly == Present("tmp")

(* The saved file loads, with the graph's sizes and the organs' tables.    *)
Verified == Whole("tmp")

Verify ==
  /\ pc = "verify"
  /\ IF Verified
     THEN pc' = "unlinkCkpt" /\ UNCHANGED disk
     ELSE pc' = "idle" /\ disk' = [disk EXCEPT !["tmp"] = Absent]
  /\ UNCHANGED <<open, model, trained, last, starts, crashes, faults, saved>>

Rename ==
  /\ pc = "rename"
  /\ \/ /\ disk' = [disk EXCEPT !["ckpt"] = disk["tmp"], !["tmp"] = Absent]
        /\ UNCHANGED faults
     \/ faults < MaxFaults /\ faults' = faults + 1 /\ UNCHANGED disk
  /\ pc' = "idle"
  /\ UNCHANGED <<open, model, trained, last, starts, crashes, saved>>

(* The user cancels the run, or the machine stops: memory is lost.         *)
Crash ==
  /\ pc # "idle"
  /\ crashes < MaxCrashes
  /\ crashes' = crashes + 1
  /\ pc' = "idle"
  /\ open' = FALSE
  /\ UNCHANGED <<disk, model, trained, last, starts, faults, saved>>

Next == \/ Truncate \/ Close \/ SaveFails
        \/ \E fresh \in BOOLEAN : Start(fresh)
        \/ LoadPartial \/ Train \/ FinishTraining
        \/ Unlink("unlinkPart", "part", "unlinkMeta")
        \/ Unlink("unlinkMeta", "meta", "wordsAgain")
        \/ StartOrgans \/ Verify \/ Rename
        \/ Unlink("unlinkCkpt", "ckpt", "rename")
        \/ Crash

Spec == Init /\ [][Next]_vars
-----------------------------------------------------------------------------
TypeOK ==
  /\ DOMAIN disk = File
  /\ \A file \in {"ckpt", "part", "tmp"} : disk[file] \in {Absent, Torn} \cup Model
  /\ disk["words"] \in {Absent, Torn, Lexicon}
  /\ disk["meta"] \in {Absent, Torn} \cup Meta
  /\ pc \in {"idle"} \cup TrainAt \cup OrgansAt
  /\ open \in BOOLEAN /\ (open => pc \in DOMAIN SavedAt)
  /\ model \in Model
  /\ last \in 0..trained /\ trained \in 0..Chunks
  /\ starts \in 0..MaxStarts /\ crashes \in 0..MaxCrashes /\ faults \in 0..MaxFaults
  /\ saved \in 0..Chunks

Seen(m) == {m.seen[j] : j \in DOMAIN m.seen}

(* A resume point never runs ahead of the partial checkpoint of its own    *)
(* run: whatever a crash or a failed write interrupts, resuming skips only *)
(* tokens which the model it loads has been trained on.                    *)
ResumeCovered ==
  LET part == disk["part"]
      meta == disk["meta"]
  IN  Whole("part") /\ meta \in Meta /\ part.run = meta.run /\ ~part.stale
        => 1..meta.toks \subseteq Seen(part)

(* A finished checkpoint has seen the whole corpus, over all crashes and   *)
(* resumes, unless it was resumed with another run's resume point.         *)
CheckpointComplete ==
  Whole("ckpt") /\ ~disk["ckpt"].stale => Seen(disk["ckpt"]) = 1..Chunks

(* A cancelled run, or one whose write fails, costs one interval between   *)
(* partial checkpoints: no more is trained twice.                          *)
RetrainsOneInterval ==
  Len(model.seen) - Cardinality(Seen(model)) <= SaveEvery * (crashes + faults)

ModelOnDisk == Whole("ckpt") \/ Whole("tmp")

(* The organs build, cancelled anywhere and with any write failing, never  *)
(* loses the trained model: the old file or a complete new one is there.   *)
OrgansKeepModel == [][(pc \in OrgansAt /\ ModelOnDisk) => ModelOnDisk']_vars
-----------------------------------------------------------------------------
(* tools/pretrain.c:42: "Periodic partial checkpoint so a cancelled run    *)
(* keeps its progress."                                                    *)
KeepsProgress ==
  pc = "idle" /\ saved > 0 =>
    /\ Whole("part") /\ Whole("words")
    /\ disk["meta"] \in Meta /\ disk["meta"].toks >= saved

(* tools/pretrain.c says a resumed run skips "already-trained tokens".     *)
SkipsOnlyTrained == pc = "train" => 1..trained \subseteq Seen(model)

(* tools/pretrain.c:332: "atomic replace of ckpt (tmp -> verify load ->    *)
(* rename)": the old file or the new one is there at every moment.         *)
AtomicReplace == Present("tmp") => Present("ckpt")
=============================================================================
