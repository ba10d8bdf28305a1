--------------------------- MODULE SegmentStore ----------------------------
(***************************************************************************)
(* One capture window on disk, from its first chunk to its sealed           *)
(* directory: platform-win's LocalSegmentFs and LocalRecoveryFs as the      *)
(* engine calls them.  `<n>.incomplete` collects the window's files; the    *)
(* seal encodes the audio, writes the length and renames the directory to   *)
(* `<n>`, or merges it into the `<n>` that an earlier run of the program    *)
(* left; recovery does the same at launch for what a crash left behind.     *)
(* Every file operation that can fail, or that a crash can follow, is a     *)
(* step.  SegmentUpload adds the uploader, which works on `<n>` meanwhile.  *)
(***************************************************************************)
EXTENDS Integers, FiniteSets

CONSTANTS
  Sources,        \* the sources that record into this window
  MaxRuns,        \* launches of the program
  MaxFaults,      \* failing operations and crashes, together
  MayQuitEarly    \* the owner may quit before the window is over

Activity == "DesktopActivity"
AudioSources == {"Mic", "SystemAudio"}
Runs == 1..MaxRuns

ASSUME StoreAssumption ==
  /\ Sources \subseteq AudioSources \cup {"Screen", Activity}
  /\ MaxRuns \in Nat /\ MaxFaults \in Nat /\ MayQuitEarly \in BOOLEAN

----------------------------------------------------------------------------
(* A file's content is the set of recordings in it: what one source         *)
(* recorded in one run.  An absent or empty file has none.                  *)
Units == Sources \X Runs

PcmFile(k) == <<k, 0>>
Flac == <<"Audio", 0>>
Mp4 == <<"Screen", 0>>
Partial == <<"Partial", 0>>
ActivityFile(r) == <<Activity, r>>          \* named per process

PcmFiles == {PcmFile(k) : k \in AudioSources \cap Sources}
ActivityFiles == {ActivityFile(r) : r \in IF Activity \in Sources THEN Runs ELSE {}}
ScreenFiles == IF "Screen" \in Sources THEN {Mp4, Partial} ELSE {}
Names == PcmFiles \cup ActivityFiles \cup ScreenFiles \cup {Flac}

(***************************************************************************)
(* A directory: whether it exists, its files, its .len ("full" is the       *)
(* whole window, "own" the length of its media), whether it has             *)
(* .audio_sources, and the acknowledgement in .uploaded.                    *)
(***************************************************************************)
Empty == [n \in Names |-> {}]
Lens == {"none", "own", "full"}
NoAck == [files |-> Empty, key |-> "none"]
Acks == [files : [Names -> SUBSET Units], key : Lens]
NoDir == [dir |-> FALSE, f |-> Empty, len |-> "none", src |-> FALSE, ack |-> NoAck]
Dirs == [dir : BOOLEAN, f : [Names -> SUBSET Units], len : Lens, src : BOOLEAN, ack : Acks]

Entries(d) == {n \in Names : d.f[n] # {}}
Stored(d) == UNION {d.f[n] : n \in Names}

VARIABLES
  run, up,     \* launches so far; the program runs
  over,        \* the window has ended
  opened,      \* the engine holds the window as its current segment
  inc, sea,    \* `<n>.incomplete` and `<n>`
  quar,        \* what lies in quarantine
  pc,          \* the next operation of the seal in progress
  plan,        \* what the merge's listing found: [col, fresh]
  mode,        \* why the seal in progress runs: "run", "recover" or "quit"
  owed,        \* the window is in pending_seals
  faults,      \* failures and crashes so far
  written      \* history: what has been recorded

storeVars == <<run, up, over, opened, inc, sea, quar, pc, plan, mode, owed, faults, written>>

NoPlan == [col |-> FALSE, fresh |-> FALSE]

Costs == faults < MaxFaults /\ faults' = faults + 1

----------------------------------------------------------------------------
(* The program and the clock.                                               *)

(* has_sealable_media: a partial does not count.                            *)
Sealable(d) == Entries(d) \ {Partial} # {}

(* recover_all: the live window is left for the engine to continue.         *)
Launch ==
  /\ ~up /\ run < MaxRuns
  /\ up' = TRUE /\ run' = run + 1
  /\ pc' = IF ~over \/ ~inc.dir THEN "idle" ELSE IF Sealable(inc) THEN "sweep" ELSE "discard"
  /\ mode' = IF pc' = "idle" THEN "run" ELSE "recover"
  /\ UNCHANGED <<over, opened, inc, sea, quar, plan, owed, faults, written>>

GoesDown ==
  /\ up' = FALSE /\ pc' = "idle" /\ opened' = FALSE /\ owed' = FALSE
  /\ mode' = "run" /\ plan' = NoPlan

Crash ==
  /\ up /\ Costs
  /\ GoesDown
  /\ UNCHANGED <<run, over, inc, sea, quar, written>>

(* A quit with no segment open: nothing is sealed.                          *)
Exit ==
  /\ up /\ pc = "idle" /\ ~opened
  /\ over \/ MayQuitEarly
  /\ GoesDown
  /\ UNCHANGED <<run, over, inc, sea, quar, faults, written>>

EndWindow ==
  /\ ~over /\ over' = TRUE
  /\ UNCHANGED <<run, up, opened, inc, sea, quar, pc, plan, mode, owed, faults, written>>

----------------------------------------------------------------------------
(* Recording.                                                               *)

(* existing_incomplete or open_incomplete: the directory is continued.      *)
OpenIncomplete ==
  /\ up /\ pc = "idle" /\ ~opened /\ ~over
  /\ opened' = TRUE /\ inc' = [inc EXCEPT !.dir = TRUE]
  /\ UNCHANGED <<run, up, over, sea, quar, pc, plan, mode, owed, faults, written>>

Target(k) ==
  CASE k \in AudioSources -> PcmFile(k)
    [] k = Activity -> ActivityFile(run)
    [] OTHER -> Partial

(* write_chunk and append_activity append; the encoder's writer starts its  *)
(* partial afresh, and what it holds counts once it has been finished.      *)
Record(k) ==
  LET u == <<k, run>>
      n == Target(k)
  IN  /\ up /\ pc = "idle" /\ opened
      /\ u \notin Stored(inc)
      /\ inc' = [inc EXCEPT !.f[n] = IF k = "Screen" THEN {u} ELSE @ \cup {u}]
      /\ written' = IF k = "Screen" THEN written ELSE written \cup {u}
      /\ UNCHANGED <<run, up, over, opened, sea, quar, pc, plan, mode, owed, faults>>

----------------------------------------------------------------------------
(* The seal begins: seal_segment, at a rotation or a quit, and the retry.   *)

HasWriter == "Screen" \in Sources /\ <<"Screen", run>> \in inc.f[Partial]

Finalized(d) == IF HasWriter THEN [d EXCEPT !.f[Mp4] = d.f[Partial], !.f[Partial] = {}] ELSE d

BeginSeal(quit) ==
  /\ up /\ pc = "idle" /\ opened
  /\ opened' = FALSE
  /\ inc' = Finalized(inc)
  /\ written' = IF HasWriter THEN written \cup inc.f[Partial] ELSE written
  /\ pc' = "flac" /\ mode' = IF quit THEN "quit" ELSE "run"
  /\ UNCHANGED <<run, up, over, sea, quar, plan, owed, faults>>

(* The encoder fails to finish: the segment is left as it is.               *)
EncoderFails(quit) ==
  /\ up /\ pc = "idle" /\ opened /\ HasWriter /\ Costs
  /\ IF quit THEN GoesDown
     ELSE opened' = FALSE /\ UNCHANGED <<up, pc, owed, mode, plan>>
  /\ UNCHANGED <<run, over, inc, sea, quar, written>>

Seal == over /\ (BeginSeal(FALSE) \/ EncoderFails(FALSE))
Quit == (over \/ MayQuitEarly) /\ (BeginSeal(TRUE) \/ EncoderFails(TRUE))

(* Mutation: only a directory with media in it is retried.                  *)
RetryUsable ==
  /\ up /\ pc = "idle" /\ owed /\ ~opened /\ Sealable(inc)
  /\ pc' = "flac"
  /\ UNCHANGED <<run, up, over, opened, inc, sea, quar, plan, mode, owed, faults, written>>

RetrySeal ==
  /\ up /\ pc = "idle" /\ owed /\ ~opened
  /\ pc' = "flac"
  /\ UNCHANGED <<run, up, over, opened, inc, sea, quar, plan, mode, owed, faults, written>>

----------------------------------------------------------------------------
(* How an operation of the seal leaves the engine.                          *)

Kept == UNCHANGED <<run, over, opened, faults, written>>

Proceed(to) == up /\ pc' = to /\ UNCHANGED <<up, plan, mode, owed>> /\ Kept

SealDone ==
  /\ IF mode = "quit" THEN GoesDown
     ELSE /\ pc' = "idle" /\ owed' = FALSE /\ plan' = NoPlan
          /\ mode' = "run" /\ UNCHANGED <<up, opened>>
  /\ UNCHANGED <<run, over, faults, written>>

(* Err: pending_seals keeps the window; a program that quits just ends.    *)
SealErr ==
  /\ IF mode = "quit" THEN GoesDown
     ELSE /\ pc' = "idle" /\ owed' = TRUE /\ plan' = NoPlan
          /\ mode' = "run" /\ UNCHANGED <<up, opened>>
  /\ UNCHANGED <<run, over, inc, sea, quar, written>>

(* Any operation may fail; a recovery that cannot set aside has no engine.  *)
OperationFails ==
  /\ up /\ pc # "idle" /\ Costs
  /\ IF pc = "discard"
     THEN GoesDown /\ UNCHANGED <<run, over, inc, sea, quar, written>>
     ELSE SealErr

At(step) == up /\ pc = step

----------------------------------------------------------------------------
(* The operations, in their order.                                          *)

(* LocalRecoveryFs::quarantine.                                             *)
Discard ==
  /\ At("discard")
  /\ quar' = quar \cup Stored(inc) /\ inc' = NoDir /\ UNCHANGED sea
  /\ SealDone

(* Mutation: recovery keeps nothing but audio and video.                    *)
SweepToMedia ==
  /\ At("sweep")
  /\ inc' = [inc EXCEPT !.f = [n \in Names |-> IF n \in PcmFiles \cup {Flac, Mp4} THEN @[n] ELSE {}]]
  /\ UNCHANGED <<sea, quar>>
  /\ Proceed("flac")

(* remove_partial_media, in recovery only.                                  *)
Sweep ==
  /\ At("sweep")
  /\ inc' = [inc EXCEPT !.f = [n \in Names |-> IF n = Partial THEN {} ELSE @[n]]]
  /\ UNCHANGED <<sea, quar>>
  /\ Proceed("flac")

Heard == UNION {inc.f[n] : n \in PcmFiles}

(* Mutation: the raw audio goes before the encoded audio is written.        *)
CreateFlacDroppingPcm ==
  /\ At("flac")
  /\ inc' = [inc EXCEPT !.f = [n \in Names |-> IF n \in PcmFiles THEN {} ELSE @[n]]]
  /\ UNCHANGED <<sea, quar>>
  /\ Proceed(IF Heard = {} THEN "len" ELSE "encode")

(* seal_audio_flac: File::create truncates, then the FLAC is written ...    *)
CreateFlac ==
  /\ At("flac")
  /\ inc' = IF Heard = {} THEN inc ELSE [inc EXCEPT !.f[Flac] = {}]
  /\ UNCHANGED <<sea, quar>>
  /\ Proceed(IF Heard = {} THEN "len" ELSE "encode")

EncodeFlac ==
  /\ At("encode")
  /\ inc' = [inc EXCEPT !.f[Flac] = Heard, !.src = TRUE]
  /\ UNCHANGED <<sea, quar>>
  /\ Proceed("drop")

(* ... and the raw files go, the microphone's first.                        *)
DropPcm ==
  LET first == IF PcmFile("Mic") \in Entries(inc) THEN PcmFile("Mic") ELSE PcmFile("SystemAudio")
  IN  /\ At("drop")
      /\ inc' = [inc EXCEPT !.f[first] = {}]
      /\ UNCHANGED <<sea, quar>>
      /\ Proceed(IF PcmFiles \cap Entries(inc) = {first} THEN "len" ELSE "drop")

(* persist_seal_len: retained activity makes it the whole window.           *)
WriteLen ==
  /\ At("len")
  /\ \E l \in IF ActivityFiles \cap Entries(inc) # {} THEN {"full"} ELSE {"own", "full"} :
       inc' = [inc EXCEPT !.len = l]
  /\ UNCHANGED <<sea, quar>>
  /\ Proceed("seal")

Fresh == (ActivityFiles \cap Entries(inc)) \ Entries(sea)

Collides == Entries(inc) \cap Entries(sea) # {} \/ (inc.src /\ sea.src)

MergeStep(p) == IF p.fresh THEN "full" ELSE IF p.col THEN "aside" ELSE "move"

(* seal_or_merge: the rename, or the listing that plans the merge.          *)
SealOrMerge ==
  /\ At("seal")
  /\ UNCHANGED quar
  /\ IF ~sea.dir THEN sea' = inc /\ inc' = NoDir /\ SealDone
     ELSE /\ plan' = [col |-> Collides, fresh |-> Fresh # {}]
          /\ pc' = MergeStep(plan')
          /\ UNCHANGED <<up, inc, sea, mode, owed>> /\ Kept

(* The uploader has removed `<n>` meanwhile.                                *)
SealedGone == ~sea.dir /\ UNCHANGED faults /\ SealErr

(* New activity makes the sealed window whole, and its ack void.            *)
SetFullLen ==
  /\ At("full")
  /\ \/ SealedGone
     \/ /\ sea.dir
        /\ sea' = [sea EXCEPT !.len = "full"] /\ UNCHANGED <<inc, quar>>
        /\ Proceed("unmark")

Unmark ==
  /\ At("unmark")
  /\ sea' = [sea EXCEPT !.ack = NoAck] /\ UNCHANGED <<inc, quar>>
  /\ Proceed(IF plan.col THEN "rescue" ELSE "move")

(* An entry moves, or is dropped if its name is taken.                      *)
Moved(n) ==
  /\ sea' = [sea EXCEPT !.f[n] = IF @ = {} THEN inc.f[n] ELSE @]
  /\ inc' = [inc EXCEPT !.f[n] = {}]
  /\ UNCHANGED quar

(* After a collision only new activity joins the sealed window ...          *)
Rescue ==
  /\ At("rescue")
  /\ \/ \E n \in Fresh : SealedGone \/ (sea.dir /\ Moved(n) /\ Proceed("rescue"))
     \/ Fresh = {} /\ UNCHANGED <<inc, sea, quar>> /\ Proceed("aside")

(* ... and the rest is set aside.                                           *)
SetAside ==
  /\ At("aside")
  /\ quar' = quar \cup Stored(inc) /\ inc' = NoDir /\ UNCHANGED sea
  /\ SealDone

(* Without a collision everything moves, and the empty directory goes.      *)
MoveEntry ==
  /\ At("move")
  /\ \E n \in Entries(inc) : SealedGone \/ (sea.dir /\ Moved(n) /\ Proceed("move"))

MoveSidecars ==
  /\ At("move") /\ (inc.len # "none" \/ inc.src)
  /\ \/ SealedGone
     \/ /\ sea.dir
        /\ sea' = [sea EXCEPT !.len = IF @ = "none" THEN inc.len ELSE @, !.src = @ \/ inc.src]
        /\ inc' = [inc EXCEPT !.len = "none", !.src = FALSE]
        /\ UNCHANGED quar /\ Proceed("move")

RemoveIncomplete ==
  /\ At("move") /\ Entries(inc) = {} /\ inc.len = "none" /\ ~inc.src
  /\ inc' = NoDir /\ UNCHANGED <<sea, quar>>
  /\ SealDone

SealSteps ==
  \/ Discard \/ Sweep \/ CreateFlac \/ EncodeFlac \/ DropPcm \/ WriteLen \/ SealOrMerge
  \/ SetFullLen \/ Unmark \/ Rescue \/ SetAside \/ MoveEntry \/ MoveSidecars \/ RemoveIncomplete

StoreInit ==
  /\ run = 0 /\ up = FALSE /\ over = FALSE /\ opened = FALSE
  /\ inc = NoDir /\ sea = NoDir /\ quar = {}
  /\ pc = "idle" /\ plan = NoPlan /\ mode = "run" /\ owed = FALSE
  /\ faults = 0 /\ written = {}

----------------------------------------------------------------------------
PCs == {"idle", "discard", "sweep", "flac", "encode", "drop", "len", "seal",
        "full", "unmark", "rescue", "aside", "move"}

StoreTypeOK ==
  /\ run \in 0..MaxRuns /\ {up, over, opened, owed} \subseteq BOOLEAN
  /\ inc \in Dirs /\ sea \in Dirs /\ quar \subseteq Units
  /\ pc \in PCs /\ mode \in {"run", "recover", "quit"} /\ plan \in [col : BOOLEAN, fresh : BOOLEAN]
  /\ faults \in 0..MaxFaults /\ written \subseteq Units
=============================================================================
