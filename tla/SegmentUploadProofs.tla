------------------------ MODULE SegmentUploadProofs ------------------------
(***************************************************************************)
(* Proofs about SegmentUpload, for every value of its constants: its type,  *)
(* that nothing leaves the sealed window but to quarantine or as what the   *)
(* journal already holds, and that no desktop activity is lost before it    *)
(* gets there.                                                              *)
(*                                                                          *)
(* The invariant has two halves.  StoreInv is about the directories; every  *)
(* step of the engine keeps it and only ever adds to the sealed window      *)
(* (Grows).  Custody is about the uploader: what an acknowledgement on disk *)
(* or in its hands covers, and every file it is about to delete, is with    *)
(* the journal as it is on disk now, however the two tasks interleave.      *)
(* For desktop activity RowsInv adds where the rows are, and that a merge   *)
(* which met no collision when it began meets none later.                   *)
(***************************************************************************)
EXTENDS SegmentUpload, TLAPS

Contents == [Names -> SUBSET Units]

(* The engine holds, owes or seals only a window that is there.             *)
Working ==
  /\ opened \/ owed \/ pc # "idle" => up /\ inc.dir
  /\ pc # "idle" => ~opened

StoreInv ==
  /\ StoreTypeOK /\ Working
  /\ up => run \in Runs
  /\ inc.ack = NoAck
  /\ ~sea.dir => sea = NoDir

(* A step of the engine: no file of the sealed window changes.              *)
Grows ==
  /\ \A n \in Names : sea.f[n] # {} => sea'.f[n] = sea.f[n]
  /\ sea'.ack \in {sea.ack, NoAck}

Custody ==
  /\ \A n \in Names : sea.ack.files[n] \subseteq settled
  /\ upc # "sending" => \A n \in Names : sent.files[n] \subseteq settled
  /\ upc \notin {"recheck", "delete"} => matched = {}
  /\ \A n \in matched : sea.f[n] # {} /\ sea.f[n] \subseteq settled

UploadInv == TypeOK /\ StoreInv /\ Custody

----------------------------------------------------------------------------
(* Directories.                                                             *)

(* An empty directory entry, and the absent directory, are typed.           *)
LEMMA NoneTyped ==
  /\ Empty \in Contents /\ NoAck \in Acks /\ NoDir \in Dirs
  /\ \A n \in Names : NoAck.files[n] = {} /\ NoDir.f[n] = {}
  /\ NoDir.dir = FALSE /\ NoDir.ack = NoAck /\ NoAck.key \in Lens
  BY DEF Contents, Empty, NoAck, NoDir, Acks, Dirs, Lens

(* Removing the acknowledgement of a directory that is not there.           *)
LEMMA NoDirUnmarked == [NoDir EXCEPT !.ack = NoAck] = NoDir
<1>1. ASSUME NEW d \in Dirs PROVE [d EXCEPT !.ack = d.ack] = d BY DEF Dirs
<1> QED BY <1>1, NoneTyped

(* The fields of a directory.                                               *)
LEMMA DirFields ==
  ASSUME NEW d \in Dirs
  PROVE  /\ d.f \in Contents /\ d.dir \in BOOLEAN /\ d.src \in BOOLEAN
         /\ d.len \in Lens /\ d.ack \in Acks /\ d.ack.files \in Contents
         /\ \A n \in Names : d.f[n] \subseteq Units
  BY DEF Dirs, Acks, Contents

(* Replacing one file's content.                                            *)
LEMMA FileTyped ==
  ASSUME NEW d \in Dirs, NEW m, NEW S \in SUBSET Units
  PROVE  /\ [d EXCEPT !.f[m] = S] \in Dirs
         /\ [d EXCEPT !.f[m] = S].ack = d.ack
         /\ [d EXCEPT !.f[m] = S].dir = d.dir
         /\ \A n \in Names : [d EXCEPT !.f[m] = S].f[n] = IF n = m THEN S ELSE d.f[n]
  BY DEF Dirs, Contents

(* Replacing all of a directory's files.                                    *)
LEMMA FilesTyped ==
  ASSUME NEW d \in Dirs, NEW g \in Contents
  PROVE  /\ [d EXCEPT !.f = g] \in Dirs
         /\ [d EXCEPT !.f = g].ack = d.ack /\ [d EXCEPT !.f = g].dir = d.dir
  BY DEF Dirs, Contents

(* What a directory stores.                                                 *)
LEMMA StoredTyped ==
  ASSUME NEW d \in Dirs
  PROVE  Stored(d) \subseteq Units /\ \A n \in Names : d.f[n] \subseteq Stored(d)
  BY DirFields DEF Stored

(* The engine leaves the sealed window as it is.                            *)
LEMMA SameSea ==
  ASSUME StoreInv, sea' = sea
  PROVE  Grows /\ sea' \in Dirs /\ (~sea'.dir => sea' = NoDir)
  BY DEF Grows, StoreInv, StoreTypeOK

----------------------------------------------------------------------------
(* The engine's steps.                                                      *)

(* A fault within the bound.                                                *)
LEMMA CostsTyped == StoreTypeOK /\ Costs => faults' \in 0..MaxFaults
  BY StoreAssumption DEF StoreAssumption, StoreTypeOK, Costs

(* The program ends with its directories as they are.                       *)
LEMMA DownStep ==
  ASSUME StoreInv, GoesDown, UNCHANGED <<run, over, inc, sea, quar, written>>,
         faults' \in 0..MaxFaults
  PROVE  StoreInv' /\ Grows
<1>1. StoreTypeOK'
  BY DEF StoreInv, StoreTypeOK, GoesDown, PCs, NoPlan
<1>2. Working' BY DEF Working, GoesDown
<1> QED BY <1>1, <1>2, SameSea DEF StoreInv, GoesDown

(* Launch, crash, exit, the end of the window.                              *)
LEMMA ProgramStep ==
  ASSUME StoreInv, Launch \/ Crash \/ Exit \/ EndWindow
  PROVE  StoreInv' /\ Grows
<1>1. CASE Launch
  <2>1. run' \in 1..MaxRuns /\ run' \in 0..MaxRuns
    BY <1>1, StoreAssumption DEF StoreAssumption, StoreInv, StoreTypeOK, Launch
  <2>2. pc' \in PCs /\ mode' \in {"run", "recover", "quit"} BY <1>1 DEF Launch, PCs
  <2>3. StoreTypeOK' BY <1>1, <2>1, <2>2 DEF StoreInv, StoreTypeOK, Launch
  <2>4. Working' BY <1>1 DEF StoreInv, Working, Launch
  <2> QED BY <1>1, <2>1, <2>3, <2>4, SameSea DEF StoreInv, Launch, Runs
<1>2. CASE Crash BY <1>2, CostsTyped, DownStep DEF Crash, StoreInv
<1>3. CASE Exit BY <1>3, DownStep DEF Exit, StoreInv, StoreTypeOK
<1>4. CASE EndWindow
  <2>1. StoreTypeOK' BY <1>4 DEF StoreInv, StoreTypeOK, EndWindow
  <2> QED BY <1>4, <2>1, SameSea DEF StoreInv, EndWindow, Working
<1> QED BY <1>1, <1>2, <1>3, <1>4

(* Opening and recording touch only the incomplete directory.               *)
LEMMA RecordStep ==
  ASSUME StoreInv, OpenIncomplete \/ \E k \in Sources : Record(k)
  PROVE  StoreInv' /\ Grows
<1>1. CASE OpenIncomplete
  <2>1. inc' \in Dirs /\ inc'.ack = inc.ack /\ inc'.dir
    BY <1>1 DEF StoreInv, StoreTypeOK, OpenIncomplete, Dirs
  <2>2. StoreTypeOK' BY <1>1, <2>1 DEF StoreInv, StoreTypeOK, OpenIncomplete
  <2> QED BY <1>1, <2>1, <2>2, SameSea DEF StoreInv, OpenIncomplete, Working
<1>2. ASSUME NEW k \in Sources, Record(k) PROVE StoreInv' /\ Grows
  <2> DEFINE u == <<k, run>>
  <2> DEFINE n == Target(k)
  <2> DEFINE S == IF k = "Screen" THEN {u} ELSE inc.f[n] \cup {u}
  <2>1. u \in Units BY <1>2 DEF StoreInv, Record, Units
  <2>2. n \in Names
    <3>1. run \in Runs BY <1>2 DEF StoreInv, Record
    <3>2. k \in AudioSources \cup {"Screen", Activity}
      BY StoreAssumption DEF StoreAssumption
    <3>3. CASE k \in AudioSources
      <4>1. PcmFile(k) \in PcmFiles BY <3>3 DEF PcmFiles
      <4>2. Target(k) = PcmFile(k) BY <3>3 DEF Target, AudioSources, Activity
      <4> QED BY <4>1, <4>2 DEF Names
    <3>4. CASE k = Activity
      <4>1. ActivityFile(run) \in ActivityFiles BY <3>1, <3>4 DEF ActivityFiles
      <4> QED BY <3>4, <4>1 DEF Target, Names, Activity, AudioSources
    <3>5. CASE k = "Screen"
      <4>1. Partial \in ScreenFiles BY <3>5 DEF ScreenFiles
      <4> QED BY <3>5, <4>1 DEF Target, Names, Activity, AudioSources
    <3> QED BY <3>2, <3>3, <3>4, <3>5
  <2>3. S \in SUBSET Units BY <2>1, <2>2, DirFields DEF StoreInv, StoreTypeOK
  <2>4. inc' = [inc EXCEPT !.f[n] = S] BY <1>2 DEF Record
  <2> HIDE DEF n, S
  <2>5. inc' \in Dirs /\ inc'.ack = inc.ack /\ inc'.dir = inc.dir
    BY <2>3, <2>4 DEF StoreInv, StoreTypeOK, Dirs
  <2>6. written' \subseteq Units BY <1>2, <2>1 DEF StoreInv, StoreTypeOK, Record
  <2>7. StoreTypeOK' BY <1>2, <2>5, <2>6 DEF StoreInv, StoreTypeOK, Record
  <2> QED BY <1>2, <2>5, <2>7, SameSea DEF StoreInv, Record, Working
<1> QED BY <1>1, <1>2

(* A finished encoder renames its partial.                                  *)
LEMMA FinalizedTyped ==
  ASSUME NEW d \in Dirs
  PROVE  Finalized(d) \in Dirs /\ Finalized(d).ack = d.ack /\ Finalized(d).dir = d.dir
<1>1. CASE HasWriter
  <2> DEFINE t == [d EXCEPT !.f[Mp4] = d.f[Partial]]
  <2>1. d.f[Partial] \subseteq Units
    <3>1. Partial \in Names BY <1>1 DEF HasWriter, Names, ScreenFiles
    <3> QED BY <3>1, DirFields
  <2>2. t \in Dirs /\ t.ack = d.ack /\ t.dir = d.dir BY <2>1 DEF Dirs
  <2>3. Finalized(d) = [t EXCEPT !.f[Partial] = {}] BY <1>1 DEF Finalized
  <2> HIDE DEF t
  <2> QED BY <2>2, <2>3, FileTyped
<1>2. CASE ~HasWriter BY <1>2 DEF Finalized
<1> QED BY <1>1, <1>2

(* A seal begins, or the encoder fails to finish.                           *)
LEMMA BeginStep ==
  ASSUME StoreInv, Seal \/ Quit \/ RetrySeal
  PROVE  StoreInv' /\ Grows
<1>1. ASSUME NEW quit \in BOOLEAN, BeginSeal(quit) PROVE StoreInv' /\ Grows
  <2>1. inc' \in Dirs /\ inc'.ack = inc.ack /\ inc'.dir = inc.dir
    BY <1>1, FinalizedTyped DEF BeginSeal, StoreInv, StoreTypeOK
  <2>2. written' \subseteq Units
    <3>1. HasWriter => inc.f[Partial] \subseteq Units
      <4>1. HasWriter => Partial \in Names BY DEF HasWriter, Names, ScreenFiles
      <4> QED BY <4>1, DirFields DEF StoreInv, StoreTypeOK
    <3> QED BY <1>1, <3>1 DEF BeginSeal, StoreInv, StoreTypeOK
  <2>3. StoreTypeOK' BY <1>1, <2>1, <2>2 DEF BeginSeal, StoreInv, StoreTypeOK, PCs
  <2> QED BY <1>1, <2>1, <2>3, SameSea DEF BeginSeal, StoreInv, Working
<1>2. ASSUME NEW quit \in BOOLEAN, EncoderFails(quit) PROVE StoreInv' /\ Grows
  <2>1. faults' \in 0..MaxFaults BY <1>2, CostsTyped DEF EncoderFails, StoreInv
  <2>2. CASE quit BY <1>2, <2>1, <2>2, DownStep DEF EncoderFails
  <2>3. CASE ~quit
    <3>1. StoreTypeOK' BY <1>2, <2>1, <2>3 DEF EncoderFails, StoreInv, StoreTypeOK
    <3> QED BY <1>2, <2>3, <3>1, SameSea DEF EncoderFails, StoreInv, Working
  <2> QED BY <2>2, <2>3
<1>3. CASE RetrySeal
  <2>1. StoreTypeOK' BY <1>3 DEF RetrySeal, StoreInv, StoreTypeOK, PCs
  <2> QED BY <1>3, <2>1, SameSea DEF RetrySeal, StoreInv, Working
<1> QED BY <1>1, <1>2, <1>3 DEF Seal, Quit

(* An operation fails.                                                      *)
LEMMA ErrStep ==
  ASSUME StoreInv, SealErr, pc # "idle", faults' \in 0..MaxFaults
  PROVE  StoreInv' /\ Grows
<1>1. CASE mode = "quit" BY <1>1, DownStep DEF SealErr
<1>2. CASE mode # "quit"
  <2>1. /\ pc' = "idle" /\ owed' = TRUE /\ plan' = NoPlan /\ mode' = "run"
        /\ UNCHANGED <<up, opened, run, over, inc, sea, quar, written>>
    BY <1>2 DEF SealErr
  <2>2. StoreTypeOK' BY <2>1 DEF StoreInv, StoreTypeOK, PCs, NoPlan
  <2> QED BY <2>1, <2>2, SameSea DEF StoreInv, Working
<1> QED BY <1>1, <1>2

(* Any operation may fail.                                                  *)
LEMMA FailStep == ASSUME StoreInv, OperationFails PROVE StoreInv' /\ Grows
<1>1. faults' \in 0..MaxFaults BY CostsTyped DEF OperationFails, StoreInv
<1> QED BY <1>1, ErrStep, DownStep DEF OperationFails

(* What an operation does to the directories is well formed.                *)
Sound ==
  /\ inc' \in Dirs /\ inc'.ack = NoAck
  /\ sea' \in Dirs /\ (~sea'.dir => sea' = NoDir)
  /\ quar' \subseteq Units

(* An operation is followed by the next one.                                *)
LEMMA ProceedStep ==
  ASSUME StoreInv, NEW to \in PCs, Proceed(to), Sound, pc # "idle", inc'.dir = inc.dir
  PROVE  StoreInv'
<1>1. StoreTypeOK' BY DEF StoreInv, StoreTypeOK, Proceed, Kept, Sound
<1> QED BY <1>1 DEF StoreInv, Proceed, Kept, Sound, Working

(* An operation is the seal's last.                                         *)
LEMMA DoneStep ==
  ASSUME StoreInv, SealDone, Sound, pc # "idle"
  PROVE  StoreInv'
<1>1. CASE mode = "quit"
  <2>1. GoesDown /\ UNCHANGED <<run, over, faults, written>> BY <1>1 DEF SealDone
  <2>2. StoreTypeOK' BY <2>1 DEF StoreInv, StoreTypeOK, GoesDown, PCs, NoPlan, Sound
  <2> QED BY <2>1, <2>2 DEF GoesDown, StoreInv, Sound, Working
<1>2. CASE mode # "quit"
  <2>1. /\ pc' = "idle" /\ owed' = FALSE /\ plan' = NoPlan /\ mode' = "run"
        /\ UNCHANGED <<up, opened, run, over, faults, written>>
    BY <1>2 DEF SealDone
  <2>2. StoreTypeOK' BY <2>1 DEF StoreInv, StoreTypeOK, PCs, NoPlan, Sound
  <2> QED BY <2>1, <2>2 DEF StoreInv, Sound, Working
<1> QED BY <1>1, <1>2

(* The operations up to the rename touch only the incomplete directory.     *)
LEMMA EarlySteps ==
  ASSUME StoreInv,
         Discard \/ Sweep \/ CreateFlac \/ EncodeFlac \/ DropPcm \/ WriteLen
           \/ SetAside \/ RemoveIncomplete
  PROVE  StoreInv' /\ Grows
<1>0. inc \in Dirs /\ sea \in Dirs /\ quar \subseteq Units /\ inc.ack = NoAck
  BY DEF StoreInv, StoreTypeOK
<1>p. pc # "idle"
  BY DEF Discard, Sweep, CreateFlac, EncodeFlac, DropPcm, WriteLen, SetAside, RemoveIncomplete, At
<1>s. sea' = sea => Grows /\ sea' \in Dirs /\ (~sea'.dir => sea' = NoDir) BY SameSea
<1>1. CASE Discard \/ SetAside \/ RemoveIncomplete
  <2>1. SealDone /\ sea' = sea /\ inc' = NoDir /\ quar' \in {quar, quar \cup Stored(inc)}
    BY <1>1 DEF Discard, SetAside, RemoveIncomplete
  <2>2. Sound BY <1>0, <1>s, <2>1, NoneTyped, StoredTyped DEF Sound
  <2> QED BY <2>1, <2>2, <1>p, <1>s, DoneStep
<1>2. CASE Sweep
  <2> DEFINE g == [n \in Names |-> IF n = Partial THEN {} ELSE inc.f[n]]
  <2>1. g \in Contents BY <1>0, DirFields DEF Contents
  <2>2. inc' = [inc EXCEPT !.f = g] BY <1>2 DEF Sweep
  <2> HIDE DEF g
  <2>3. inc' \in Dirs /\ inc'.ack = inc.ack /\ inc'.dir = inc.dir
    BY <1>0, <2>1, <2>2, FilesTyped
  <2>4. Proceed("flac") /\ UNCHANGED <<sea, quar>> BY <1>2 DEF Sweep
  <2>5. Sound BY <1>0, <1>s, <2>3, <2>4 DEF Sound
  <2>6. "flac" \in PCs BY DEF PCs
  <2> QED BY <2>3, <2>4, <2>5, <2>6, <1>p, <1>s, ProceedStep
<1>3. Heard \subseteq Units
  <2>1. PcmFiles \subseteq Names BY DEF Names
  <2> QED BY <1>0, <2>1, DirFields DEF Heard
<1>4. CASE CreateFlac
  <2>1. inc' \in Dirs /\ inc'.ack = inc.ack /\ inc'.dir = inc.dir
    BY <1>0, <1>4 DEF CreateFlac, Dirs
  <2>2. PICK to \in {"len", "encode"} : Proceed(to) /\ UNCHANGED <<sea, quar>>
    BY <1>4 DEF CreateFlac
  <2>3. Sound BY <1>0, <1>s, <2>1, <2>2 DEF Sound
  <2>4. to \in PCs BY DEF PCs
  <2> QED BY <2>1, <2>2, <2>3, <2>4, <1>p, <1>s, ProceedStep
<1>5. CASE EncodeFlac
  <2> DEFINE t == [inc EXCEPT !.f[Flac] = Heard]
  <2>1. t \in Dirs /\ t.ack = inc.ack /\ t.dir = inc.dir BY <1>0, <1>3, FileTyped
  <2>2. inc' = [t EXCEPT !.src = TRUE] BY <1>5 DEF EncodeFlac
  <2> HIDE DEF t
  <2>3. inc' \in Dirs /\ inc'.ack = t.ack /\ inc'.dir = t.dir BY <2>1, <2>2 DEF Dirs
  <2>4. Proceed("drop") /\ UNCHANGED <<sea, quar>> BY <1>5 DEF EncodeFlac
  <2>5. Sound BY <1>0, <1>s, <2>1, <2>3, <2>4 DEF Sound
  <2>6. "drop" \in PCs BY DEF PCs
  <2> QED BY <2>1, <2>3, <2>4, <2>5, <2>6, <1>p, <1>s, ProceedStep
<1>6. CASE DropPcm
  <2>1. PICK n : inc' = [inc EXCEPT !.f[n] = {}] BY <1>6 DEF DropPcm
  <2>2. inc' \in Dirs /\ inc'.ack = inc.ack /\ inc'.dir = inc.dir BY <1>0, <2>1 DEF Dirs
  <2>3. PICK to \in {"len", "drop"} : Proceed(to) /\ UNCHANGED <<sea, quar>>
    BY <1>6 DEF DropPcm
  <2>4. Sound BY <1>0, <1>s, <2>2, <2>3 DEF Sound
  <2>5. to \in PCs BY DEF PCs
  <2> QED BY <2>2, <2>3, <2>4, <2>5, <1>p, <1>s, ProceedStep
<1>7. CASE WriteLen
  <2>1. PICK l \in Lens : inc' = [inc EXCEPT !.len = l] BY <1>7 DEF WriteLen, Lens
  <2>2. inc' \in Dirs /\ inc'.ack = inc.ack /\ inc'.dir = inc.dir BY <1>0, <2>1 DEF Dirs
  <2>3. Proceed("seal") /\ UNCHANGED <<sea, quar>> BY <1>7 DEF WriteLen
  <2>4. Sound BY <1>0, <1>s, <2>2, <2>3 DEF Sound
  <2>5. "seal" \in PCs BY DEF PCs
  <2> QED BY <2>2, <2>3, <2>4, <2>5, <1>p, <1>s, ProceedStep
<1> QED BY <1>1, <1>2, <1>4, <1>5, <1>6, <1>7

(* The uploader has removed the sealed window: the merge fails.             *)
LEMMA GoneStep == ASSUME StoreInv, SealedGone, pc # "idle" PROVE StoreInv' /\ Grows
<1>1. faults' \in 0..MaxFaults BY DEF SealedGone, StoreInv, StoreTypeOK
<1> QED BY <1>1, ErrStep DEF SealedGone

(* An entry moves into the sealed window, or is dropped.                    *)
LEMMA MovedStep ==
  ASSUME StoreInv, NEW n \in Names, sea.dir, Moved(n), pc # "idle", NEW to \in PCs, Proceed(to)
  PROVE  StoreInv' /\ Grows
<1> DEFINE S == IF sea.f[n] = {} THEN inc.f[n] ELSE sea.f[n]
<1>0. inc \in Dirs /\ sea \in Dirs /\ quar \subseteq Units BY DEF StoreInv, StoreTypeOK
<1>1. S \in SUBSET Units BY <1>0, DirFields
<1>2. sea' = [sea EXCEPT !.f[n] = S] BY DEF Moved
<1>3. Grows
  <2>1. \A m \in Names : sea.f[m] # {} => (m = n => S = sea.f[m]) OBVIOUS
  <2> HIDE DEF S
  <2> QED BY <1>0, <1>1, <1>2, <2>1, FileTyped DEF Grows
<1> HIDE DEF S
<1>4. sea' \in Dirs /\ sea'.dir BY <1>0, <1>1, <1>2 DEF Dirs
<1>5. inc' \in Dirs /\ inc'.ack = inc.ack /\ inc'.dir = inc.dir BY <1>0 DEF Moved, Dirs
<1>6. Sound BY <1>0, <1>4, <1>5 DEF Sound, Moved, StoreInv
<1> QED BY <1>3, <1>5, <1>6, ProceedStep

(* The rename, and the operations of the merge.                             *)
LEMMA MergeSteps ==
  ASSUME StoreInv, SealOrMerge \/ SetFullLen \/ Unmark \/ Rescue \/ MoveEntry \/ MoveSidecars
  PROVE  StoreInv' /\ Grows
<1>0. /\ inc \in Dirs /\ sea \in Dirs /\ quar \subseteq Units /\ inc.ack = NoAck
      /\ ~sea.dir => sea = NoDir
  BY DEF StoreInv, StoreTypeOK
<1>p. pc # "idle" BY DEF SealOrMerge, SetFullLen, Unmark, Rescue, MoveEntry, MoveSidecars, At
<1>i. inc.dir BY <1>p DEF StoreInv, Working
<1>g. SealedGone => StoreInv' /\ Grows BY <1>p, GoneStep
<1>1. CASE SealOrMerge /\ ~sea.dir
  <2>1. sea' = inc /\ inc' = NoDir /\ quar' = quar /\ SealDone BY <1>1 DEF SealOrMerge
  <2>2. Sound BY <1>0, <1>i, <2>1, NoneTyped DEF Sound
  <2>3. Grows BY <1>0, <1>1, <2>1, NoneTyped DEF Grows
  <2> QED BY <1>p, <2>1, <2>2, <2>3, DoneStep
<1>2. CASE SealOrMerge /\ sea.dir
  <2>1. /\ plan' = [col |-> Collides, fresh |-> Fresh # {}] /\ pc' = MergeStep(plan')
        /\ UNCHANGED <<up, inc, sea, mode, owed, quar>> /\ Kept
    BY <1>2 DEF SealOrMerge
  <2>2. plan' \in [col : BOOLEAN, fresh : BOOLEAN] BY <2>1 DEF Collides
  <2>3. pc' \in PCs BY <2>1 DEF MergeStep, PCs
  <2>4. StoreTypeOK' BY <2>1, <2>2, <2>3 DEF StoreInv, StoreTypeOK, Kept
  <2> QED BY <1>p, <2>1, <2>4, SameSea DEF StoreInv, Kept, Working
<1>3. CASE SetFullLen
  <2>1. CASE SealedGone BY <2>1, <1>g
  <2>2. CASE ~SealedGone
    <3>1. /\ sea.dir /\ sea' = [sea EXCEPT !.len = "full"]
          /\ UNCHANGED <<inc, quar>> /\ Proceed("unmark")
      BY <1>3, <2>2 DEF SetFullLen
    <3>2. sea' \in Dirs /\ sea'.f = sea.f /\ sea'.ack = sea.ack /\ sea'.dir
      BY <1>0, <3>1 DEF Dirs, Lens
    <3>3. Sound /\ Grows BY <1>0, <3>1, <3>2 DEF Sound, Grows
    <3>4. "unmark" \in PCs BY DEF PCs
    <3> QED BY <1>p, <3>1, <3>3, <3>4, ProceedStep
  <2> QED BY <2>1, <2>2
<1>4. CASE Unmark
  <2>1. sea' = [sea EXCEPT !.ack = NoAck] /\ UNCHANGED <<inc, quar>> BY <1>4 DEF Unmark
  <2>2. PICK to \in {"rescue", "move"} : Proceed(to) BY <1>4 DEF Unmark
  <2>3. sea' \in Dirs /\ sea'.f = sea.f /\ sea'.ack = NoAck /\ sea'.dir = sea.dir
    BY <1>0, <2>1, NoneTyped DEF Dirs
  <2>4. ~sea.dir => sea' = NoDir BY <1>0, <2>1, NoDirUnmarked
  <2>5. Sound /\ Grows BY <1>0, <2>1, <2>3, <2>4 DEF Sound, Grows
  <2>6. to \in PCs BY DEF PCs
  <2> QED BY <1>p, <2>1, <2>2, <2>5, <2>6, ProceedStep
<1>5. CASE Rescue
  <2>1. CASE SealedGone BY <2>1, <1>g
  <2>2. ASSUME NEW n \in Fresh, sea.dir, Moved(n), Proceed("rescue") PROVE StoreInv' /\ Grows
    <3>1. n \in Names BY <2>2 DEF Fresh, Entries
    <3>2. "rescue" \in PCs BY DEF PCs
    <3> QED BY <1>p, <2>2, <3>1, <3>2, MovedStep
  <2>3. CASE UNCHANGED <<inc, sea, quar>> /\ Proceed("aside")
    <3>1. Sound BY <1>0, <2>3 DEF Sound
    <3>2. "aside" \in PCs BY DEF PCs
    <3> QED BY <1>p, <2>3, <3>1, <3>2, ProceedStep, SameSea
  <2> QED BY <1>5, <2>1, <2>2, <2>3 DEF Rescue
<1>6. CASE MoveEntry
  <2>1. CASE SealedGone BY <2>1, <1>g
  <2>2. ASSUME NEW n \in Entries(inc), sea.dir, Moved(n), Proceed("move") PROVE StoreInv' /\ Grows
    <3>1. n \in Names BY <2>2 DEF Entries
    <3>2. "move" \in PCs BY DEF PCs
    <3> QED BY <1>p, <2>2, <3>1, <3>2, MovedStep
  <2> QED BY <1>6, <2>1, <2>2 DEF MoveEntry
<1>7. CASE MoveSidecars
  <2>1. CASE SealedGone BY <2>1, <1>g
  <2>2. CASE ~SealedGone
    <3>1. /\ sea.dir /\ quar' = quar /\ Proceed("move")
          /\ sea' = [sea EXCEPT !.len = IF @ = "none" THEN inc.len ELSE @, !.src = @ \/ inc.src]
          /\ inc' = [inc EXCEPT !.len = "none", !.src = FALSE]
      BY <1>7, <2>2 DEF MoveSidecars
    <3>2. sea' \in Dirs /\ sea'.f = sea.f /\ sea'.ack = sea.ack /\ sea'.dir
      BY <1>0, <3>1 DEF Dirs
    <3>3. inc' \in Dirs /\ inc'.ack = inc.ack /\ inc'.dir = inc.dir
      BY <1>0, <3>1 DEF Dirs, Lens
    <3>4. Sound /\ Grows BY <1>0, <3>1, <3>2, <3>3 DEF Sound, Grows
    <3>5. "move" \in PCs BY DEF PCs
    <3> QED BY <1>p, <3>1, <3>3, <3>4, <3>5, ProceedStep
  <2> QED BY <2>1, <2>2
<1> QED BY <1>1, <1>2, <1>3, <1>4, <1>5, <1>6, <1>7

----------------------------------------------------------------------------
(* The two halves together.                                                 *)

UploadTypeOK ==
  /\ upc \in {"idle", "sending", "ack", "gate", "recheck", "delete", "marker", "rmdir"}
  /\ sent \in Acks /\ matched \subseteq seen /\ seen \subseteq Names
  /\ {removed, hold} \subseteq BOOLEAN /\ bound \subseteq Lens
  /\ rejects \in Nat /\ settled \subseteq Units

(* The invariant in the form in which the steps keep it.                    *)
LEMMA Halves ==
  /\ UploadInv <=> StoreInv /\ UploadTypeOK /\ Custody
  /\ UploadInv' <=> StoreInv' /\ UploadTypeOK' /\ Custody'
  BY DEF UploadInv, TypeOK, UploadTypeOK, StoreInv

(* What SealedKept asks of one step.                                        *)
SeaKept == Stored(sea) \subseteq Stored(sea') \cup quar' \cup settled

(* It is enough to look at each file.                                       *)
LEMMA FileByFile ==
  ASSUME \A n \in Names : sea.f[n] \subseteq sea'.f[n] \cup settled
  PROVE  SeaKept
  BY DEF SeaKept, Stored

(* A step of the engine, and the uploader that ends with it or does not.    *)
LEMMA EngineKeeps ==
  ASSUME UploadInv, StoreInv', Grows, UploaderFollows
  PROVE  UploadInv' /\ SeaKept
<1>1. StoreInv /\ UploadTypeOK /\ Custody BY Halves
<1>2. SeaKept
  <2>1. \A n \in Names : sea.f[n] \subseteq sea'.f[n] BY DEF Grows
  <2> QED BY <2>1, FileByFile
<1>3. \A n \in Names : sea'.ack.files[n] \subseteq settled'
  BY <1>1, NoneTyped DEF Grows, Custody, UploaderFollows
<1>4. CASE up'
  <2>1. UNCHANGED <<upc, sent, matched, seen, removed, hold, bound, rejects, settled>>
    BY <1>4 DEF UploaderFollows, uploadVars
  <2>2. UploadTypeOK' BY <1>1, <2>1 DEF UploadTypeOK
  <2>3. matched \subseteq Names BY <1>1 DEF UploadTypeOK
  <2>4. Custody' BY <1>1, <1>3, <2>1, <2>3 DEF Custody, Grows
  <2> QED BY <1>2, <2>2, <2>4, Halves
<1>5. CASE ~up'
  <2>1. /\ upc' = "idle" /\ sent' = NoAck /\ matched' = {} /\ seen' = {} /\ removed' = FALSE
        /\ hold' = FALSE /\ bound' = {} /\ rejects' = 0 /\ settled' = settled
    BY <1>5 DEF UploaderFollows
  <2>2. UploadTypeOK' BY <1>1, <2>1, NoneTyped DEF UploadTypeOK
  <2>3. Custody' BY <1>3, <2>1, NoneTyped DEF Custody
  <2> QED BY <1>2, <2>2, <2>3, Halves
<1> QED BY <1>4, <1>5

(* An uploader's step leaves the engine's side of the store alone.          *)
LEMMA SameStoreInv ==
  ASSUME StoreInv, SameStore, sea' \in Dirs, ~sea'.dir => sea' = NoDir, faults' \in 0..MaxFaults
  PROVE  StoreInv'
<1>1. StoreTypeOK' BY DEF StoreInv, StoreTypeOK, SameStore
<1> QED BY <1>1 DEF StoreInv, SameStore, Working

(* The uploader leaves the window, having deleted at most sidecars.         *)
LEMMA LeaveStep ==
  ASSUME UploadInv, NEW held \in BOOLEAN, Leaves(held),
         sea' \in Dirs, ~sea'.dir => sea' = NoDir, sea'.f = sea.f,
         sea'.ack \in {sea.ack, NoAck}, faults' \in 0..MaxFaults
  PROVE  UploadInv' /\ SeaKept
<1>1. StoreInv /\ UploadTypeOK /\ Custody BY Halves
<1>2. StoreInv' BY <1>1, SameStoreInv DEF Leaves
<1>3. UploadTypeOK' BY <1>1, NoneTyped DEF UploadTypeOK, Leaves
<1>4. Custody' BY <1>1, NoneTyped DEF Custody, Leaves
<1>5. SeaKept BY FileByFile
<1> QED BY <1>2, <1>3, <1>4, <1>5, Halves

(* A step that changes nothing but the uploader's own variables.            *)
LEMMA QuietStep ==
  ASSUME UploadInv, SameStore, sea' = sea, faults' \in 0..MaxFaults, UploadTypeOK',
         settled \subseteq settled',
         upc' # "sending" => \A n \in Names : sent'.files[n] \subseteq settled',
         upc' \notin {"recheck", "delete"} => matched' = {},
         \A n \in matched' : sea.f[n] # {} /\ sea.f[n] \subseteq settled'
  PROVE  UploadInv' /\ SeaKept
<1>1. StoreInv /\ Custody BY Halves
<1>2. sea \in Dirs /\ (~sea.dir => sea = NoDir) BY <1>1 DEF StoreInv, StoreTypeOK
<1>3. StoreInv' BY <1>1, <1>2, SameStoreInv
<1>4. Custody' BY <1>1 DEF Custody
<1>5. SeaKept BY FileByFile
<1> QED BY <1>3, <1>4, <1>5, Halves

(* The POST and its answers.                                                *)
LEMMA PostStep ==
  ASSUME UploadInv,
         Send \/ Accepted \/ Listed \/ NoAnswer \/ Unproven \/ SegmentRemoved
  PROVE  UploadInv' /\ SeaKept
<1>1. StoreInv /\ UploadTypeOK /\ Custody BY Halves
<1>2. sea \in Dirs /\ faults \in 0..MaxFaults BY <1>1 DEF StoreInv, StoreTypeOK
<1>3. matched = {}
  BY <1>1 DEF Custody, Send, Accepted, Listed, Proven, NoAnswer, Unproven, SegmentRemoved, UploadAt
<1>4. CASE Send
  <2>1. [files |-> sea.f, key |-> Key(sea)] \in Acks
    <3>1. sea.f \in [Names -> SUBSET Units] BY <1>2, DirFields DEF Contents
    <3>2. Key(sea) \in Lens BY <1>2, DirFields DEF Key, Lens
    <3> QED BY <3>1, <3>2 DEF Acks
  <2>2. UploadTypeOK' BY <1>1, <1>4, <2>1 DEF UploadTypeOK, Send
  <2> QED BY <1>2, <1>3, <1>4, <2>2, QuietStep DEF Send
<1>5. sent \in Acks /\ sent.key \in Lens /\ (\A n \in Names : sent.files[n] \subseteq SentUnits)
      /\ SentUnits \subseteq Units
  BY <1>1 DEF UploadTypeOK, Acks, SentUnits
<1>6. CASE Accepted \/ Listed
  <2>1. Proven /\ rejects' \in {0, rejects} /\ bound' \subseteq bound
    BY <1>6 DEF Accepted, Listed
  <2>2. UploadTypeOK' BY <1>1, <1>5, <2>1 DEF UploadTypeOK, Proven
  <2> QED BY <1>2, <1>3, <1>5, <2>1, <2>2, QuietStep DEF Proven
<1>7. CASE NoAnswer
  <2>1. faults' \in 0..MaxFaults BY <1>1, <1>7, CostsTyped DEF NoAnswer, StoreInv
  <2>2. UploadTypeOK' BY <1>1, <1>5, <1>7, NoneTyped DEF UploadTypeOK, NoAnswer
  <2> QED BY <1>3, <1>7, <2>1, <2>2, NoneTyped, QuietStep DEF NoAnswer
<1>8. CASE Unproven
  <2>1. faults' \in 0..MaxFaults BY <1>1, <1>8, CostsTyped DEF Unproven, StoreInv
  <2>2. UploadTypeOK' BY <1>1, <1>5, <1>8, NoneTyped DEF UploadTypeOK, Unproven
  <2> QED BY <1>3, <1>8, <2>1, <2>2, NoneTyped, QuietStep DEF Unproven
<1>9. CASE SegmentRemoved
  <2>1. faults' \in 0..MaxFaults BY <1>1, <1>9, CostsTyped DEF SegmentRemoved, StoreInv
  <2>2. UploadTypeOK' BY <1>1, <1>5, <1>9 DEF UploadTypeOK, SegmentRemoved
  <2> QED BY <1>3, <1>5, <1>9, <2>1, <2>2, QuietStep DEF SegmentRemoved
<1> QED BY <1>4, <1>6, <1>7, <1>8, <1>9

(* A refusal: the window stays, or all of it is set aside.                  *)
LEMMA RefusedStep == ASSUME UploadInv, Refused PROVE UploadInv' /\ SeaKept
<1>1. StoreInv /\ UploadTypeOK /\ Custody BY Halves
<1>2. /\ sea \in Dirs /\ quar \subseteq Units /\ (~sea.dir => sea = NoDir)
      /\ faults' \in 0..MaxFaults
  BY <1>1, CostsTyped DEF StoreInv, StoreTypeOK, Refused
<1>3. matched = {} BY <1>1 DEF Custody, Refused, UploadAt
<1>4. \/ sea' = sea /\ quar' = quar
      \/ sea' = NoDir /\ quar' = quar \cup Stored(sea)
  BY DEF Refused
<1>5. sea' \in Dirs /\ (~sea'.dir => sea' = NoDir) /\ quar' \subseteq Units
  BY <1>2, <1>4, NoneTyped, StoredTyped
<1>6. StoreTypeOK' BY <1>1, <1>2, <1>5 DEF StoreInv, StoreTypeOK, Refused
<1>7. StoreInv' BY <1>1, <1>5, <1>6 DEF StoreInv, Refused, Working
<1>8. UploadTypeOK'
  <2>1. sent.key \in Lens BY <1>1 DEF UploadTypeOK, Acks
  <2>2. rejects' \in Nat BY <1>1 DEF UploadTypeOK, Refused
  <2> QED BY <1>1, <2>1, <2>2, NoneTyped DEF UploadTypeOK, Refused
<1>9. Custody' BY <1>1, <1>3, <1>4, NoneTyped DEF Custody, Refused
<1>10. SeaKept BY <1>4 DEF SeaKept, Refused
<1> QED BY <1>7, <1>8, <1>9, <1>10, Halves

(* The acknowledgement is written over what it covers.                      *)
LEMMA AckStep == ASSUME UploadInv, WriteAck PROVE UploadInv' /\ SeaKept
<1>1. StoreInv /\ UploadTypeOK /\ Custody BY Halves
<1>2. sea \in Dirs /\ faults \in 0..MaxFaults /\ (~sea.dir => sea = NoDir)
  BY <1>1 DEF StoreInv, StoreTypeOK
<1>3. CASE sea.dir /\ sea' = [sea EXCEPT !.ack = sent] /\ Goes("gate") /\ UNCHANGED <<sent, matched, seen>>
  <2>1. sent \in Acks BY <1>1 DEF UploadTypeOK
  <2>2. sea' \in Dirs /\ sea'.f = sea.f /\ sea'.ack = sent /\ sea'.dir
    BY <1>2, <1>3, <2>1 DEF Dirs
  <2>3. StoreInv' BY <1>1, <1>2, <1>3, <2>2, SameStoreInv DEF Goes
  <2>4. UploadTypeOK' BY <1>1, <1>3 DEF UploadTypeOK, Goes
  <2>5. upc = "ack" BY DEF WriteAck, UploadAt
  <2>6. Custody' BY <1>1, <1>3, <2>2, <2>5 DEF Custody, Goes
  <2>7. SeaKept BY <2>2, FileByFile
  <2> QED BY <2>3, <2>4, <2>6, <2>7, Halves
<1>4. CASE ~sea.dir /\ Leaves(FALSE) /\ UNCHANGED <<sea, faults>> BY <1>2, <1>4, LeaveStep
<1>5. CASE Costs /\ Leaves(FALSE) /\ UNCHANGED sea
  <2>1. faults' \in 0..MaxFaults BY <1>1, <1>5, CostsTyped DEF StoreInv
  <2> QED BY <1>2, <1>5, <2>1, LeaveStep
<1> QED BY <1>3, <1>4, <1>5 DEF WriteAck

(* The gate's two listings change nothing on disk.                          *)
LEMMA ListingStep ==
  ASSUME UploadInv, MatchFiles \/ Recheck
  PROVE  UploadInv' /\ SeaKept
<1>1. StoreInv /\ UploadTypeOK /\ Custody BY Halves
<1>2. sea \in Dirs /\ faults \in 0..MaxFaults /\ (~sea.dir => sea = NoDir)
  BY <1>1 DEF StoreInv, StoreTypeOK
<1>3. upc \in {"gate", "recheck"} BY DEF MatchFiles, Recheck, UploadAt
<1>4. \A n \in Names : sent.files[n] \subseteq settled BY <1>1, <1>3 DEF Custody
<1>5. sea' = sea BY DEF MatchFiles, Recheck
<1>6. ASSUME NEW held \in BOOLEAN, Leaves(held), UNCHANGED faults PROVE UploadInv' /\ SeaKept
  BY <1>2, <1>5, <1>6, LeaveStep
<1>7. CASE /\ seen' = Entries(sea)
           /\ matched' = {n \in Entries(sea) : sent.files[n] = sea.f[n]}
           /\ Goes("recheck") /\ UNCHANGED sent
  <2>1. UploadTypeOK' BY <1>1, <1>7 DEF UploadTypeOK, Goes, Entries
  <2>2. \A n \in matched' : sea.f[n] # {} /\ sea.f[n] \subseteq settled'
    BY <1>4, <1>7 DEF Entries, Goes
  <2> QED BY <1>2, <1>4, <1>5, <1>7, <2>1, <2>2, QuietStep DEF Goes
<1>8. CASE Goes("delete") /\ UNCHANGED <<sent, matched, seen>>
  <2>1. UploadTypeOK' BY <1>1, <1>8 DEF UploadTypeOK, Goes
  <2> QED BY <1>1, <1>2, <1>4, <1>5, <1>8, <2>1, QuietStep DEF Goes, Custody
<1>9. CASE MatchFiles BY <1>6, <1>7, <1>9 DEF MatchFiles
<1>10. CASE Recheck
  <2>1. (removed \/ ~sea.dir) \in BOOLEAN OBVIOUS
  <2> QED BY <1>6, <1>8, <1>10, <2>1 DEF Recheck
<1> QED BY <1>9, <1>10

(* A deleted file is one that the journal holds.                            *)
LEMMA DeleteStep == ASSUME UploadInv, DeleteFile PROVE UploadInv' /\ SeaKept
<1>1. StoreInv /\ UploadTypeOK /\ Custody BY Halves
<1>2. sea \in Dirs /\ faults \in 0..MaxFaults /\ (~sea.dir => sea = NoDir)
  BY <1>1 DEF StoreInv, StoreTypeOK
<1>3. PICK m \in matched : /\ sea' = [sea EXCEPT !.f[m] = {}]
                           /\ matched' = matched \ {m} /\ seen' = seen \ {m}
  BY DEF DeleteFile
<1>4. Goes("delete") /\ UNCHANGED sent /\ upc = "delete" BY DEF DeleteFile, UploadAt
<1>5. m \in Names /\ matched \subseteq Names BY <1>1 DEF UploadTypeOK
<1>6. sea.f[m] # {} /\ sea.f[m] \subseteq settled BY <1>1 DEF Custody
<1>7. sea.dir BY <1>2, <1>5, <1>6, NoneTyped
<1>8. /\ sea' \in Dirs /\ sea'.ack = sea.ack /\ sea'.dir
      /\ \A n \in Names : sea'.f[n] = IF n = m THEN {} ELSE sea.f[n]
  BY <1>2, <1>3, <1>7 DEF Dirs
<1>9. StoreInv' BY <1>1, <1>2, <1>4, <1>8, SameStoreInv DEF Goes
<1>10. UploadTypeOK' BY <1>1, <1>3, <1>4 DEF UploadTypeOK, Goes
<1>11. Custody' BY <1>1, <1>3, <1>4, <1>5, <1>8 DEF Custody, Goes
<1>12. SeaKept
  <2>1. \A n \in Names : sea.f[n] \subseteq sea'.f[n] \cup settled BY <1>6, <1>8
  <2> QED BY <2>1, FileByFile
<1> QED BY <1>9, <1>10, <1>11, <1>12, Halves

(* The sidecars, the marker and the directory go after the files.           *)
LEMMA CleanStep ==
  ASSUME UploadInv, RemoveLen \/ RemoveMarker \/ RemoveDir
  PROVE  UploadInv' /\ SeaKept
<1>1. StoreInv /\ UploadTypeOK /\ Custody BY Halves
<1>2. sea \in Dirs /\ faults \in 0..MaxFaults /\ (~sea.dir => sea = NoDir)
  BY <1>1 DEF StoreInv, StoreTypeOK
<1>3. matched = {}
  BY <1>1 DEF Custody, RemoveLen, RemoveMarker, RemoveDir, UploadAt
<1>4. \A n \in Names : sent.files[n] \subseteq settled
  BY <1>1 DEF Custody, RemoveLen, RemoveMarker, RemoveDir, UploadAt
<1>5. ASSUME NEW to \in {"marker", "rmdir"}, Goes(to), UNCHANGED <<sent, matched, seen>>,
             sea' \in Dirs, ~sea'.dir => sea' = NoDir, sea'.f = sea.f, sea'.ack \in {sea.ack, NoAck}
      PROVE  UploadInv' /\ SeaKept
  <2>1. StoreInv' BY <1>1, <1>2, <1>5, SameStoreInv DEF Goes
  <2>2. UploadTypeOK' BY <1>1, <1>5 DEF UploadTypeOK, Goes
  <2>3. Custody' BY <1>1, <1>3, <1>4, <1>5, NoneTyped DEF Custody, Goes
  <2>4. SeaKept BY <1>5, FileByFile
  <2> QED BY <2>1, <2>2, <2>3, <2>4, Halves
<1>6. CASE RemoveLen
  <2>1. sea' \in Dirs /\ sea'.f = sea.f /\ sea'.ack = sea.ack /\ sea'.dir = sea.dir
    BY <1>2, <1>6 DEF RemoveLen, Dirs, Lens
  <2>2. ~sea'.dir => sea' = NoDir
    <3>1. [NoDir EXCEPT !.len = "none", !.src = FALSE] = NoDir
      <4>1. ASSUME NEW d \in Dirs, d.len = "none", d.src = FALSE
            PROVE  [d EXCEPT !.len = "none", !.src = FALSE] = d
        BY <4>1 DEF Dirs
      <4>2. NoDir.len = "none" /\ NoDir.src = FALSE BY DEF NoDir
      <4> QED BY <4>1, <4>2, NoneTyped
    <3> QED BY <1>2, <1>6, <2>1, <3>1 DEF RemoveLen
  <2>3. Goes("marker") /\ UNCHANGED <<sent, matched, seen>> BY <1>6 DEF RemoveLen
  <2> QED BY <1>5, <2>1, <2>2, <2>3
<1>7. CASE RemoveMarker
  <2>1. sea' = [sea EXCEPT !.ack = NoAck] BY <1>7 DEF RemoveMarker
  <2>2. sea' \in Dirs /\ sea'.f = sea.f /\ sea'.ack = NoAck /\ sea'.dir = sea.dir
    BY <1>2, <2>1, NoneTyped DEF Dirs
  <2>3. ~sea'.dir => sea' = NoDir BY <1>2, <2>1, <2>2, NoDirUnmarked
  <2>4. CASE Goes("rmdir") /\ UNCHANGED <<sent, matched, seen>> BY <1>5, <2>2, <2>3, <2>4
  <2>5. CASE Leaves(FALSE) /\ UNCHANGED faults BY <1>2, <2>2, <2>3, <2>5, LeaveStep
  <2> QED BY <1>7, <2>4, <2>5 DEF RemoveMarker
<1>8. CASE RemoveDir
  <2>1. sea' \in {sea, NoDir} /\ Leaves(~Bare(sea)) /\ UNCHANGED faults BY <1>8 DEF RemoveDir
  <2>2. sea' = NoDir => sea'.f = sea.f
    <3>1. CASE Bare(sea)
      <4>1. \A n \in Names : sea.f[n] = {} BY <3>1 DEF Bare, Entries
      <4>2. sea.f \in [Names -> SUBSET Units] BY <1>2, DirFields DEF Contents
      <4>3. sea.f = Empty BY <4>1, <4>2 DEF Empty
      <4> QED BY <4>3 DEF NoDir
    <3>2. CASE ~Bare(sea) BY <1>8, <3>2 DEF RemoveDir
    <3> QED BY <3>1, <3>2
  <2>3. /\ sea' \in Dirs /\ (~sea'.dir => sea' = NoDir) /\ sea'.f = sea.f
        /\ sea'.ack \in {sea.ack, NoAck}
    BY <1>2, <2>1, <2>2, NoneTyped
  <2>4. (~Bare(sea)) \in BOOLEAN OBVIOUS
  <2> QED BY <1>2, <2>1, <2>3, <2>4, LeaveStep
<1> QED BY <1>6, <1>7, <1>8

(* A gate that fails, the local finish, and holds running out.              *)
LEMMA FinishStep ==
  ASSUME UploadInv, GateFails \/ LocalFinish \/ SweepEmpty \/ TimePasses
  PROVE  UploadInv' /\ SeaKept
<1>1. StoreInv /\ UploadTypeOK /\ Custody BY Halves
<1>2. sea \in Dirs /\ faults \in 0..MaxFaults /\ (~sea.dir => sea = NoDir)
  BY <1>1 DEF StoreInv, StoreTypeOK
<1>3. CASE GateFails
  <2>1. faults' \in 0..MaxFaults BY <1>1, <1>3, CostsTyped DEF GateFails, StoreInv
  <2> QED BY <1>2, <1>3, <2>1, LeaveStep DEF GateFails
<1>4. CASE LocalFinish
  <2>1. matched = {} /\ upc = "idle" BY <1>1, <1>4 DEF Custody, LocalFinish, UploadAt
  <2>2. CASE sea' = [sea EXCEPT !.ack = NoAck] /\ UNCHANGED <<sent, upc>>
    <3>1. sea' \in Dirs /\ sea'.f = sea.f /\ sea'.ack = NoAck /\ sea'.dir
      BY <1>2, <1>4, <2>2, NoneTyped DEF Dirs, LocalFinish
    <3>2. StoreInv' BY <1>1, <1>2, <1>4, <3>1, SameStoreInv DEF LocalFinish
    <3>3. UploadTypeOK' BY <1>1, <1>4, <2>2 DEF UploadTypeOK, LocalFinish
    <3>4. Custody' BY <1>1, <1>4, <2>1, <2>2, <3>1, NoneTyped DEF Custody, LocalFinish
    <3>5. SeaKept BY <3>1, FileByFile
    <3> QED BY <3>2, <3>3, <3>4, <3>5, Halves
  <2>3. CASE sent' = sea.ack /\ upc' = "gate" /\ UNCHANGED sea
    <3>1. sea.ack \in Acks BY <1>2, DirFields
    <3>2. UploadTypeOK' BY <1>1, <1>4, <2>3, <3>1 DEF UploadTypeOK, LocalFinish
    <3> QED BY <1>1, <1>2, <1>4, <2>1, <2>3, <3>2, QuietStep DEF LocalFinish, Custody
  <2> QED BY <1>4, <2>2, <2>3 DEF LocalFinish
<1>5. CASE SweepEmpty
  <2>1. matched = {} /\ upc = "idle" BY <1>1, <1>5 DEF Custody, SweepEmpty, UploadAt
  <2>2. UploadTypeOK' BY <1>1, <1>5 DEF UploadTypeOK, SweepEmpty, Goes
  <2> QED BY <1>1, <1>2, <1>5, <2>1, <2>2, QuietStep DEF SweepEmpty, Goes, Custody
<1>6. CASE TimePasses
  <2>1. UploadTypeOK' BY <1>1, <1>6 DEF UploadTypeOK, TimePasses
  <2> QED BY <1>1, <1>2, <1>6, <2>1, QuietStep DEF TimePasses, Custody
<1> QED BY <1>3, <1>4, <1>5, <1>6

----------------------------------------------------------------------------
(* No window, no uploader.                                                  *)
LEMMA UploadInitially == Init => UploadInv
<1> SUFFICES ASSUME Init PROVE UploadInv OBVIOUS
<1> USE DEF Init, StoreInit, UploadInit
<1>1. StoreTypeOK
  <2>1. run \in 0..MaxRuns /\ faults \in 0..MaxFaults
    BY StoreAssumption DEF StoreAssumption
  <2>2. {up, over, opened, owed} \subseteq BOOLEAN OBVIOUS
  <2>3. plan \in [col : BOOLEAN, fresh : BOOLEAN] BY DEF NoPlan
  <2>4. inc \in Dirs /\ sea \in Dirs BY NoneTyped
  <2>5. pc \in PCs /\ mode \in {"run", "recover", "quit"} BY DEF PCs
  <2>6. quar \subseteq Units /\ written \subseteq Units OBVIOUS
  <2> QED BY ONLY <2>1, <2>2, <2>3, <2>4, <2>5, <2>6 DEF StoreTypeOK
<1>2. StoreInv BY <1>1, NoneTyped DEF StoreInv, Working
<1>3. UploadTypeOK BY NoneTyped DEF UploadTypeOK
<1>4. Custody BY NoneTyped DEF Custody
<1> QED BY <1>2, <1>3, <1>4, Halves

(* Every step, of either task, keeps the invariant and the sealed window.   *)
LEMMA UploadStep == UploadInv /\ [Next]_vars => UploadInv' /\ SeaKept
<1> SUFFICES ASSUME UploadInv, [Next]_vars PROVE UploadInv' /\ SeaKept OBVIOUS
<1>1. StoreInv BY Halves
<1>2. CASE Engine(Launch) \/ Engine(Crash) \/ Engine(Exit) \/ Engine(EndWindow)
  BY <1>1, <1>2, ProgramStep, EngineKeeps DEF Engine
<1>3. CASE Engine(OpenIncomplete) \/ \E k \in Sources : Engine(Record(k))
  BY <1>1, <1>3, RecordStep, EngineKeeps DEF Engine
<1>4. CASE Engine(Seal) \/ Engine(Quit) \/ Engine(RetrySeal)
  BY <1>1, <1>4, BeginStep, EngineKeeps DEF Engine
<1>5. CASE Engine(OperationFails) BY <1>1, <1>5, FailStep, EngineKeeps DEF Engine
<1>6. CASE \/ Engine(Discard) \/ Engine(Sweep) \/ Engine(CreateFlac) \/ Engine(EncodeFlac)
           \/ Engine(DropPcm) \/ Engine(WriteLen) \/ Engine(SetAside) \/ Engine(RemoveIncomplete)
  BY <1>1, <1>6, EarlySteps, EngineKeeps DEF Engine
<1>7. CASE \/ Engine(SealOrMerge) \/ Engine(SetFullLen) \/ Engine(Unmark) \/ Engine(Rescue)
           \/ Engine(MoveEntry) \/ Engine(MoveSidecars)
  BY <1>1, <1>7, MergeSteps, EngineKeeps DEF Engine
<1>8. CASE UploadSteps
  BY <1>8, PostStep, RefusedStep, AckStep, ListingStep, DeleteStep, CleanStep, FinishStep
     DEF UploadSteps
<1>9. CASE UNCHANGED vars
  <2>1. UploadInv'
    BY <1>9 DEF vars, storeVars, uploadVars, UploadInv, TypeOK, StoreTypeOK, StoreInv, Working, Custody
  <2>2. SeaKept BY <1>9 DEF vars, storeVars, SeaKept
  <2> QED BY <2>1, <2>2
<1> QED BY <1>2, <1>3, <1>4, <1>5, <1>6, <1>7, <1>8, <1>9 DEF Next

(***************************************************************************)
(* Every reachable state of the two tasks satisfies the invariant, whatever *)
(* fails, and wherever a crash or a quit falls.                             *)
(***************************************************************************)
THEOREM UploadInvariant == Spec => []UploadInv
<1>1. UploadInv /\ [Next]_vars => UploadInv' BY UploadStep
<1> QED BY <1>1, UploadInitially, PTL DEF Spec

(***************************************************************************)
(* The window's directories and the uploader's variables stay in their      *)
(* type.                                                                    *)
(***************************************************************************)
THEOREM UploadTypeCorrect == Spec => []TypeOK
<1>1. UploadInv => TypeOK BY DEF UploadInv
<1> QED BY <1>1, UploadInvariant, PTL

(***************************************************************************)
(* Whatever leaves the sealed window goes to quarantine or is held by the   *)
(* journal: try_gate_delete, local_finish and the merge of a second seal    *)
(* lose nothing that was sealed, in any interleaving.                       *)
(***************************************************************************)
THEOREM SealedIsKept == Spec => SealedKept
<1>1. UploadInv /\ [Next]_vars => [Stored(sea) \subseteq Stored(sea') \cup quar' \cup settled]_vars
  BY UploadStep DEF SeaKept
<1> QED BY <1>1, UploadInvariant, PTL DEF Spec, SealedKept

----------------------------------------------------------------------------
(* The refinement: the two tasks implement Custody.                         *)

Here == Stored(sea) \cup quar

(* What a POST in flight carries is still here, or delivered.               *)
InHand == upc = "sending" => SentUnits \subseteq Here \cup settled

EngineSteps ==
  \/ Engine(Launch) \/ Engine(Crash) \/ Engine(Exit) \/ Engine(EndWindow)
  \/ Engine(OpenIncomplete) \/ \E k \in Sources : Engine(Record(k))
  \/ Engine(Seal) \/ Engine(Quit) \/ Engine(RetrySeal) \/ Engine(OperationFails)
  \/ Engine(SealSteps)

(* Next is the engine's steps and the uploader's.                           *)
LEMMA TwoTasks == Next => EngineSteps \/ UploadSteps
  BY DEF Next, EngineSteps, Engine, SealSteps

(* No step of the engine takes anything out of quarantine.                  *)
LEMMA QuarantineGrows == EngineSteps => quar \subseteq quar'
<1> SUFFICES ASSUME EngineSteps PROVE quar \subseteq quar' OBVIOUS
<1>1. CASE Engine(Launch) \/ Engine(Crash) \/ Engine(Exit) \/ Engine(EndWindow)
  BY <1>1 DEF Engine, Launch, Crash, Exit, EndWindow
<1>2. CASE Engine(OpenIncomplete) \/ \E k \in Sources : Engine(Record(k))
  BY <1>2 DEF Engine, OpenIncomplete, Record
<1>3. CASE Engine(Seal) \/ Engine(Quit) \/ Engine(RetrySeal)
  BY <1>3 DEF Engine, Seal, Quit, RetrySeal, BeginSeal, EncoderFails
<1>4. CASE Engine(OperationFails) BY <1>4 DEF Engine, OperationFails, SealErr
<1>5. CASE Engine(SealSteps)
  BY <1>5 DEF Engine, SealSteps, Discard, Sweep, CreateFlac, EncodeFlac, DropPcm, WriteLen,
     SealOrMerge, SetFullLen, Unmark, Rescue, SetAside, MoveEntry, MoveSidecars,
     RemoveIncomplete, Moved, SealedGone, SealErr
<1> QED BY <1>1, <1>2, <1>3, <1>4, <1>5 DEF EngineSteps

(* An engine's step takes recordings into custody.                          *)
LEMMA EngineTakes ==
  ASSUME UploadInv, InHand, EngineSteps
  PROVE  Here \subseteq Here' /\ settled' = settled /\ InHand'
<1>1. StoreInv BY Halves
<1>2. Grows
  BY <1>1, ProgramStep, RecordStep, BeginStep, FailStep, EarlySteps, MergeSteps
     DEF EngineSteps, Engine, SealSteps
<1>3. UploaderFollows BY DEF EngineSteps, Engine
<1>4. Here \subseteq Here'
  <2>1. \A n \in Names : sea.f[n] \subseteq sea'.f[n] BY <1>2 DEF Grows
  <2>2. Stored(sea) \subseteq Stored(sea') BY <2>1 DEF Stored
  <2> QED BY <2>2, QuarantineGrows DEF Here
<1>5. settled' = settled BY <1>3 DEF UploaderFollows
<1>6. InHand'
  <2>1. CASE up' BY <2>1, <1>3, <1>4, <1>5 DEF InHand, UploaderFollows, uploadVars, SentUnits
  <2>2. CASE ~up' BY <2>2, <1>3 DEF InHand, UploaderFollows
  <2> QED BY <2>1, <2>2
<1> QED BY <1>4, <1>5, <1>6

(* What the uploader does to the files of the sealed window and to          *)
(* quarantine: it deletes, or sets the whole window aside.                  *)
LEMMA UploaderLetsGo ==
  ASSUME UploadInv, UploadSteps
  PROVE  Here' \subseteq Here /\ quar \subseteq quar'
<1>1. sea \in Dirs BY Halves DEF StoreInv, StoreTypeOK
<1>2. ASSUME quar' = quar, \A n \in Names : sea'.f[n] \subseteq sea.f[n]
      PROVE  Here' \subseteq Here /\ quar \subseteq quar'
  BY <1>2 DEF Here, Stored
<1>3. CASE Send \/ Accepted \/ Listed \/ NoAnswer \/ Unproven \/ SegmentRemoved
  BY <1>2, <1>3 DEF Send, Accepted, Listed, Proven, NoAnswer, Unproven, SegmentRemoved, SameStore
<1>4. CASE Refused
  <2>1. \A n \in Names : NoDir.f[n] = {} BY NoneTyped
  <2>2. Stored(NoDir) = {} BY <2>1 DEF Stored
  <2> QED BY <1>4, <2>2 DEF Refused, Here
<1>5. CASE WriteAck \/ LocalFinish \/ RemoveLen \/ RemoveMarker
  <2>1. sea'.f = sea.f
    BY <1>1, <1>5 DEF WriteAck, LocalFinish, RemoveLen, RemoveMarker, Dirs
  <2>2. quar' = quar
    BY <1>5 DEF WriteAck, LocalFinish, RemoveLen, RemoveMarker, Goes, Leaves, SameStore
  <2> QED BY <1>2, <2>1, <2>2
<1>6. CASE MatchFiles \/ Recheck \/ GateFails \/ SweepEmpty \/ TimePasses
  BY <1>2, <1>6 DEF MatchFiles, Recheck, GateFails, SweepEmpty, TimePasses, Goes, Leaves, SameStore
<1>7. CASE DeleteFile
  <2>1. PICK m \in matched : sea' = [sea EXCEPT !.f[m] = {}] BY <1>7 DEF DeleteFile
  <2>2. \A n \in Names : sea'.f[n] \subseteq sea.f[n] BY <1>1, <2>1, FileTyped
  <2>3. quar' = quar BY <1>7 DEF DeleteFile, Goes, SameStore
  <2> QED BY <1>2, <2>2, <2>3
<1>8. CASE RemoveDir
  <2>1. \A n \in Names : sea'.f[n] \subseteq sea.f[n] BY <1>8, NoneTyped DEF RemoveDir
  <2>2. quar' = quar BY <1>8 DEF RemoveDir, Leaves, SameStore
  <2> QED BY <1>2, <2>1, <2>2
<1> QED BY <1>3, <1>4, <1>5, <1>6, <1>7, <1>8 DEF UploadSteps

(* What reaches the journal is what a POST carried.                         *)
LEMMA UploaderSends ==
  ASSUME UploadInv, InHand, UploadSteps
  PROVE  /\ settled \subseteq settled' /\ settled' \subseteq settled \cup Here
         /\ InHand'
<1>1. CASE Send
  <2>1. settled' = settled /\ Here' = Here
    BY <1>1 DEF Send, SameStore, Here, Stored
  <2>2. SentUnits' = Stored(sea) BY <1>1 DEF Send, SentUnits, Stored
  <2> QED BY <2>1, <2>2 DEF InHand, Here
<1>2. CASE Accepted \/ Listed \/ NoAnswer \/ Unproven \/ SegmentRemoved
  <2>1. /\ upc = "sending" /\ upc' # "sending"
        /\ settled' \in {settled, settled \cup SentUnits}
    BY <1>2 DEF Accepted, Listed, Proven, NoAnswer, Unproven, SegmentRemoved, UploadAt
  <2>2. SentUnits \subseteq Here \cup settled BY <2>1 DEF InHand
  <2> QED BY <2>1, <2>2 DEF InHand
<1>3. CASE Refused BY <1>3 DEF Refused, InHand
<1>4. CASE TimePasses
  <2>1. UNCHANGED <<upc, sent, settled, sea, quar>> BY <1>4 DEF TimePasses, SameStore
  <2> QED BY <2>1 DEF InHand, Here, SentUnits
<1>5. CASE \/ WriteAck \/ MatchFiles \/ Recheck \/ DeleteFile \/ RemoveLen \/ RemoveMarker
           \/ RemoveDir \/ GateFails \/ LocalFinish \/ SweepEmpty
  <2>1. settled' = settled
    BY <1>5 DEF WriteAck, MatchFiles, Recheck, DeleteFile, RemoveLen, RemoveMarker, RemoveDir,
       GateFails, LocalFinish, SweepEmpty, Goes, Leaves
  <2>2. upc' # "sending"
    BY <1>5 DEF WriteAck, MatchFiles, Recheck, DeleteFile, RemoveLen, RemoveMarker, RemoveDir,
       GateFails, LocalFinish, SweepEmpty, Goes, Leaves, UploadAt
  <2> QED BY <2>1, <2>2 DEF InHand
<1> QED BY <1>1, <1>2, <1>3, <1>4, <1>5 DEF UploadSteps

(* Each step of the two tasks is a step of Custody, or changes nothing it   *)
(* sees.                                                                    *)
LEMMA CustodyStep ==
  ASSUME UploadInv, InHand, [Next]_vars
  PROVE  InHand' /\ [Promise!Next]_<<Stored(sea) \cup quar, settled>>
<1>1. CASE EngineSteps
  <2>1. Promise!Take BY <1>1, EngineTakes DEF Promise!Take, Here
  <2> QED BY <1>1, <2>1, EngineTakes DEF Promise!Next
<1>2. CASE UploadSteps
  <2>1. SeaKept BY UploadStep
  <2>2. Here \subseteq Here' \cup settled'
    BY <1>2, <2>1, UploaderLetsGo, UploaderSends DEF SeaKept, Here
  <2>3. Promise!HandOver
    BY <1>2, <2>2, UploaderLetsGo, UploaderSends DEF Promise!HandOver, Here
  <2> QED BY <1>2, <2>3, UploaderSends DEF Promise!Next
<1>3. CASE UNCHANGED vars
  <2>1. UNCHANGED <<upc, sent, settled, sea, quar>> BY <1>3 DEF vars, storeVars, uploadVars
  <2> QED BY <2>1 DEF InHand, Here, SentUnits, Stored
<1> QED BY <1>1, <1>2, <1>3, TwoTasks

(***************************************************************************)
(* The engine and the uploader, working file by file on one window through  *)
(* crashes, merges, refusals and lost answers, implement the promise of     *)
(* Custody: only what was sealed here is delivered, and only what has been  *)
(* delivered is let go.                                                     *)
(***************************************************************************)
THEOREM CustodyIsImplemented == Spec => ImplementsCustody
<1>1. Init => InHand /\ Promise!Init
  <2> SUFFICES ASSUME Init PROVE InHand /\ Promise!Init OBVIOUS
  <2>1. InHand BY DEF Init, UploadInit, InHand
  <2>2. \A n \in Names : NoDir.f[n] = {} BY NoneTyped
  <2>3. Stored(sea) \cup quar = {} /\ settled = {}
    BY <2>2 DEF Init, StoreInit, Stored
  <2> QED BY <2>1, <2>3 DEF Promise!Init
<1>2. UploadInv /\ InHand /\ [Next]_vars
      => InHand' /\ [Promise!Next]_<<Stored(sea) \cup quar, settled>>
  BY CustodyStep
<1> QED BY <1>1, <1>2, UploadInvariant, PTL DEF Spec, ImplementsCustody, Promise!Spec

----------------------------------------------------------------------------
(* Desktop activity, on its way from the incomplete directory.              *)

Rows == {u \in Units : u[1] = Activity}

(* Activity is in the files that are named for it, and in no other.         *)
Placed == \A n \in Names \ ActivityFiles : inc.f[n] \cap Rows = {}

(* A merge that found no collision meets none: the uploader only deletes.   *)
Apart ==
  pc = "move" \/ (pc \in {"full", "unmark"} /\ ~plan.col) =>
    \A n \in Names : inc.f[n] = {} \/ sea.f[n] = {}

RowsInv == Placed /\ Apart /\ ActivityKept

(* What a step of the engine must do for the rows of one file.              *)
RowsMove == \A n \in ActivityFiles : inc.f[n] \subseteq inc'.f[n] \cup sea'.f[n] \cup quar'

(* The names of the other files are not activity's.                         *)
LEMMA NamesApart ==
  /\ ActivityFiles \subseteq Names /\ PcmFiles \subseteq Names /\ Flac \in Names
  /\ Flac \notin ActivityFiles /\ Mp4 \notin ActivityFiles /\ Partial \notin ActivityFiles
  /\ PcmFiles \cap ActivityFiles = {}
  /\ \A r \in Runs : Activity \in Sources => ActivityFile(r) \in ActivityFiles
  /\ PcmFile("Mic") \notin ActivityFiles /\ PcmFile("SystemAudio") \notin ActivityFiles
  BY DEF ActivityFiles, PcmFiles, Names, Flac, Mp4, Partial, ActivityFile, PcmFile, Activity,
     AudioSources, Runs

(* The files of the incomplete directory are as they were.                  *)
LEMMA SameFiles ==
  ASSUME Placed, inc'.f = inc.f
  PROVE  Placed' /\ RowsMove
  BY NamesApart DEF Placed, RowsMove

(* One file that is not activity's gets a content without any.              *)
LEMMA OtherFile ==
  ASSUME Placed, inc \in Dirs, NEW m, m \notin ActivityFiles, NEW S \in SUBSET Units, S \cap Rows = {},
         \A n \in Names : inc'.f[n] = IF n = m THEN S ELSE inc.f[n]
  PROVE  Placed' /\ RowsMove
  BY NamesApart DEF Placed, RowsMove

LEMMA ProgramRows ==
  ASSUME StoreInv, RowsInv, Launch \/ Crash \/ Exit \/ EndWindow \/ OperationFails \/ RetrySeal
  PROVE  Placed' /\ RowsMove /\ Apart' /\ written' = written
<1>1. UNCHANGED <<inc, sea, written>>
  BY DEF Launch, Crash, Exit, EndWindow, OperationFails, RetrySeal, SealErr
<1>2. pc' \notin {"full", "unmark", "move"} \/ UNCHANGED <<pc, plan>>
  BY DEF Launch, Crash, Exit, EndWindow, OperationFails, RetrySeal, SealErr, GoesDown
<1>3. Apart' BY <1>1, <1>2 DEF RowsInv, Apart
<1> QED BY <1>1, <1>3, SameFiles DEF RowsInv

LEMMA RecordRows ==
  ASSUME StoreInv, RowsInv, OpenIncomplete \/ \E k \in Sources : Record(k)
  PROVE  Placed' /\ RowsMove /\ Apart' /\ written' \cap Rows \subseteq written \cup Stored(inc')
<1>0. inc \in Dirs BY DEF StoreInv, StoreTypeOK
<1>1. pc' = "idle" BY DEF OpenIncomplete, Record
<1>2. Apart' BY <1>1 DEF Apart
<1>3. CASE OpenIncomplete
  <2>1. inc'.f = inc.f /\ written' = written BY <1>0, <1>3 DEF OpenIncomplete, Dirs
  <2> QED BY <1>2, <2>1, SameFiles DEF RowsInv
<1>4. ASSUME NEW k \in Sources, Record(k)
      PROVE  Placed' /\ RowsMove /\ written' \cap Rows \subseteq written \cup Stored(inc')
  <2> DEFINE u == <<k, run>>
  <2> DEFINE n == Target(k)
  <2> DEFINE S == IF k = "Screen" THEN {u} ELSE inc.f[n] \cup {u}
  <2>0. run \in Runs BY <1>4 DEF Record, StoreInv
  <2>1. u \in Units /\ (u \in Rows => k = Activity) BY <2>0 DEF Units, Rows
  <2>2. n \in Names /\ (k # Activity => n \notin ActivityFiles) /\ (k = Activity => n \in ActivityFiles)
    <3>1. CASE k \in AudioSources
      <4>1. n = PcmFile(k) /\ k # Activity BY <3>1 DEF Target, AudioSources, Activity
      <4> QED BY <3>1, <4>1, NamesApart DEF PcmFiles
    <3>2. CASE k = Activity
      <4>1. n = ActivityFile(run) BY <3>2 DEF Target, AudioSources, Activity
      <4> QED BY <2>0, <3>2, <4>1, NamesApart
    <3>3. CASE k \notin AudioSources /\ k # Activity
      <4>1. n = Partial BY <3>3 DEF Target
      <4>2. k = "Screen" BY <3>3, StoreAssumption DEF StoreAssumption
      <4>3. Partial \in Names BY <4>2 DEF Names, ScreenFiles
      <4> QED BY <3>3, <4>1, <4>3, NamesApart
    <3> QED BY <3>1, <3>2, <3>3
  <2>3. inc' = [inc EXCEPT !.f[n] = S] BY <1>4 DEF Record
  <2>4. S \in SUBSET Units BY <1>0, <2>1, <2>2, DirFields
  <2>5. u \in S /\ (k # "Screen" => inc.f[n] \subseteq S) OBVIOUS
  <2>6. k # Activity => S \cap Rows = {} BY <2>1, <2>2 DEF RowsInv, Placed
  <2> HIDE DEF S, n, u
  <2>7. \A m \in Names : inc'.f[m] = IF m = n THEN S ELSE inc.f[m] BY <1>0, <2>3, <2>4 DEF Dirs
  <2>8. u \in Stored(inc') BY <2>2, <2>5, <2>7 DEF Stored
  <2>9. written' \subseteq written \cup {u} BY <1>4 DEF Record, u
  <2>10. CASE k # Activity
    <3>1. n \notin ActivityFiles /\ S \cap Rows = {} BY <2>2, <2>6, <2>10
    <3>2. Placed' /\ RowsMove BY <1>0, <2>4, <2>7, <3>1, OtherFile DEF RowsInv
    <3> QED BY <2>8, <2>9, <3>2
  <2>11. CASE k = Activity
    <3>1. n \in ActivityFiles /\ inc.f[n] \subseteq S BY <2>2, <2>5, <2>11 DEF Activity
    <3>2. Placed' BY <2>7, <3>1 DEF RowsInv, Placed
    <3>3. RowsMove BY <2>7, <3>1, NamesApart DEF RowsMove
    <3> QED BY <2>8, <2>9, <3>2, <3>3
  <2> QED BY <2>10, <2>11
<1> QED BY <1>2, <1>3, <1>4

LEMMA BeginRows ==
  ASSUME StoreInv, RowsInv, Seal \/ Quit
  PROVE  Placed' /\ RowsMove /\ Apart' /\ written' \cap Rows \subseteq written
<1>0. inc \in Dirs BY DEF StoreInv, StoreTypeOK
<1>1. ASSUME NEW quit \in BOOLEAN, BeginSeal(quit)
      PROVE  Placed' /\ RowsMove /\ Apart' /\ written' \cap Rows \subseteq written
  <2>1. Apart' BY <1>1 DEF BeginSeal, Apart
  <2>2. inc' = Finalized(inc) BY <1>1 DEF BeginSeal
  <2>3. CASE ~HasWriter
    <3>1. inc' = inc /\ written' = written BY <1>1, <2>2, <2>3 DEF BeginSeal, Finalized
    <3> QED BY <2>1, <3>1, SameFiles DEF RowsInv
  <2>4. CASE HasWriter
    <3> DEFINE t == [inc EXCEPT !.f[Mp4] = inc.f[Partial]]
    <3>1. Partial \in Names BY <2>4 DEF HasWriter, Names, ScreenFiles
    <3>2. inc.f[Partial] \in SUBSET Units /\ inc.f[Partial] \cap Rows = {}
      BY <1>0, <3>1, DirFields, NamesApart DEF RowsInv, Placed
    <3>3. t \in Dirs /\ \A m \in Names : t.f[m] = IF m = Mp4 THEN inc.f[Partial] ELSE inc.f[m]
      BY <1>0, <3>2 DEF Dirs
    <3>4. inc' = [t EXCEPT !.f[Partial] = {}] BY <2>2, <2>4 DEF Finalized
    <3> HIDE DEF t
    <3>5. \A m \in Names : inc'.f[m] = IF m = Partial THEN {} ELSE t.f[m] BY <3>3, <3>4, FileTyped
    <3>6. Placed' BY <3>2, <3>3, <3>5 DEF RowsInv, Placed
    <3>7. RowsMove BY <3>3, <3>5, NamesApart DEF RowsMove
    <3>8. written' \cap Rows \subseteq written BY <1>1, <2>4, <3>2 DEF BeginSeal
    <3> QED BY <2>1, <3>6, <3>7, <3>8
  <2> QED BY <2>3, <2>4
<1>2. ASSUME NEW quit \in BOOLEAN, EncoderFails(quit)
      PROVE  Placed' /\ RowsMove /\ Apart' /\ written' \cap Rows \subseteq written
  <2>1. UNCHANGED <<inc, written>> /\ pc' = "idle" BY <1>2 DEF EncoderFails, GoesDown
  <2> QED BY <2>1, SameFiles DEF RowsInv, Apart
<1> QED BY <1>1, <1>2 DEF Seal, Quit

(* The operations before the merge, and the two that set the rest aside.    *)
LEMMA EarlyRows ==
  ASSUME StoreInv, RowsInv,
         Discard \/ Sweep \/ CreateFlac \/ EncodeFlac \/ DropPcm \/ WriteLen
           \/ SetAside \/ RemoveIncomplete
  PROVE  Placed' /\ RowsMove /\ Apart' /\ written' = written
<1>0. inc \in Dirs /\ Placed BY DEF RowsInv, StoreInv, StoreTypeOK
<1>n. \A n \in Names : NoDir.f[n] = {} BY NoneTyped
<1>1. written' = written /\ pc' \notin {"full", "unmark", "move"}
  BY DEF Discard, Sweep, CreateFlac, EncodeFlac, DropPcm, WriteLen, SetAside, RemoveIncomplete,
     SealDone, GoesDown, Proceed, Kept
<1>2. Apart' BY <1>1 DEF Apart
<1>3. CASE Discard \/ SetAside
  <2>1. quar' = quar \cup Stored(inc) /\ inc' = NoDir BY <1>3 DEF Discard, SetAside
  <2>2. \A n \in Names : inc.f[n] \subseteq quar' BY <1>0, <2>1, StoredTyped
  <2> QED BY <1>1, <1>2, <1>n, <2>1, <2>2, NamesApart DEF Placed, RowsMove
<1>4. CASE RemoveIncomplete
  <2>1. inc' = NoDir /\ \A n \in Names : inc.f[n] = {} BY <1>4 DEF RemoveIncomplete, Entries
  <2> QED BY <1>1, <1>2, <1>n, <2>1, NamesApart DEF Placed, RowsMove
<1>5. CASE Sweep
  <2>1. \A n \in Names : inc'.f[n] = IF n = Partial THEN {} ELSE inc.f[n] BY <1>0, <1>5 DEF Sweep, Dirs
  <2> QED BY <1>0, <1>1, <1>2, <2>1, OtherFile, NamesApart
<1>6. CASE CreateFlac
  <2>1. CASE Heard = {} BY <1>0, <1>1, <1>2, <1>6, <2>1, SameFiles DEF CreateFlac
  <2>2. CASE Heard # {}
    <3>1. inc' = [inc EXCEPT !.f[Flac] = {}] BY <1>6, <2>2 DEF CreateFlac
    <3>2. \A n \in Names : inc'.f[n] = IF n = Flac THEN {} ELSE inc.f[n] BY <1>0, <3>1 DEF Dirs
    <3> QED BY <1>0, <1>1, <1>2, <3>2, OtherFile, NamesApart
  <2> QED BY <2>1, <2>2
<1>7. CASE EncodeFlac
  <2>1. Heard \subseteq Units /\ Heard \cap Rows = {}
    BY <1>0, DirFields, NamesApart DEF Heard, Placed
  <2>2. inc' = [inc EXCEPT !.f[Flac] = Heard, !.src = TRUE] BY <1>7 DEF EncodeFlac
  <2>3. \A n \in Names : inc'.f[n] = IF n = Flac THEN Heard ELSE inc.f[n] BY <1>0, <2>2 DEF Dirs
  <2> QED BY <1>0, <1>1, <1>2, <2>1, <2>3, OtherFile, NamesApart
<1>8. CASE DropPcm
  <2>1. PICK m \in {PcmFile("Mic"), PcmFile("SystemAudio")} : inc' = [inc EXCEPT !.f[m] = {}]
    BY <1>8 DEF DropPcm
  <2>2. \A n \in Names : inc'.f[n] = IF n = m THEN {} ELSE inc.f[n] BY <1>0, <2>1 DEF Dirs
  <2>3. m \notin ActivityFiles BY NamesApart
  <2> QED BY <1>0, <1>1, <1>2, <2>2, <2>3, OtherFile
<1>9. CASE WriteLen
  <2>1. inc'.f = inc.f BY <1>0, <1>9 DEF WriteLen, Dirs
  <2> QED BY <1>0, <1>1, <1>2, <2>1, SameFiles
<1> QED BY <1>3, <1>4, <1>5, <1>6, <1>7, <1>8, <1>9

(* An entry whose name is free in the sealed window moves.                  *)
LEMMA MovedRows ==
  ASSUME StoreInv, RowsInv, NEW n \in Names, sea.f[n] = {}, Moved(n)
  PROVE  /\ Placed' /\ RowsMove
         /\ (\A m \in Names : inc.f[m] = {} \/ sea.f[m] = {})
              => \A m \in Names : inc'.f[m] = {} \/ sea'.f[m] = {}
<1>0. inc \in Dirs /\ sea \in Dirs BY DEF StoreInv, StoreTypeOK
<1>1. sea' = [sea EXCEPT !.f[n] = inc.f[n]] /\ inc' = [inc EXCEPT !.f[n] = {}] BY DEF Moved
<1>2. \A m \in Names : sea'.f[m] = IF m = n THEN inc.f[n] ELSE sea.f[m] BY <1>0, <1>1 DEF Dirs
<1>3. \A m \in Names : inc'.f[m] = IF m = n THEN {} ELSE inc.f[m] BY <1>0, <1>1 DEF Dirs
<1>4. Placed' BY <1>3 DEF RowsInv, Placed
<1>5. RowsMove BY <1>2, <1>3, NamesApart DEF RowsMove
<1> QED BY <1>2, <1>3, <1>4, <1>5

LEMMA MergeRows ==
  ASSUME StoreInv, RowsInv, SealOrMerge \/ SetFullLen \/ Unmark \/ Rescue \/ MoveEntry \/ MoveSidecars
  PROVE  Placed' /\ RowsMove /\ Apart' /\ written' = written
<1>0. inc \in Dirs /\ sea \in Dirs /\ Placed /\ Apart BY DEF RowsInv, StoreInv, StoreTypeOK
<1>1. written' = written
  BY DEF SealOrMerge, SetFullLen, Unmark, Rescue, MoveEntry, MoveSidecars, SealedGone, SealErr, SealDone,
     Proceed, Kept
<1>2. ASSUME SealedGone PROVE Placed' /\ RowsMove /\ Apart'
  <2>1. inc' = inc /\ pc' = "idle" BY <1>2 DEF SealedGone, SealErr, GoesDown
  <2> QED BY <1>0, <2>1, SameFiles DEF Apart
<1>3. ASSUME inc'.f = inc.f, sea'.f = sea.f, plan' = plan,
             pc' = pc \/ (pc = "full" /\ pc' = "unmark") \/ (pc = "unmark" /\ (pc' = "move" => ~plan.col))
                \/ pc' \notin {"full", "unmark", "move"}, pc = "unmark" => pc' # "full"
      PROVE  Placed' /\ RowsMove /\ Apart'
  BY <1>0, <1>3, SameFiles DEF Apart
<1>4. CASE SealOrMerge /\ ~sea.dir
  <2>1. sea' = inc /\ inc' = NoDir /\ pc' = "idle" BY <1>4 DEF SealOrMerge, SealDone, GoesDown
  <2>2. \A n \in Names : inc'.f[n] = {} BY <2>1, NoneTyped
  <2>3. Placed' BY <2>2 DEF Placed
  <2>4. RowsMove BY <2>1, NamesApart DEF RowsMove
  <2> QED BY <1>1, <2>1, <2>3, <2>4 DEF Apart
<1>5. CASE SealOrMerge /\ sea.dir
  <2>1. /\ plan' = [col |-> Collides, fresh |-> Fresh # {}] /\ pc' = MergeStep(plan')
        /\ UNCHANGED <<inc, sea>>
    BY <1>5 DEF SealOrMerge
  <2>2. plan'.col = Collides BY <2>1
  <2>3. pc' = "move" => ~plan'.col BY <2>1 DEF MergeStep
  <2>4. ~Collides => \A n \in Names : inc.f[n] = {} \/ sea.f[n] = {} BY DEF Collides, Entries
  <2>5. Apart' BY <2>1, <2>2, <2>3, <2>4 DEF Apart
  <2> QED BY <1>0, <1>1, <2>1, <2>5, SameFiles
<1>6. CASE SetFullLen
  <2>1. CASE ~SealedGone
    <3>1. /\ pc = "full" /\ sea' = [sea EXCEPT !.len = "full"] /\ inc' = inc /\ pc' = "unmark" /\ plan' = plan
      BY <1>6, <2>1 DEF SetFullLen, Proceed, At
    <3>2. sea'.f = sea.f BY <1>0, <3>1 DEF Dirs
    <3> QED BY <1>1, <1>3, <3>1, <3>2
  <2> QED BY <1>1, <1>2, <2>1
<1>7. CASE Unmark
  <2>1. /\ pc = "unmark" /\ sea' = [sea EXCEPT !.ack = NoAck] /\ inc' = inc /\ plan' = plan
        /\ pc' = IF plan.col THEN "rescue" ELSE "move"
    BY <1>7 DEF Unmark, Proceed, At
  <2>2. sea'.f = sea.f BY <1>0, <2>1 DEF Dirs
  <2> QED BY <1>1, <1>3, <2>1, <2>2
<1>8. CASE Rescue
  <2>1. ASSUME NEW n \in Fresh, Moved(n), Proceed("rescue") PROVE Placed' /\ RowsMove /\ Apart'
    <3>1. n \in Names /\ sea.f[n] = {} BY <2>1, NamesApart DEF Fresh, Entries
    <3>2. pc' = "rescue" BY <2>1 DEF Proceed
    <3> QED BY <2>1, <3>1, <3>2, MovedRows DEF Apart
  <2>2. CASE UNCHANGED <<inc, sea>> /\ Proceed("aside")
    <3>1. inc'.f = inc.f /\ sea'.f = sea.f /\ plan' = plan /\ pc' = "aside" BY <2>2 DEF Proceed
    <3> QED BY <1>0, <1>1, <3>1, SameFiles DEF Apart
  <2> QED BY <1>1, <1>2, <1>8, <2>1, <2>2 DEF Rescue
<1>9. CASE MoveEntry
  <2>1. ASSUME NEW n \in Entries(inc), Moved(n), Proceed("move") PROVE Placed' /\ RowsMove /\ Apart'
    <3>1. \A m \in Names : inc.f[m] = {} \/ sea.f[m] = {} BY <1>0, <1>9 DEF MoveEntry, At, Apart
    <3>2. n \in Names /\ sea.f[n] = {} BY <2>1, <3>1 DEF Entries
    <3> QED BY <2>1, <3>1, <3>2, MovedRows DEF Apart
  <2> QED BY <1>1, <1>2, <1>9, <2>1 DEF MoveEntry
<1>10. CASE MoveSidecars
  <2>1. CASE ~SealedGone
    <3>1. /\ pc = "move" /\ pc' = "move" /\ plan' = plan
          /\ sea' = [sea EXCEPT !.len = IF @ = "none" THEN inc.len ELSE @, !.src = @ \/ inc.src]
          /\ inc' = [inc EXCEPT !.len = "none", !.src = FALSE]
      BY <1>10, <2>1 DEF MoveSidecars, Proceed, At
    <3>2. sea'.f = sea.f /\ inc'.f = inc.f BY <1>0, <3>1 DEF Dirs
    <3> QED BY <1>1, <1>3, <3>1, <3>2
  <2> QED BY <1>1, <1>2, <2>1
<1> QED BY <1>4, <1>5, <1>6, <1>7, <1>8, <1>9, <1>10

(* Every step of the engine, for the rows that are written.                 *)
LEMMA EngineRows ==
  ASSUME UploadInv, InHand, RowsInv, EngineSteps
  PROVE  RowsInv'
<1>0. StoreInv /\ inc \in Dirs BY Halves DEF StoreInv, StoreTypeOK
<1>1. Placed' /\ RowsMove /\ Apart' /\ written' \cap Rows \subseteq written \cup Stored(inc')
  BY <1>0, ProgramRows, RecordRows, BeginRows, EarlyRows, MergeRows DEF EngineSteps, Engine, SealSteps
<1>2. Here \subseteq Here' /\ settled' = settled BY EngineTakes
<1>3. Stored(inc) \cap Rows \subseteq Stored(inc') \cup Stored(sea') \cup quar'
  <2>1. ASSUME NEW u \in Rows, NEW n \in Names, u \in inc.f[n]
        PROVE  u \in Stored(inc') \cup Stored(sea') \cup quar'
    <3>1. n \in ActivityFiles BY <2>1 DEF RowsInv, Placed
    <3> QED BY <1>1, <2>1, <3>1 DEF RowsMove, Stored
  <2> QED BY <2>1 DEF Stored
<1>4. Somewhere \cap Rows \subseteq Somewhere' BY <1>2, <1>3 DEF Somewhere, Here
<1>5. written \subseteq Units /\ written' \subseteq Units
  <2>1. UploadInv' BY UploadStep DEF EngineSteps, Next, Engine, SealSteps
  <2> QED BY <1>0, <2>1, Halves DEF StoreInv, StoreTypeOK
<1>6. ActivityKept'
  <2>1. written \cap Rows \subseteq Somewhere BY DEF RowsInv, ActivityKept, Rows
  <2>2. Stored(inc') \subseteq Somewhere' BY DEF Somewhere
  <2>3. written' \cap Rows \subseteq Somewhere' BY <1>1, <1>4, <2>1, <2>2
  <2> QED BY <1>5, <2>3 DEF ActivityKept, Rows
<1> QED BY <1>1, <1>6 DEF RowsInv

(* No step of the uploader adds to a file of the sealed window.             *)
LEMMA UploaderDeletes ==
  ASSUME UploadInv, UploadSteps
  PROVE  /\ \A n \in Names : sea'.f[n] \subseteq sea.f[n]
         /\ UNCHANGED <<inc, pc, plan, written>>
<1>1. sea \in Dirs BY Halves DEF StoreInv, StoreTypeOK
<1>2. \A n \in Names : NoDir.f[n] = {} BY NoneTyped
<1>3. CASE \/ Send \/ Accepted \/ Listed \/ NoAnswer \/ Unproven \/ SegmentRemoved \/ MatchFiles \/ Recheck
           \/ GateFails \/ SweepEmpty \/ TimePasses
  BY <1>3 DEF Send, Accepted, Listed, Proven, NoAnswer, Unproven, SegmentRemoved, MatchFiles, Recheck,
     GateFails, SweepEmpty, TimePasses, Goes, Leaves, SameStore
<1>4. CASE Refused BY <1>2, <1>4 DEF Refused
<1>5. CASE WriteAck \/ LocalFinish \/ RemoveLen \/ RemoveMarker
  <2>1. sea'.f = sea.f
    BY <1>1, <1>5 DEF WriteAck, LocalFinish, RemoveLen, RemoveMarker, Dirs
  <2> QED BY <1>5, <2>1 DEF WriteAck, LocalFinish, RemoveLen, RemoveMarker, Goes, Leaves, SameStore
<1>6. CASE DeleteFile
  <2>1. PICK m \in matched : sea' = [sea EXCEPT !.f[m] = {}] BY <1>6 DEF DeleteFile
  <2>2. \A n \in Names : sea'.f[n] \subseteq sea.f[n] BY <1>1, <2>1, FileTyped
  <2> QED BY <1>6, <2>2 DEF DeleteFile, Goes, SameStore
<1>7. CASE RemoveDir BY <1>2, <1>7 DEF RemoveDir, Leaves, SameStore
<1> QED BY <1>3, <1>4, <1>5, <1>6, <1>7 DEF UploadSteps

LEMMA UploaderRows ==
  ASSUME UploadInv, InHand, RowsInv, UploadSteps
  PROVE  RowsInv'
<1>1. /\ \A n \in Names : sea'.f[n] \subseteq sea.f[n]
      /\ UNCHANGED <<inc, pc, plan, written>>
  BY UploaderDeletes
<1>2. Placed' BY <1>1 DEF RowsInv, Placed
<1>3. Apart' BY <1>1 DEF RowsInv, Apart
<1>4. SeaKept BY UploadStep DEF Next
<1>5. quar \subseteq quar' /\ settled \subseteq settled' BY UploaderLetsGo, UploaderSends
<1>6. Somewhere \subseteq Somewhere' BY <1>1, <1>4, <1>5 DEF Somewhere, SeaKept, Stored
<1>7. ActivityKept' BY <1>1, <1>6 DEF RowsInv, ActivityKept
<1> QED BY <1>2, <1>3, <1>7 DEF RowsInv

(***************************************************************************)
(* No desktop activity is lost: a row once written is in one of the         *)
(* window's directories, in quarantine or with the journal, whichever       *)
(* operation fails, wherever the program is killed or quit, and however the *)
(* merge of a second seal (seal_or_merge) meets the uploader's deletions.   *)
(***************************************************************************)
THEOREM ActivityIsKept == Spec => []ActivityKept
<1>1. Init => InHand /\ RowsInv
  <2> SUFFICES ASSUME Init PROVE InHand /\ RowsInv OBVIOUS
  <2>1. InHand BY DEF Init, UploadInit, InHand
  <2>2. inc = NoDir /\ pc = "idle" /\ written = {} BY DEF Init, StoreInit
  <2>3. \A n \in Names : inc.f[n] = {} BY <2>2, NoneTyped
  <2> QED BY <2>1, <2>2, <2>3 DEF RowsInv, Placed, Apart, ActivityKept
<1>2. UploadInv /\ InHand /\ RowsInv /\ [Next]_vars => InHand' /\ RowsInv'
  <2> SUFFICES ASSUME UploadInv, InHand, RowsInv, [Next]_vars PROVE InHand' /\ RowsInv' OBVIOUS
  <2>1. InHand' BY CustodyStep
  <2>2. CASE UNCHANGED vars
    <3>1. UNCHANGED <<inc, sea, pc, plan, quar, settled, written>> BY <2>2 DEF vars, storeVars, uploadVars
    <3> QED BY <2>1, <3>1 DEF RowsInv, Placed, Apart, ActivityKept, Somewhere, Stored
  <2> QED BY <2>1, <2>2, TwoTasks, EngineRows, UploaderRows
<1>3. RowsInv => ActivityKept BY DEF RowsInv
<1> QED BY <1>1, <1>2, <1>3, UploadInvariant, PTL DEF Spec
=============================================================================
