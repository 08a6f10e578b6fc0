---------------------------- MODULE HookDirProofs ----------------------------
(***************************************************************************)
(* The proofs that a run fails closed and that it publishes soundly, for    *)
(* any pairs, versions, runs and number of changes by other programs.       *)
(*                                                                         *)
(* A run that cannot secure the directory unregisters the layer long before *)
(* it ends: the first invariant, IInv, carries that, across the download,   *)
(* to the refusal to publish.  One that could looks a last time, and what   *)
(* happens after that look is only told.                                    *)
(*                                                                         *)
(* What is published is looked at as the next reboot will leave it: the     *)
(* second invariant, PublishInv, says of every pair but the one in progress *)
(* that it will be of one version, no older than the one in place.          *)
(***************************************************************************)
EXTENDS HookDir, TLAPS

\* The variables have their fields and domains; what is staged inherits.
StoryFields == {"disturbed", "registered", "wroteTheirs", "downgraded", "unsettled",
                "believed", "undiscarded", "foreign", "undeleted"}
StateFields == {"attempted", "outcome", "pairWasTrusted", "quarantineError",
                "cleanupFailed"}

Shapes ==
    /\ DOMAIN story = StoryFields
    /\ DOMAIN state = StateFields
    /\ DOMAIN files = Files
    /\ DOMAIN staged = Files
    /\ \A f \in Files : staged[f] = NoFile \/ staged[f].acl = "inherit"

Attempted ==
    pc \in {"replace", "create", "contain", "purge", "answer", "switch"} => state.attempted

\* A directory that was found and could not be secured has no layer, whatever happens in
\* between.
Contained ==
    /\ pc \in {"answer", "download", "publish", "switch"}
    /\ state.attempted /\ state.outcome # "Secured" /\ ~state.cleanupFailed /\ resolved
    => layer = {} \/ story.registered

ResultAtEnd == result # "none" => pc = "idle"

Full == dir = "ours" /\ \A f \in Files : files[f].acl = "inherit"

\* A run that could be refused says so; one that ended well had a full directory.
Closed ==
    result # "none" =>
        \/ layer = {} \/ result = "ContainmentFailed"
        \/ story.registered
        \/ result \in {"Secured", "AncestorUntrusted"} /\ (story.disturbed \/ Full)
        \/ ~resolved

IInv == Shapes /\ Attempted /\ Contained /\ ResultAtEnd /\ Closed

\* The files found untrusted that are still there are the ones that could not be deleted.
Labelled == story.foreign \subseteq story.undeleted

-----------------------------------------------------------------------------

\* What is discarded is gone, what is left inherits.
LEMMA DiscardedIsClean ==
    ASSUME Shapes, NEW fs, NEW kept, DiscardStaged(fs, kept)
    PROVE  /\ DOMAIN staged' = Files
           /\ \A f \in Files : staged'[f] = NoFile \/ staged'[f].acl = "inherit"
<1>1. \A f \in Files : staged'[f] = IF f \in fs \ kept THEN NoFile ELSE staged[f]
  BY DEF DiscardStaged
<1>2. DOMAIN staged' = Files
  BY DEF DiscardStaged
<1>. QED
  BY <1>1, <1>2 DEF Shapes, StoryFields, StateFields

\* There is a file to ask about.
LEMMA FilesAreThere == Files # {}
<1>1. PICK p : p \in Pairs
  BY HookDirAssumption
<1>2. <<p, "dll">> \in Files
  BY <1>1 DEF Files
<1>. QED
  BY <1>2

\* The last look finds a full directory.
LEMMA BackedIsFull == Backed => Full
BY FilesAreThere DEF Backed, Full, FileIsTrusted

\* The invariant holds before the first run.
LEMMA InitInv == Init => IInv
<1> SUFFICES ASSUME Init PROVE IInv
  OBVIOUS
<1>1. pc = "idle" /\ result = "none" /\ state = Unattempted
  BY DEF Init
<1>2. Shapes
  <2>1. /\ files = [f \in Files |-> files[f]] /\ staged = [f \in Files |-> NoFile]
    BY DEF Init
  <2>2. story = [disturbed |-> FALSE, registered |-> FALSE, wroteTheirs |-> FALSE,
                 downgraded |-> FALSE, unsettled |-> {}, believed |-> {},
                 undiscarded |-> {}, foreign |-> {}, undeleted |-> {}]
    BY DEF Init
  <2>. QED
    BY <1>1, <2>1, <2>2 DEF Shapes, StoryFields, StateFields, Unattempted
<1>3. Attempted /\ Contained /\ ResultAtEnd /\ Closed
  BY <1>1 DEF Attempted, Contained, ResultAtEnd, Closed
<1>. QED
  BY <1>2, <1>3 DEF IInv

\* What is asked and done until the directory is hardened, or not.
LEMMA SecuringKeeps ==
    ASSUME IInv,
           \/ Sample \/ Unlink \/ KeepDirectory \/ QuarantineMoves \/ QuarantineRefused
           \/ Harden \/ HardenFails
    PROVE  IInv'
<1> USE DEF IInv
<1>1. /\ pc' \in {"replace", "create", "contain", "purge"} /\ pc # "idle"
      /\ UNCHANGED <<layer, result>>
  BY DEF Sample, Unlink, KeepDirectory, QuarantineMoves, QuarantineRefused, Harden,
         HardenFails, disk
<1>2. \/ story' = story \/ story' = Looked
      \/ story' = [story EXCEPT !.undiscarded = {}, !.foreign = {}, !.undeleted = {}]
  BY DEF Sample, Unlink, KeepDirectory, QuarantineMoves, QuarantineRefused, Harden,
         HardenFails
<1>3. result = "none"
  BY <1>1 DEF ResultAtEnd
<1>4. DOMAIN state' = StateFields /\ state'.attempted
  <2>1. CASE Sample
    <3>1. \E s : state' = [Unattempted EXCEPT !.attempted = TRUE, !.pairWasTrusted = s]
      BY <2>1 DEF Sample
    <3>. QED
      BY <3>1 DEF Unattempted, StateFields
  <2>2. CASE QuarantineRefused
    BY <2>2 DEF QuarantineRefused, Attempted, Shapes, StoryFields, StateFields
  <2>3. CASE Unlink \/ KeepDirectory \/ QuarantineMoves \/ Harden \/ HardenFails
    <3>1. state' = state /\ state.attempted
      BY <2>3 DEF Unlink, KeepDirectory, QuarantineMoves, Harden, HardenFails, Attempted
    <3>. QED
      BY <3>1 DEF Shapes, StoryFields, StateFields
  <2>. QED
    BY <2>1, <2>2, <2>3
<1>5. \/ UNCHANGED <<files, staged>>
      \/ files' = [f \in Files |-> NoFile] /\ staged' = [f \in Files |-> NoFile]
  BY DEF Sample, Unlink, KeepDirectory, QuarantineMoves, QuarantineRefused, Harden,
         HardenFails, disk
<1>6. Shapes'
  BY <1>2, <1>4, <1>5 DEF Shapes, StoryFields, StateFields, Looked
<1>7. Attempted' /\ Contained' /\ ResultAtEnd' /\ Closed'
  BY <1>1, <1>3, <1>4 DEF Attempted, Contained, ResultAtEnd, Closed
<1>. QED
  BY <1>6, <1>7

\* A directory that could not be resolved is left alone.
LEMMA GiveUpKeeps == ASSUME IInv, GiveUp PROVE IInv'
<1> USE DEF IInv
<1>1. /\ pc = "sample" /\ pc' \in {"answer", "switch"} /\ ~resolved'
      /\ state' = [Unattempted EXCEPT !.attempted = TRUE]
      /\ UNCHANGED <<files, staged, result, story>>
  BY DEF GiveUp, AfterSecure, disk, run
<1>2. DOMAIN state' = StateFields /\ state'.attempted
  BY <1>1 DEF Unattempted, StateFields
<1>3. Shapes'
  BY <1>1, <1>2 DEF Shapes
<1>4. Attempted' /\ Contained' /\ ResultAtEnd' /\ Closed'
  BY <1>1, <1>2 DEF Attempted, Contained, ResultAtEnd, Closed
<1>. QED
  BY <1>3, <1>4

\* The layer goes, or the run knows that it did not.
LEMMA ContainKeeps == ASSUME IInv, Contain PROVE IInv'
<1> USE DEF IInv
<1>1. PICK ok \in BOOLEAN :
         RemoveLayer(ok) /\ state' = [state EXCEPT !.cleanupFailed = ~ok]
  BY DEF Contain
<1>2. /\ pc = "contain" /\ pc' \in {"answer", "switch"}
      /\ story' = [story EXCEPT !.registered = FALSE]
      /\ UNCHANGED <<files, staged, result>>
  BY DEF Contain, AfterSecure, disk
<1>3. state'.attempted /\ state'.cleanupFailed = ~ok
  BY <1>1, <1>2 DEF Shapes, StateFields, Attempted
<1>4. Shapes'
  BY <1>1, <1>2 DEF Shapes, StoryFields, StateFields
<1>5. result = "none"
  BY <1>2 DEF ResultAtEnd
<1>6. Contained'
  BY <1>1, <1>3 DEF Contained, RemoveLayer
<1>7. Attempted' /\ ResultAtEnd' /\ Closed'
  BY <1>2, <1>3, <1>5 DEF Attempted, ResultAtEnd, Closed
<1>. QED
  BY <1>4, <1>6, <1>7

\* What was found untrusted is deleted, and the directory is secured.
LEMMA PurgeKeeps == ASSUME IInv, Purge PROVE IInv'
<1> USE DEF IInv
<1>1. /\ pc = "purge" /\ pc' \in {"answer", "switch"}
      /\ state' = [state EXCEPT !.outcome = "Secured"]
      /\ DOMAIN files' = Files
      /\ \E u, v : story' = [story EXCEPT !.undeleted = u, !.foreign = v]
      /\ UNCHANGED <<staged, layer, result>>
  BY DEF Purge, AfterSecure
<1>2. state'.attempted /\ state'.outcome = "Secured"
  BY <1>1 DEF Shapes, StoryFields, StateFields, Attempted
<1>3. Shapes'
  BY <1>1 DEF Shapes, StoryFields, StateFields
<1>4. result = "none"
  BY <1>1 DEF ResultAtEnd
<1>5. Attempted' /\ Contained' /\ ResultAtEnd' /\ Closed'
  BY <1>1, <1>2, <1>4 DEF Attempted, Contained, ResultAtEnd, Closed
<1>. QED
  BY <1>3, <1>5

\* From the securing of the directory to the publishing, a download later.
LEMMA CallersKeep ==
    ASSUME IInv, StartRun \/ Proceed \/ AskAgain \/ DownloadDone \/ UpdateFails
    PROVE  IInv'
<1> USE DEF IInv
<1>1. UNCHANGED <<files, staged, layer, story>> /\ state' \in {state, Unattempted}
  BY DEF StartRun, Proceed, AskAgain, DownloadDone, UpdateFails, disk
<1>2. Shapes'
  BY <1>1 DEF Shapes, StoryFields, StateFields, Unattempted
<1>3. result' = "none"
  BY DEF StartRun, Proceed, AskAgain, DownloadDone, UpdateFails, ResultAtEnd
<1>4. CASE StartRun \/ AskAgain
  <2>1. pc' = "sample"
    BY <1>4 DEF StartRun, AskAgain
  <2>. QED
    BY <1>2, <1>3, <2>1 DEF Attempted, Contained, ResultAtEnd, Closed
<1>5. CASE Proceed \/ DownloadDone
  <2>1. /\ pc' \in {"download", "publish"} /\ pc \in {"answer", "download"}
        /\ state' = state /\ resolved' = resolved
    BY <1>5 DEF Proceed, DownloadDone, run
  <2>2. Contained'
    BY <1>1, <2>1 DEF Contained
  <2>. QED
    BY <1>2, <1>3, <2>1, <2>2 DEF Attempted, ResultAtEnd, Closed
<1>6. CASE UpdateFails
  <2>1. pc' = "publish" /\ state' = Unattempted
    BY <1>6 DEF UpdateFails
  <2>. QED
    BY <1>2, <1>3, <2>1 DEF Attempted, Contained, ResultAtEnd, Closed, Unattempted
<1>. QED
  BY <1>4, <1>5, <1>6

LEMMA PublishStartKeeps == ASSUME IInv, PublishStart PROVE IInv'
<1> USE DEF IInv
<1>1. /\ pc = "publish" /\ pc' = IF SecureAgain THEN "sample" ELSE "switch"
      /\ story' = Looked /\ UNCHANGED <<files, staged, layer, state, result, resolved>>
  BY DEF PublishStart, disk, run
<1>2. Shapes'
  BY <1>1 DEF Shapes, StoryFields, StateFields, Looked
<1>3. story'.registered = story.registered
  BY <1>1 DEF Looked, Shapes, StoryFields, StateFields
<1>4. pc' = "switch" => state.attempted
  BY <1>1 DEF SecureAgain
<1>5. Contained'
  BY <1>1, <1>3 DEF Contained
<1>6. result = "none"
  BY <1>1 DEF ResultAtEnd
<1>7. Attempted' /\ ResultAtEnd' /\ Closed'
  BY <1>1, <1>4, <1>6 DEF Attempted, ResultAtEnd, Closed
<1>. QED
  BY <1>2, <1>5, <1>7

\* A run that is refused has no layer any more, or says that it has.
LEMMA RefuseKeeps == ASSUME IInv, Refuse PROVE IInv'
<1> USE DEF IInv
<1>1. /\ pc = "switch" /\ state.outcome # "Secured" /\ pc' = "idle"
      /\ result' = RefusalResult /\ state' = Unattempted
      /\ UNCHANGED <<files, staged, layer, story, resolved>>
  BY DEF Refuse, EndRun, disk
<1>2. Shapes'
  BY <1>1 DEF Shapes, StoryFields, StateFields, Unattempted
<1>3. state.attempted
  BY <1>1 DEF Attempted
<1>4. state.cleanupFailed => result' = "ContainmentFailed"
  BY <1>1 DEF RefusalResult
<1>5. ~state.cleanupFailed /\ resolved => layer = {} \/ story.registered
  BY <1>1, <1>3 DEF Contained
<1>6. Closed'
  BY <1>1, <1>4, <1>5 DEF Closed
<1>7. Attempted' /\ Contained' /\ ResultAtEnd'
  BY <1>1 DEF Attempted, Contained, ResultAtEnd
<1>. QED
  BY <1>2, <1>6, <1>7

\* The last look: the layer stays with a full directory, and goes otherwise.
LEMMA FinishKeeps == ASSUME IInv, Finish PROVE IInv'
<1> USE DEF IInv
<1>1. PICK ok \in BOOLEAN, ancestors \in BOOLEAN :
         /\ IF Backed THEN ok /\ layer' = layer ELSE RemoveLayer(ok)
         /\ EndRun(IF state.cleanupFailed \/ ~ok THEN "ContainmentFailed"
                   ELSE IF ~ObjectIsTrusted THEN "Failed"
                   ELSE IF ~ancestors THEN "AncestorUntrusted" ELSE "Secured")
  BY DEF Finish
<1>2. /\ pc' = "idle" /\ state' = Unattempted
      /\ story' = [Looked EXCEPT !.registered = FALSE]
      /\ UNCHANGED <<dir, files, staged>>
  BY <1>1 DEF Finish, EndRun, disk
<1>3. Shapes'
  BY <1>2 DEF Shapes, StoryFields, StateFields, Unattempted, Looked
<1>4. Closed'
  <2>1. CASE ~Backed
    BY <1>1, <2>1 DEF EndRun, RemoveLayer, Closed
  <2>2. CASE Backed
    <3>1. Full'
      BY <1>2, <2>2, BackedIsFull DEF Full
    <3>2. result' \in {"ContainmentFailed", "AncestorUntrusted", "Secured"}
      BY <1>1, <2>2 DEF EndRun, Backed
    <3>. QED
      BY <3>1, <3>2 DEF Closed
  <2>. QED
    BY <2>1, <2>2
<1>5. Attempted' /\ Contained' /\ ResultAtEnd'
  BY <1>2 DEF Attempted, Contained, ResultAtEnd
<1>. QED
  BY <1>3, <1>4, <1>5

\* The pairs: what is staged is ours.
LEMMA PairsKeep ==
    ASSUME IInv,
           \/ BeginPublish \/ KeepPair \/ StartPair \/ InstallManifest \/ InstallDll
    PROVE  IInv'
<1> USE DEF IInv
<1>1. /\ pc \in {"switch", "pair", "manifest", "dll"}
      /\ pc' \in {"pair", "manifest", "dll"}
      /\ UNCHANGED <<layer, state, result, resolved>>
  BY DEF BeginPublish, KeepPair, StartPair, InstallManifest, InstallDll, run
<1>2. result = "none"
  BY <1>1 DEF ResultAtEnd
<1>3. Attempted' /\ Contained' /\ ResultAtEnd' /\ Closed'
  BY <1>1, <1>2 DEF Attempted, Contained, ResultAtEnd, Closed
<1>4. /\ DOMAIN staged' = Files
      /\ \A f \in Files : staged'[f] = NoFile \/ staged'[f].acl = "inherit"
  <2>1. CASE staged' = staged
    BY <2>1 DEF Shapes, StoryFields, StateFields
  <2>2. ASSUME NEW fs, NEW kept, DiscardStaged(fs, kept)
        PROVE  /\ DOMAIN staged' = Files
               /\ \A f \in Files : staged'[f] = NoFile \/ staged'[f].acl = "inherit"
    BY <2>2, DiscardedIsClean
  <2>3. ASSUME NEW f, Stage(f) \/ InstallFails(f)
        PROVE  /\ DOMAIN staged' = Files
               /\ \A g \in Files : staged'[g] = NoFile \/ staged'[g].acl = "inherit"
    <3>1. PICK left \in {staged[f], NoFile, Ours(f[1])} : staged' = [staged EXCEPT ![f] = left]
      BY <2>3 DEF Stage, InstallFails
    <3>2. Ours(f[1]).acl = "inherit"
      BY DEF Ours
    <3>3. \A g \in Files : staged'[g] \in {staged[g], NoFile, Ours(f[1])}
      BY <3>1 DEF Shapes, StoryFields, StateFields
    <3>4. DOMAIN staged' = Files
      BY <3>1 DEF Shapes, StoryFields, StateFields
    <3>. QED
      BY <3>2, <3>3, <3>4 DEF Shapes, StoryFields, StateFields
  <2>4. ASSUME NEW f, InstallHookFile(f)
        PROVE  \/ Stage(f) \/ InstallFails(f)
               \/ \E kept \in SUBSET {f} : DiscardStaged({f}, kept)
    BY <2>4 DEF InstallHookFile, Install
  <2>5. CASE BeginPublish \/ StartPair
    BY <2>1, <2>5 DEF BeginPublish, StartPair, disk
  <2>6. CASE KeepPair
    BY <2>2, <2>6 DEF KeepPair
  <2>7. CASE InstallManifest \/ InstallDll
    BY <2>1, <2>2, <2>3, <2>4, <2>7 DEF InstallManifest, InstallDll
  <2>. QED
    BY <2>5, <2>6, <2>7
<1>5. DOMAIN files' = Files
  <2>1. ASSUME NEW f, InstallHookFile(f) PROVE DOMAIN files' = Files
    <3>1. \/ files' = files \/ files' = [files EXCEPT ![f] = NoFile]
          \/ files' = [files EXCEPT ![f] = Ours(f[1])]
      BY <2>1 DEF InstallHookFile, Install, Stage, InstallFails, FileLeftOrDeleted
    <3>. QED
      BY <3>1 DEF Shapes, StoryFields, StateFields
  <2>2. CASE BeginPublish \/ StartPair \/ KeepPair
    BY <2>2 DEF BeginPublish, StartPair, KeepPair, disk, Shapes, StoryFields, StateFields
  <2>3. CASE InstallManifest \/ InstallDll
    BY <2>1, <2>3 DEF InstallManifest, InstallDll
  <2>. QED
    BY <2>2, <2>3
<1>6. DOMAIN story' = StoryFields
  <2>1. ASSUME NEW f, InstallHookFile(f) PROVE DOMAIN story' = StoryFields
    <3>1. \E done, kept :
             story' = Told(f, done, kept) \/ story' = Replaced({f}, Told(f, done, kept))
      BY <2>1 DEF InstallHookFile, Install, Stage, InstallFails
    <3>2. \A done, kept : /\ DOMAIN Told(f, done, kept) = DOMAIN story
                          /\ DOMAIN Replaced({f}, Told(f, done, kept)) = DOMAIN story
      BY DEF Told, Replaced
    <3>. QED
      BY <3>1, <3>2 DEF Shapes, StoryFields, StateFields
  <2>2. CASE BeginPublish \/ StartPair \/ KeepPair
    BY <2>2 DEF BeginPublish, StartPair, KeepPair, Shapes, StoryFields, StateFields
  <2>3. CASE InstallManifest \/ InstallDll
    BY <2>1, <2>3 DEF InstallManifest, InstallDll
  <2>. QED
    BY <2>2, <2>3
<1>7. Shapes'
  BY <1>1, <1>4, <1>5, <1>6 DEF Shapes, StoryFields, StateFields
<1>. QED
  BY <1>3, <1>7

-----------------------------------------------------------------------------
\* The other programs leave the updater where it is.

\* What the invariant asks of a step of somebody else.
LEMMA ElsewhereKeeps ==
    ASSUME IInv, Shapes', UNCHANGED <<pc, state, result, resolved>>,
           (layer = {} \/ story.registered) => (layer' = {} \/ story'.registered),
           (story.disturbed \/ Full) => (story'.disturbed \/ Full')
    PROVE  IInv'
<1>1. Attempted' /\ Contained' /\ ResultAtEnd'
  BY DEF IInv, Attempted, Contained, ResultAtEnd
<1>2. Closed'
  BY DEF IInv, Closed
<1>. QED
  BY <1>1, <1>2 DEF IInv

\* The fields of a story in which files were replaced
LEMMA ReplacedLabels ==
    ASSUME NEW st, DOMAIN st = StoryFields, NEW fs
    PROVE  /\ DOMAIN Replaced(fs, st) = StoryFields
           /\ Replaced(fs, st).foreign = st.foreign \ fs
           /\ Replaced(fs, st).undeleted = st.undeleted \ fs
           /\ Replaced(fs, st).disturbed = st.disturbed
           /\ Replaced(fs, st).registered = st.registered
BY DEF Replaced, StoryFields

\* What others do to the files is told, and labels go with the files that are replaced.
LEMMA MeddlingIsTold ==
    ASSUME Shapes, GiveAway \/ AnyoneWrites \/ OtherInstalls
    PROVE  /\ DOMAIN story' = StoryFields
           /\ story'.disturbed /\ story'.registered = story.registered
           /\ \E fs : /\ story'.foreign = story.foreign \ fs
                     /\ story'.undeleted = story.undeleted \ fs
<1>1. /\ DOMAIN Disturbed = StoryFields
      /\ Disturbed.disturbed /\ Disturbed.registered = story.registered
      /\ Disturbed.foreign = story.foreign /\ Disturbed.undeleted = story.undeleted
  BY DEF Shapes, StoryFields, Disturbed
<1>2. CASE GiveAway
  <2>1. story' = Disturbed
    BY <1>2 DEF GiveAway
  <2>2. story'.foreign = story.foreign \ {} /\ story'.undeleted = story.undeleted \ {}
    BY <1>1, <2>1
  <2>. QED
    BY <1>1, <2>1, <2>2
<1>3. CASE AnyoneWrites
  <2>1. PICK f : story' = Replaced({f}, Disturbed)
    BY <1>3 DEF AnyoneWrites
  <2>. QED
    BY <1>1, <2>1, ReplacedLabels
<1>4. CASE OtherInstalls
  <2>1. PICK p \in Pairs :
           story' = [Replaced({Dll(p), Manifest(p)}, Disturbed) EXCEPT
                       !.unsettled = IF Meets(p) THEN @ \cup {p} ELSE @ \ {p},
                       !.undiscarded = @ \ {p}]
    BY <1>4 DEF OtherInstalls
  <2>. DEFINE fs == {Dll(p), Manifest(p)}
              st == Replaced(fs, Disturbed)
  <2>2. /\ DOMAIN st = StoryFields
        /\ st.foreign = story.foreign \ fs /\ st.undeleted = story.undeleted \ fs
        /\ st.disturbed /\ st.registered = story.registered
    BY <1>1, ReplacedLabels
  <2>3. /\ DOMAIN story' = DOMAIN st
        /\ \A x \in DOMAIN st \ {"unsettled", "undiscarded"} : story'[x] = st[x]
    BY <2>1
  <2>. HIDE DEF st
  <2>4. {"foreign", "undeleted", "disturbed", "registered"}
           \subseteq DOMAIN st \ {"unsettled", "undiscarded"}
    BY <2>2 DEF StoryFields
  <2>. QED
    BY <2>2, <2>3, <2>4
<1>. QED
  BY <1>2, <1>3, <1>4

\* They give the directory away, write into it, install their own files: all of
\* that after our last look is told.
LEMMA MeddlingKeeps ==
    ASSUME IInv, GiveAway \/ AnyoneWrites \/ OtherInstalls
    PROVE  IInv'
<1>1. UNCHANGED <<pc, state, result, layer, resolved>>
  BY DEF GiveAway, AnyoneWrites, OtherInstalls, Change, run
<1>3. DOMAIN story' = StoryFields /\ story'.disturbed /\ story'.registered = story.registered
  BY MeddlingIsTold DEF IInv
<1>4. DOMAIN files' = Files
  BY DEF GiveAway, AnyoneWrites, OtherInstalls, IInv, Shapes, StoryFields, StateFields
<1>5. /\ DOMAIN staged' = Files
      /\ \A f \in Files : staged'[f] = NoFile \/ staged'[f].acl = "inherit"
  <2>1. CASE GiveAway \/ AnyoneWrites
    BY <2>1 DEF GiveAway, AnyoneWrites, IInv, Shapes, StoryFields, StateFields
  <2>2. CASE OtherInstalls
    <3>1. PICK p \in Pairs : DiscardStaged({Dll(p), Manifest(p)}, {})
      BY <2>2 DEF OtherInstalls
    <3>. QED
      BY <3>1, DiscardedIsClean DEF IInv
  <2>. QED
    BY <2>1, <2>2
<1>6. Shapes'
  BY <1>1, <1>3, <1>4, <1>5 DEF IInv, Shapes, StoryFields, StateFields
<1>. QED
  BY <1>1, <1>3, <1>6, ElsewhereKeeps

\* They register the layer, open files and close them.
LEMMA UsingKeeps ==
    ASSUME IInv, OtherRegisters \/ Hold \/ Release
    PROVE  IInv'
<1>1. UNCHANGED <<pc, state, result, dir, files, staged, resolved>>
  BY DEF OtherRegisters, Hold, Release, Change, run
<1>2. story' = [story EXCEPT !.registered = TRUE] \/ UNCHANGED <<story, layer>>
  BY DEF OtherRegisters, Hold, Release
<1>3. Shapes'
  BY <1>1, <1>2 DEF IInv, Shapes, StoryFields, StateFields
<1>4. /\ story'.disturbed = story.disturbed
      /\ story'.registered \/ UNCHANGED <<story, layer>>
  BY <1>2 DEF IInv, Shapes, StoryFields, StateFields
<1>5. Full' = Full
  BY <1>1 DEF Full
<1>. QED
  BY <1>1, <1>3, <1>4, <1>5, ElsewhereKeeps

\* What the system moves into place at a reboot was written by an updater.
LEMMA RebootKeeps == ASSUME IInv, Reboot PROVE IInv'
<1> DEFINE moved == {f \in pending : staged[f] # NoFile}
<1>1. /\ UNCHANGED <<pc, state, result, layer, dir, resolved>>
      /\ files' = [f \in Files |-> IF f \in moved THEN staged[f] ELSE files[f]]
      /\ staged' = [f \in Files |-> IF f \in moved THEN NoFile ELSE staged[f]]
  BY DEF Reboot, run
<1>2. \E d : story' = [Replaced(moved, story) EXCEPT !.downgraded = d]
  BY DEF Reboot
<1>3. /\ DOMAIN story' = StoryFields
      /\ story'.disturbed = story.disturbed /\ story'.registered = story.registered
  BY <1>2 DEF IInv, Shapes, StoryFields, StateFields, Replaced
<1>4. Shapes'
  BY <1>1, <1>3 DEF IInv, Shapes, StoryFields, StateFields
<1>5. ASSUME Full PROVE Full'
  <2>1. \A f \in moved \cap Files : staged[f].acl = "inherit"
    BY DEF IInv, Shapes, StoryFields, StateFields
  <2>2. \A f \in Files : files'[f].acl = "inherit"
    BY <1>1, <1>5, <2>1 DEF Full
  <2>. QED
    BY <1>1, <1>5, <2>2 DEF Full
<1>. QED
  BY <1>1, <1>3, <1>4, <1>5, ElsewhereKeeps

-----------------------------------------------------------------------------

\* Every step keeps the invariant.
LEMMA NextKeeps == IInv /\ [Next]_vars => IInv'
<1> SUFFICES ASSUME IInv, [Next]_vars PROVE IInv'
  OBVIOUS
<1>1. CASE Secure
  BY <1>1, GiveUpKeeps, SecuringKeeps, ContainKeeps, PurgeKeeps DEF Secure
<1>2. CASE Publish
  BY <1>2, PublishStartKeeps, RefuseKeeps, PairsKeep, FinishKeeps DEF Publish
<1>3. CASE StartRun \/ Proceed \/ AskAgain \/ DownloadDone \/ UpdateFails
  BY <1>3, CallersKeep
<1>4. CASE Others
  BY <1>4, MeddlingKeeps, UsingKeeps, RebootKeeps DEF Others
<1>5. CASE UNCHANGED vars
  BY <1>5 DEF vars, IInv, Shapes, StoryFields, StateFields, Attempted, Contained,
              ResultAtEnd, Closed, Full
<1>. QED
  BY <1>1, <1>2, <1>3, <1>4, <1>5 DEF Next, Updater

\* The invariant holds in every state.
LEMMA Invariant == Spec => []IInv
BY InitInv, NextKeeps, PTL DEF Spec

\* What an installation adds to the story, field by field
LEMMA ToldLabels ==
    ASSUME Shapes, Labelled, NEW f, NEW done, NEW kept
    PROVE  /\ Told(f, done, kept).foreign \subseteq Told(f, done, kept).undeleted
           /\ DOMAIN Told(f, done, kept) = StoryFields
<1>. DEFINE fs == IF files'[f] = files[f] THEN {} ELSE {f}
<1>1. /\ Told(f, done, kept).foreign = story.foreign \ fs
      /\ Told(f, done, kept).undeleted = story.undeleted \ fs
      /\ DOMAIN Told(f, done, kept) = StoryFields
  BY DEF Told, Shapes, StoryFields
<1>. QED
  BY <1>1 DEF Labelled

\* A file is deleted by what was found before the hardening: it is gone, or its deletion
\* failed (the purge in secure_hook_directory).
LEMMA PurgeLabels == ASSUME IInv, Labelled, Purge PROVE Labelled'
<1>1. PICK stays \in SUBSET FoundUntrusted :
         /\ files' = [f \in Files |-> IF f \in FoundUntrusted \ stays THEN NoFile ELSE files[f]]
         /\ story' = [story EXCEPT
                        !.undeleted = (@ \ FoundUntrusted) \cup stays,
                        !.foreign = {f \in @ \cup (Files \ sample.files) : files'[f] # NoFile}]
  BY DEF Purge
<1>2. /\ story'.undeleted = (story.undeleted \ FoundUntrusted) \cup stays
      /\ story'.foreign = {f \in story.foreign \cup (Files \ sample.files) : files'[f] # NoFile}
  BY <1>1 DEF IInv, Shapes, StoryFields
<1>3. \A f \in FoundUntrusted : f \in stays \/ files'[f] = NoFile
  BY <1>1 DEF FoundUntrusted
<1>. QED
  BY <1>2, <1>3 DEF Labelled, FoundUntrusted

\* Whatever replaces a file replaces its label.
LEMMA LabelsStep == IInv /\ Labelled /\ [Next]_vars => Labelled'
<1> SUFFICES ASSUME IInv, Labelled, [Next]_vars PROVE Labelled'
  OBVIOUS
<1>. USE DEF Labelled
<1>1. CASE Purge
  BY <1>1, PurgeLabels
<1>2. CASE InstallManifest \/ InstallDll
  <2>1. \E f, done, kept : \/ story' = Told(f, done, kept)
                           \/ story' = Replaced({f}, Told(f, done, kept))
    BY <1>2 DEF InstallManifest, InstallDll, InstallHookFile, Install, Stage, InstallFails
  <2>2. PICK f, done, kept : \/ story' = Told(f, done, kept)
                             \/ story' = Replaced({f}, Told(f, done, kept))
    BY <2>1
  <2>3. /\ Told(f, done, kept).foreign \subseteq Told(f, done, kept).undeleted
        /\ DOMAIN Told(f, done, kept) = StoryFields
    BY ToldLabels DEF IInv
  <2>4. /\ Replaced({f}, Told(f, done, kept)).foreign = Told(f, done, kept).foreign \ {f}
        /\ Replaced({f}, Told(f, done, kept)).undeleted = Told(f, done, kept).undeleted \ {f}
    BY <2>3, ReplacedLabels
  <2>. QED
    BY <2>2, <2>3, <2>4
<1>3. CASE QuarantineMoves
  BY <1>3 DEF QuarantineMoves, IInv, Shapes, StoryFields
<1>4. CASE AnyoneWrites \/ OtherInstalls
  <2>1. \E fs : /\ story'.foreign = story.foreign \ fs
               /\ story'.undeleted = story.undeleted \ fs
    BY <1>4, MeddlingIsTold DEF IInv
  <2>. QED
    BY <2>1
<1>5. CASE Reboot
  <2>1. \E fs, d : story' = [Replaced(fs, story) EXCEPT !.downgraded = d]
    BY <1>5 DEF Reboot
  <2>. QED
    BY <2>1 DEF IInv, Shapes, StoryFields, Replaced
<1>6. CASE KeepPair \/ StartPair
  <2>1. \E u, k, b : story' = [story EXCEPT !.unsettled = u, !.undiscarded = k, !.believed = b]
    BY <1>6 DEF KeepPair, StartPair
  <2>. QED
    BY <2>1 DEF IInv, Shapes, StoryFields
<1>7. CASE ~(Purge \/ InstallManifest \/ InstallDll \/ QuarantineMoves \/ AnyoneWrites
             \/ OtherInstalls \/ Reboot \/ KeepPair \/ StartPair)
  <2>1. \/ UNCHANGED story
        \/ story' \in {Looked, Disturbed, [Looked EXCEPT !.registered = FALSE],
                      [story EXCEPT !.registered = FALSE], [story EXCEPT !.registered = TRUE]}
    BY <1>7 DEF Next, vars, StartRun, Updater, Secure, GiveUp, Sample, Unlink, KeepDirectory,
       QuarantineRefused, Harden, HardenFails, Contain, Proceed, AskAgain, DownloadDone,
       UpdateFails, Publish, PublishStart, Refuse, BeginPublish, Finish, Others, GiveAway,
       OtherRegisters, Hold, Release
  <2>. QED
    BY <2>1 DEF IInv, Shapes, StoryFields, Looked, Disturbed
<1>. QED
  BY <1>1, <1>2, <1>3, <1>4, <1>5, <1>6, <1>7

LEMMA Labels == Spec => []Labelled
<1>1. Init => Labelled
  BY DEF Init, Labelled
<1>. QED
  BY <1>1, LabelsStep, Invariant, PTL DEF Spec

\* When a run has ended the layer is unregistered, or points at a directory that
\* is ours with a full set of trusted files, or the run says that it could not be
\* removed: whatever the other programs did meanwhile, except for a registration
\* of their own and what they did after the last look (secure_hook_directory and
\* publish_hook_payload). A trusted file was never found untrusted, or its deletion
\* failed then and it inherits what was applied since; a run that could not resolve
\* the directory promises nothing.
THEOREM FailsClosedAlways == Spec => []FailsClosed
<1>1. IInv /\ Labelled => FailsClosed
  BY DEF IInv, Closed, Full, FailsClosed, Labelled, Vouched, Relabelled
<1>. QED
  BY <1>1, Invariant, Labels, PTL

-----------------------------------------------------------------------------
(* What is published: the invariant *)

\* The types of the variables, in the parts that the lemmas change one by one
States == [attempted : BOOLEAN, outcome : Outcomes, pairWasTrusted : SUBSET Pairs,
           quarantineError : {"none", "denied", "sharing", "other"},
           cleanupFailed : BOOLEAN]

Stories == [disturbed : BOOLEAN, registered : BOOLEAN, wroteTheirs : BOOLEAN,
            downgraded : BOOLEAN, unsettled : SUBSET Pairs, believed : SUBSET Pairs,
            undiscarded : SUBSET Pairs, foreign : SUBSET Files, undeleted : SUBSET Files]

DiskOK ==
    /\ dir \in DirKind
    /\ files \in [Files -> File] /\ staged \in [Files -> File]
    /\ pending \in SUBSET Files /\ held \in SUBSET (Files \cup {TheDirectory})
    /\ layer \in SUBSET Pairs

ControlOK ==
    /\ pc \in {"idle", "sample", "replace", "create", "contain", "purge", "answer",
               "download", "publish", "switch", "pair", "manifest", "dll", "final"}
    /\ resolved \in BOOLEAN
    /\ caller \in {"client", "publisher"}
    /\ sample \in [dir : BOOLEAN, files : SUBSET Files]
    /\ payload \in [Pairs -> 0..MaxVersion] /\ todo \in SUBSET Pairs
    /\ result \in Results \cup {"none"}
    /\ runs \in 0..MaxRuns /\ changes \in 0..MaxChanges

\* A directory that could not be secured is not published into, and one that was is still
\* trusted, or somebody has given it away since the last look at it.
Guarded ==
    /\ pc \in {"replace", "create", "contain", "purge"} => state.outcome # "Secured"
    /\ pc \in {"pair", "manifest", "dll"} => state.outcome = "Secured"
    /\ pc = "purge" => ObjectIsTrusted \/ story.disturbed
    /\ pc \in {"switch", "pair", "manifest", "dll"} /\ state.outcome = "Secured" =>
          ObjectIsTrusted \/ story.disturbed

\* There is a pair in hand while its files are installed, and something to install for it.
ToPublish ==
    /\ pc \in {"manifest", "dll"} => todo # {}
    /\ pc \in {"pair", "manifest", "dll"} => \A p \in todo : payload[p] # 0

\* The pair whose files are being installed
InProgress == IF pc \in {"manifest", "dll"} THEN {NextPair} ELSE {}

\* What a file will be after the next reboot
AfterReboot(f) == IF staged[f] # NoFile THEN staged[f] ELSE files[f]

\* The story tells of a failed or disturbed installation, or of a copy left in the queue.
Loose == story.unsettled \cup story.undiscarded

\* What is staged is queued for the reboot.
InQueue(f) == staged[f] # NoFile => f \in pending

Queued == \A p \in Pairs \ (Loose \cup InProgress) : InQueue(Dll(p)) /\ InQueue(Manifest(p))

\* Of two files that nobody else can write to: one version
Fit(m, n) == m.acl = "inherit" /\ n.acl = "inherit" => m.version = n.version

\* After the next reboot, the library and the manifest are of one version,
Matched(p)     == Fit(AfterReboot(Dll(p)), AfterReboot(Manifest(p)))
\* what is queued for the library is not older than the library in place,
NotOlder(p)    == staged[Dll(p)] # NoFile /\ files[Dll(p)].acl = "inherit" =>
                      staged[Dll(p)].version >= files[Dll(p)].version
\* what is in place is older than what is going to be installed,
NotNewer(p)    == files[Dll(p)].acl = "inherit" =>
                      files[Dll(p)].version < payload[p]
\* and the manifest is the one that goes with the library to come.
HalfDone(p)    == Fit(AfterReboot(Manifest(p)), Ours(p))

\* The pairs match, all but the one in progress and those told apart in the story.
PairsMatch == \A p \in Pairs \ (Loose \cup InProgress) : Matched(p)

NothingOlderQueued ==
    \A p \in story.believed \ (Loose \cup InProgress) : NotOlder(p)

\* A pair that was believed when its version was read is older than what replaces it.
PairInProgress ==
    \A p \in InProgress :
        /\ p \in story.believed => p \in state.pairWasTrusted
        /\ p \in state.pairWasTrusted \ story.unsettled => NotNewer(p)
        /\ pc = "dll" /\ p \notin Loose => HalfDone(p) /\ InQueue(Manifest(p))

Publishing == Queued /\ PairsMatch /\ NothingOlderQueued /\ PairInProgress

\* The inductive invariant of what is published
PublishInv ==
    /\ TypeOK /\ Guarded /\ ToPublish /\ Publishing
    /\ NothingIntoDrifted /\ NewestWins

\* The type invariant in the parts of the lemmas
LEMMA TypeParts == TypeOK <=> DiskOK /\ ControlOK /\ state \in States /\ story \in Stories
BY DEF TypeOK, DiskOK, ControlOK, States, Stories

-----------------------------------------------------------------------------
(* The operators *)

\* A pair has two files, its own.
LEMMA PairFiles ==
    /\ \A p \in Pairs : Dll(p) \in Files /\ Manifest(p) \in Files
                        /\ Dll(p)[1] = p /\ Manifest(p)[1] = p
    /\ \A p, q \in Pairs : Dll(p) # Manifest(q)
    /\ \A p, q \in Pairs : Dll(p) = Dll(q) => p = q
    /\ \A p, q \in Pairs : Manifest(p) = Manifest(q) => p = q
    /\ \A f \in Files : \E p \in Pairs : f = Dll(p) \/ f = Manifest(p)
BY DEF Files, Dll, Manifest

\* A file that is there has a version.
LEMMA FileFields ==
    ASSUME NEW g \in File
    PROVE  /\ g.version \in 0 .. MaxVersion /\ g.acl \in {"none", "inherit", "open"}
           /\ g.acl = "inherit" => g.version \in 1 .. MaxVersion
           /\ g = NoFile \/ g.acl # "none"
           /\ NoFile \in File /\ NoFile.acl = "none"
BY HookDirAssumption DEF File, NoFile

\* What the updater writes is a file that inherits.
LEMMA OursIsFile ==
    ASSUME NEW p \in Pairs, payload \in [Pairs -> 0 .. MaxVersion], payload[p] # 0
    PROVE  /\ Ours(p) \in File /\ Ours(p) # NoFile
           /\ Ours(p).acl = "inherit" /\ Ours(p).version = payload[p]
<1>1. payload[p] \in 1 .. MaxVersion
  BY HookDirAssumption
<1>. QED
  BY <1>1 DEF Ours, File, NoFile

\* What the story tells of an installation: a directory that is not ours is noted only
\* where nobody gave it away, a downgrade only of a library that was believed.
LEMMA ToldFields ==
    ASSUME story \in Stories, NEW f \in Files, NEW done \in BOOLEAN, NEW kept
    PROVE  /\ Told(f, done, kept) \in Stories
           /\ Told(f, done, kept).disturbed = story.disturbed
           /\ Told(f, done, kept).believed = story.believed
           /\ done => Told(f, done, kept).unsettled = story.unsettled
           /\ ~done => Told(f, done, kept).unsettled = story.unsettled \cup {f[1]}
           /\ kept = {} => Told(f, done, kept).undiscarded = story.undiscarded
           /\ kept # {} => Told(f, done, kept).undiscarded = story.undiscarded \cup {f[1]}
           /\ (ObjectIsTrusted \/ story.disturbed) =>
                 Told(f, done, kept).wroteTheirs = story.wroteTheirs
           /\ (\/ \E p \in Pairs : f = Manifest(p)
               \/ ~FileIsTrusted(f)
               \/ f[1] \notin state.pairWasTrusted \ story.unsettled
               \/ ~(FileVersion(f) > payload[f[1]])) =>
                 Told(f, done, kept).downgraded = story.downgraded
<1>. DEFINE p == f[1]
            theirs == ~ObjectIsTrusted /\ ~story.disturbed
            newer == /\ f = Dll(p) /\ FileIsTrusted(f)
                     /\ FileVersion(f) > payload[p]
                     /\ p \in state.pairWasTrusted \ story.unsettled
            w == story.wroteTheirs \/ theirs
            d == story.downgraded \/ newer
            u == IF done THEN story.unsettled ELSE story.unsettled \cup {p}
            k == IF kept = {} THEN story.undiscarded ELSE story.undiscarded \cup {p}
            x == IF files'[f] = files[f] THEN story.foreign ELSE story.foreign \ {f}
            y == IF files'[f] = files[f] THEN story.undeleted ELSE story.undeleted \ {f}
<1>1. Told(f, done, kept) = [story EXCEPT !.wroteTheirs = w, !.downgraded = d, !.unsettled = u,
                                          !.undiscarded = k, !.foreign = x, !.undeleted = y]
  BY DEF Told
<1>2. w \in BOOLEAN /\ d \in BOOLEAN
  OBVIOUS
<1>3. p \in Pairs
  BY DEF Files
<1>4. u \in SUBSET Pairs /\ (done => u = story.unsettled)
      /\ (~done => u = story.unsettled \cup {p})
  BY <1>3 DEF Stories
<1>10. k \in SUBSET Pairs /\ (kept = {} => k = story.undiscarded)
       /\ (kept # {} => k = story.undiscarded \cup {p})
  BY <1>3 DEF Stories
<1>11. x \in SUBSET Files /\ y \in SUBSET Files
  BY DEF Stories
<1>5. (ObjectIsTrusted \/ story.disturbed) => w = story.wroteTheirs
  BY DEF Stories
<1>6. (\E q \in Pairs : f = Manifest(q)) => ~newer
  BY <1>3, PairFiles
<1>7. ~newer => d = story.downgraded
  <2>. HIDE DEF newer
  <2>. QED
    BY DEF Stories
<1>8. (\/ \E q \in Pairs : f = Manifest(q)
       \/ ~FileIsTrusted(f)
       \/ p \notin state.pairWasTrusted \ story.unsettled
       \/ ~(FileVersion(f) > payload[p])) => d = story.downgraded
  BY <1>6, <1>7
<1>. HIDE DEF w, d, u, k, x, y, theirs, newer
<1>9. /\ Told(f, done, kept) \in Stories
      /\ Told(f, done, kept).disturbed = story.disturbed
      /\ Told(f, done, kept).believed = story.believed
      /\ Told(f, done, kept).wroteTheirs = w /\ Told(f, done, kept).downgraded = d
      /\ Told(f, done, kept).unsettled = u /\ Told(f, done, kept).undiscarded = k
  BY <1>1, <1>2, <1>4, <1>10, <1>11 DEF Stories
<1>. QED
  BY <1>4, <1>5, <1>8, <1>9, <1>10

\* A file that is replaced loses its labels, and the story nothing else.
LEMMA ReplacedFields ==
    ASSUME NEW st \in Stories, NEW fs
    PROVE  /\ Replaced(fs, st) \in Stories
           /\ Replaced(fs, st).disturbed = st.disturbed
           /\ Replaced(fs, st).believed = st.believed
           /\ Replaced(fs, st).unsettled = st.unsettled
           /\ Replaced(fs, st).undiscarded = st.undiscarded
           /\ Replaced(fs, st).wroteTheirs = st.wroteTheirs
           /\ Replaced(fs, st).downgraded = st.downgraded
BY DEF Replaced, Stories

\* discard_staged removes what is staged, and nothing else.
LEMMA DiscardFields ==
    ASSUME staged \in [Files -> File], NEW fs, NEW kept, DiscardStaged(fs, kept)
    PROVE  /\ staged' \in [Files -> File] /\ kept \subseteq fs
           /\ \A f \in Files : staged'[f] = IF f \in fs \ kept THEN NoFile ELSE staged[f]
<1>1. NoFile \in File
  BY DEF File
<1>2. staged' = [f \in Files |-> IF f \in fs \ kept THEN NoFile ELSE staged[f]]
  BY DEF DiscardStaged
<1>3. kept \subseteq fs
  BY DEF DiscardStaged
<1>4. /\ staged' \in [Files -> File]
      /\ \A f \in Files : staged'[f] = IF f \in fs \ kept THEN NoFile ELSE staged[f]
  BY <1>1, <1>2
<1>. QED
  BY <1>3, <1>4

\* install_hook_file: the file is there at once, or staged for the reboot, or it failed; no
\* other file changes.
LEMMA InstallFields ==
    ASSUME DiskOK, payload \in [Pairs -> 0 .. MaxVersion], NEW p \in Pairs, payload[p] # 0,
           NEW f \in {Dll(p), Manifest(p)}, InstallHookFile(f)
    PROVE  /\ files' \in [Files -> File] /\ staged' \in [Files -> File]
           /\ pending' \in SUBSET Files /\ pending \subseteq pending'
           /\ \A g \in Files \ {f} : files'[g] = files[g] /\ staged'[g] = staged[g]
           /\ files'[f] \in {files[f], NoFile, Ours(p)}
           /\ \E done \in BOOLEAN, kept \in SUBSET {f} :
                 /\ \/ story' = Told(f, done, kept)
                    \/ story' = Replaced({f}, Told(f, done, kept))
                 /\ done /\ kept = {} =>
                       \/ staged'[f] = NoFile /\ files'[f] = Ours(p)
                       \/ staged'[f] = Ours(p) /\ f \in pending' /\ files'[f] \in {files[f], NoFile}
<1>. USE DEF DiskOK
<1>1. f \in Files /\ f[1] = p
  BY PairFiles
<1>2. /\ NoFile \in File /\ Ours(p) \in File
  BY FileFields, OursIsFile DEF File
<1>3. CASE Install(f)
  <2>1. PICK kept \in SUBSET {f} : /\ DiscardStaged({f}, kept)
                                  /\ story' = Replaced({f}, Told(f, TRUE, kept))
    BY <1>3 DEF Install
  <2>2. /\ staged' \in [Files -> File] /\ (kept = {} => staged'[f] = NoFile)
        /\ \A g \in Files \ {f} : staged'[g] = staged[g]
    BY <1>1, <2>1, DiscardFields
  <2>3. files' = [files EXCEPT ![f] = Ours(p)] /\ pending' = pending
    BY <1>1, <1>3 DEF Install
  <2>4. /\ files' \in [Files -> File] /\ files'[f] = Ours(p)
        /\ \A g \in Files \ {f} : files'[g] = files[g]
    BY <1>1, <1>2, <2>3
  <2>5. \E done \in BOOLEAN, still \in SUBSET {f} :
           /\ \/ story' = Told(f, done, still)
              \/ story' = Replaced({f}, Told(f, done, still))
           /\ done /\ still = {} => staged'[f] = NoFile /\ files'[f] = Ours(p)
    BY <2>1, <2>2, <2>4
  <2>. QED
    BY <2>2, <2>3, <2>4, <2>5
<1>4. ASSUME FileLeftOrDeleted(f)
      PROVE  /\ files' \in [Files -> File] /\ files'[f] \in {files[f], NoFile}
             /\ \A g \in Files \ {f} : files'[g] = files[g]
  <2>1. files' = files \/ files' = [files EXCEPT ![f] = NoFile]
    BY <1>4 DEF FileLeftOrDeleted
  <2>. QED
    BY <1>1, <1>2, <2>1
<1>5. CASE Stage(f)
  <2>1. /\ files' \in [Files -> File] /\ files'[f] \in {files[f], NoFile}
        /\ \A g \in Files \ {f} : files'[g] = files[g]
    BY <1>4, <1>5 DEF Stage
  <2>2. /\ staged' = [staged EXCEPT ![f] = Ours(p)] /\ pending' = pending \cup {f}
        /\ story' = Told(f, TRUE, {})
    BY <1>1, <1>5 DEF Stage
  <2>3. /\ staged' \in [Files -> File] /\ staged'[f] = Ours(p)
        /\ \A g \in Files \ {f} : staged'[g] = staged[g]
    BY <1>1, <1>2, <2>2
  <2>4. {} \in SUBSET {f} /\ TRUE \in BOOLEAN /\ f \in pending'
    BY <1>1, <2>2
  <2>5. \E done \in BOOLEAN, kept \in SUBSET {f} :
           /\ story' = Told(f, done, kept)
           /\ staged'[f] = Ours(p) /\ f \in pending' /\ files'[f] \in {files[f], NoFile}
    BY <2>1, <2>2, <2>3, <2>4
  <2>6. pending' \in SUBSET Files /\ pending \subseteq pending'
    BY <1>1, <2>2
  <2>. QED
    BY <2>1, <2>3, <2>5, <2>6
<1>6. CASE InstallFails(f)
  <2>1. /\ files' \in [Files -> File] /\ files'[f] \in {files[f], NoFile}
        /\ \A g \in Files \ {f} : files'[g] = files[g]
    BY <1>4, <1>6 DEF InstallFails
  <2>2. /\ staged' \in [Files -> File]
        /\ \A g \in Files \ {f} : staged'[g] = staged[g]
    <3>1. PICK left \in {staged[f], NoFile, Ours(p)} : staged' = [staged EXCEPT ![f] = left]
      BY <1>1, <1>6 DEF InstallFails
    <3>. QED
      BY <1>1, <1>2, <3>1
  <2>3. pending' = pending /\ story' = Told(f, FALSE, {})
    BY <1>6 DEF InstallFails
  <2>4. {} \in SUBSET {f} /\ FALSE \in BOOLEAN
    OBVIOUS
  <2>5. \E done \in BOOLEAN, kept \in SUBSET {f} : ~done /\ story' = Told(f, done, kept)
    BY <2>3, <2>4
  <2>. QED
    BY <2>1, <2>2, <2>3
<1>. QED
  BY <1>3, <1>5, <1>6 DEF InstallHookFile

-----------------------------------------------------------------------------
(* Which step changes what *)

\* The steps that change files
LEMMA FilesChange ==
    ASSUME [Next]_vars
    PROVE  \/ UNCHANGED <<files, staged, pending>>
           \/ QuarantineMoves \/ Purge \/ KeepPair \/ InstallManifest \/ InstallDll
           \/ AnyoneWrites \/ OtherInstalls \/ Reboot
BY DEF Next, vars, StartRun, Updater, Secure, GiveUp, Sample, Unlink, KeepDirectory,
   QuarantineRefused, Harden, HardenFails, Contain, Proceed, AskAgain, DownloadDone,
   UpdateFails, Publish, PublishStart, Refuse, BeginPublish, StartPair, Finish, EndRun,
   Others, GiveAway, OtherRegisters, Hold, Release, Change, disk

\* The steps that the story tells of
LEMMA StoryChange ==
    ASSUME [Next]_vars
    PROVE  \/ UNCHANGED story
           \/ Sample \/ Contain \/ PublishStart \/ KeepPair \/ StartPair \/ InstallManifest
           \/ InstallDll \/ Finish \/ GiveAway \/ AnyoneWrites \/ OtherInstalls
           \/ OtherRegisters \/ Reboot \/ QuarantineMoves \/ Purge
BY DEF Next, vars, StartRun, Updater, Secure, GiveUp, Unlink, KeepDirectory,
   QuarantineRefused, Harden, HardenFails, Proceed, AskAgain, DownloadDone,
   UpdateFails, Publish, Refuse, BeginPublish, Others, Hold, Release

\* The steps that change the state of the repair
LEMMA StateChange ==
    ASSUME [Next]_vars
    PROVE  \/ UNCHANGED state
           \/ GiveUp \/ Sample \/ QuarantineRefused \/ Contain \/ Purge
           \/ state' = Unattempted /\ pc' \in {"sample", "publish", "idle"}
BY DEF Next, vars, StartRun, Updater, Secure, Unlink, KeepDirectory, QuarantineMoves,
   Harden, HardenFails, Proceed, AskAgain, DownloadDone, UpdateFails, Publish,
   PublishStart, Refuse, BeginPublish, KeepPair, StartPair, InstallManifest, InstallDll,
   Finish, EndRun, Others, GiveAway, AnyoneWrites, OtherInstalls, OtherRegisters, Hold,
   Release, Reboot, Change

\* The files of the application are looked at when the publishing begins.
LEMMA PayloadChange ==
    ASSUME [Next]_vars
    PROVE  UNCHANGED payload \/ BeginPublish \/ Refuse \/ Finish
BY DEF Next, vars, StartRun, Updater, Secure, GiveUp, Sample, Unlink, KeepDirectory, QuarantineMoves,
   QuarantineRefused, Harden, HardenFails, Contain, Purge, Proceed, AskAgain,
   DownloadDone, UpdateFails, Publish, PublishStart, KeepPair, StartPair,
   InstallManifest, InstallDll, Others, GiveAway, AnyoneWrites, OtherInstalls,
   OtherRegisters, Hold, Release, Reboot, Change, run

\* The pairs to publish are chosen once and done one by one.
LEMMA TodoChange ==
    ASSUME [Next]_vars
    PROVE  UNCHANGED todo \/ StartRun \/ BeginPublish \/ KeepPair \/ InstallDll
BY DEF Next, vars, Updater, Secure, GiveUp, Sample, Unlink, KeepDirectory, QuarantineMoves,
   QuarantineRefused, Harden, HardenFails, Contain, Purge, Proceed, AskAgain,
   DownloadDone, UpdateFails, Publish, PublishStart, Refuse, StartPair,
   InstallManifest, Finish, EndRun, Others, GiveAway, AnyoneWrites, OtherInstalls,
   OtherRegisters, Hold, Release, Reboot, Change

\* Where a step of the updater leads
LEMMA Course ==
    ASSUME [Next]_vars
    PROVE  \/ UNCHANGED pc
           \/ pc' \in {"idle", "sample", "answer", "download", "publish"}
           \/ GiveUp /\ pc = "sample" /\ pc' = "switch"
           \/ pc = "sample" /\ pc' = "replace" /\ Sample
           \/ pc = "replace" /\ pc' \in {"create", "contain"}
           \/ pc = "create" /\ pc' = "contain"
           \/ Harden /\ pc = "create" /\ pc' = "purge"
           \/ (Contain \/ Purge) /\ pc \in {"contain", "purge"} /\ pc' = "switch"
           \/ PublishStart /\ pc' = "switch"
           \/ BeginPublish /\ pc' = "pair"
           \/ StartPair /\ pc = "pair" /\ pc' = "manifest"
           \/ InstallManifest /\ pc = "manifest" /\ pc' = "dll"
           \/ InstallDll /\ pc = "dll" /\ pc' = "pair"
<1>6. CASE GiveUp \/ Contain \/ Purge
  <2>1. /\ GiveUp => pc = "sample"
        /\ Contain => pc = "contain"
        /\ Purge => pc = "purge"
    BY DEF GiveUp, Contain, Purge
  <2>2. pc' = AfterSecure
    BY <1>6 DEF GiveUp, Contain, Purge
  <2>. QED
    BY <1>6, <2>1, <2>2 DEF AfterSecure
<1>7. CASE Sample
  BY <1>7 DEF Sample
<1>8. CASE Unlink \/ KeepDirectory \/ QuarantineMoves \/ QuarantineRefused
  BY <1>8 DEF Unlink, KeepDirectory, QuarantineMoves, QuarantineRefused
<1>9. CASE Harden \/ HardenFails
  BY <1>9 DEF Harden, HardenFails
<1>1. CASE Secure
  BY <1>1, <1>6, <1>7, <1>8, <1>9 DEF Secure
<1>2. CASE StartRun \/ Proceed \/ AskAgain \/ DownloadDone \/ UpdateFails
  BY <1>2 DEF StartRun, Proceed, AskAgain, DownloadDone, UpdateFails
<1>10. CASE PublishStart \/ Refuse \/ BeginPublish
  BY <1>10 DEF PublishStart, Refuse, EndRun, BeginPublish
<1>11. CASE KeepPair \/ StartPair
  BY <1>11 DEF KeepPair, StartPair
<1>12. CASE InstallManifest \/ InstallDll
  BY <1>12 DEF InstallManifest, InstallDll
<1>13. CASE Finish
  BY <1>13 DEF Finish, EndRun
<1>3. CASE Publish
  BY <1>3, <1>10, <1>11, <1>12, <1>13 DEF Publish
<1>4. CASE Others
  BY <1>4 DEF Others, GiveAway, AnyoneWrites, OtherInstalls, OtherRegisters, Hold, Release,
     Reboot, Change
<1>5. CASE UNCHANGED vars
  BY <1>5 DEF vars
<1>. QED
  BY <1>1, <1>2, <1>3, <1>4, <1>5 DEF Next, Updater

\* A pair is in progress from its start to its library.
LEMMA Progress ==
    ASSUME [Next]_vars
    PROVE  \/ UNCHANGED <<pc, todo, payload, state>>
           \/ pc \notin {"manifest", "dll"} /\ pc' \notin {"manifest", "dll"}
           \/ StartPair \/ InstallManifest \/ InstallDll
<1>. SUFFICES ASSUME ~(StartPair \/ InstallManifest \/ InstallDll),
                     pc \in {"manifest", "dll"} \/ pc' \in {"manifest", "dll"}
              PROVE  UNCHANGED <<pc, todo, payload, state>>
  OBVIOUS
<1>1. \/ UNCHANGED pc /\ pc \in {"manifest", "dll"}
      \/ StartRun
  BY Course DEF Next, StartRun, Updater, Secure, GiveUp, Sample, Unlink, KeepDirectory,
     QuarantineMoves, QuarantineRefused, Harden, HardenFails, Contain, Purge, Proceed,
     AskAgain, DownloadDone, UpdateFails, Publish, PublishStart, Refuse,
     BeginPublish, KeepPair, Finish, EndRun, vars, Others, GiveAway,
     AnyoneWrites, OtherInstalls, OtherRegisters, Hold, Release, Reboot, Change
<1>2. ~StartRun
  BY DEF StartRun
<1>. QED
  BY <1>1, <1>2, TodoChange, PayloadChange, StateChange
     DEF StartRun, BeginPublish, KeepPair, InstallDll, Refuse, Finish, GiveUp, Sample,
         QuarantineRefused, Contain, Purge

\* Other steps leave the pair in progress alone.
LEMMA SamePlace ==
    ASSUME TypeOK, ToPublish, Publishing, [Next]_vars,
           ~(StartPair \/ InstallManifest \/ InstallDll)
    PROVE  /\ InProgress' = InProgress
           /\ pc \in {"manifest", "dll"} =>
                 UNCHANGED <<pc, payload, state>>
BY Progress DEF InProgress, NextPair

\* The pair that publish_hooks is at is one that has files to install.
LEMMA NextPairIsThere ==
    ASSUME ControlOK, ToPublish,
           \/ pc \in {"manifest", "dll"}
           \/ pc = "pair" /\ todo # {}
    PROVE  NextPair \in todo /\ NextPair \in Pairs /\ payload[NextPair] # 0
<1>1. todo # {} /\ pc \in {"pair", "manifest", "dll"}
  BY DEF ToPublish
<1>2. NextPair \in todo
  BY <1>1 DEF NextPair
<1>. QED
  BY <1>1, <1>2 DEF ToPublish, ControlOK

-----------------------------------------------------------------------------
(* The types, step by step *)

\* The repair fails until the directory is purged.
LEMMA StateStep ==
    ASSUME state \in States, [Next]_vars
    PROVE  /\ state' \in States
           /\ Sample \/ GiveUp => state'.outcome # "Secured"
           /\ QuarantineRefused => state'.outcome # "Secured"
           /\ Contain => state'.outcome = state.outcome
<1>. USE DEF States, Outcomes
<1>1. Unattempted \in States /\ Unattempted.outcome = "Failed"
  BY DEF Unattempted
<1>2. CASE Sample
  <2>1. PICK S \in SUBSET Pairs :
            state' = [Unattempted EXCEPT !.attempted = TRUE, !.pairWasTrusted = S]
    BY <1>2 DEF Sample
  <2>. QED
    BY <1>2, <2>1 DEF Unattempted, GiveUp, Sample, QuarantineRefused, Contain
<1>7. CASE GiveUp
  BY <1>7 DEF Unattempted, GiveUp, Sample, QuarantineRefused, Contain
<1>3. CASE QuarantineRefused
  <2>1. PICK error \in {"denied", "sharing", "other"} :
            state' = [state EXCEPT !.quarantineError = error,
                                   !.outcome = IF error = "other" THEN "Failed"
                                                                  ELSE "Blocked"]
    BY <1>3 DEF QuarantineRefused
  <2>. QED
    BY <1>3, <2>1 DEF GiveUp, Sample, QuarantineRefused, Contain
<1>4. CASE Contain
  <2>1. PICK ok \in BOOLEAN : state' = [state EXCEPT !.cleanupFailed = ~ok]
    BY <1>4 DEF Contain
  <2>2. CASE ok = TRUE
    BY <1>4, <2>1, <2>2 DEF GiveUp, Sample, QuarantineRefused, Contain
  <2>3. CASE ok = FALSE
    BY <1>4, <2>1, <2>3 DEF GiveUp, Sample, QuarantineRefused, Contain
  <2>. QED
    BY <2>2, <2>3
<1>5. CASE Purge
  BY <1>5 DEF Purge, GiveUp, Sample, QuarantineRefused, Contain
<1>6. CASE ~(GiveUp \/ Sample \/ QuarantineRefused \/ Contain \/ Purge)
  BY <1>1, <1>6, StateChange
<1>. QED
  BY <1>2, <1>3, <1>4, <1>5, <1>6, <1>7

\* What each step adds to the story
LEMMA StoryStep ==
    ASSUME DiskOK, ControlOK, story \in Stories, ToPublish, [Next]_vars
    PROVE  /\ story' \in Stories
           /\ \/ story'.unsettled = story.unsettled
              \/ KeepPair \/ StartPair \/ InstallManifest \/ InstallDll \/ OtherInstalls
           /\ \/ story'.undiscarded = story.undiscarded
              \/ KeepPair \/ StartPair \/ InstallManifest \/ InstallDll \/ OtherInstalls
              \/ QuarantineMoves
           /\ story'.believed = story.believed \/ KeepPair \/ StartPair
           /\ story'.wroteTheirs = story.wroteTheirs \/ InstallManifest \/ InstallDll
           /\ story'.downgraded = story.downgraded \/ InstallDll \/ Reboot
           /\ GiveAway => story'.disturbed
           /\ story.disturbed => story'.disturbed \/ Sample \/ PublishStart \/ Finish
<1>. DEFINE Goal ==
           /\ story' \in Stories
           /\ \/ story'.unsettled = story.unsettled
              \/ KeepPair \/ StartPair \/ InstallManifest \/ InstallDll \/ OtherInstalls
           /\ \/ story'.undiscarded = story.undiscarded
              \/ KeepPair \/ StartPair \/ InstallManifest \/ InstallDll \/ OtherInstalls
              \/ QuarantineMoves
           /\ story'.believed = story.believed \/ KeepPair \/ StartPair
           /\ story'.wroteTheirs = story.wroteTheirs \/ InstallManifest \/ InstallDll
           /\ story'.downgraded = story.downgraded \/ InstallDll \/ Reboot
           /\ GiveAway => story'.disturbed
           /\ story.disturbed => story'.disturbed \/ Sample \/ PublishStart \/ Finish
<1>1. CASE UNCHANGED story
  <2>1. GiveAway => story.disturbed
    BY <1>1 DEF GiveAway, Disturbed, Stories
  <2>. QED
    BY <1>1, <2>1
<1>2. CASE Sample \/ PublishStart \/ Finish
  <2>1. story' = Looked \/ story' = [Looked EXCEPT !.registered = FALSE]
    BY <1>2 DEF Sample, PublishStart, Finish
  <2>2. ~GiveAway
    BY <1>2 DEF Sample, PublishStart, Finish, GiveAway, Change, EndRun
  <2>. QED
    BY <1>2, <2>1, <2>2 DEF Looked, Stories
<1>3. CASE Contain \/ OtherRegisters
  <2>1. PICK b \in BOOLEAN : story' = [story EXCEPT !.registered = b]
    BY <1>3 DEF Contain, OtherRegisters
  <2>2. ~GiveAway
    BY <1>3 DEF Contain, OtherRegisters, GiveAway, Change, disk, DiskOK
  <2>3. /\ story' \in Stories /\ story'.disturbed = story.disturbed
        /\ story'.unsettled = story.unsettled /\ story'.believed = story.believed
        /\ story'.undiscarded = story.undiscarded
        /\ story'.wroteTheirs = story.wroteTheirs /\ story'.downgraded = story.downgraded
    BY <2>1 DEF Stories
  <2>. QED
    BY <2>2, <2>3
<1>10. /\ Disturbed \in Stories /\ Disturbed.disturbed
       /\ Disturbed.unsettled = story.unsettled /\ Disturbed.believed = story.believed
       /\ Disturbed.undiscarded = story.undiscarded
       /\ Disturbed.wroteTheirs = story.wroteTheirs /\ Disturbed.downgraded = story.downgraded
  BY DEF Disturbed, Stories
<1>4. CASE GiveAway \/ AnyoneWrites
  <2>1. story' = Disturbed \/ \E f : story' = Replaced({f}, Disturbed)
    BY <1>4 DEF GiveAway, AnyoneWrites
  <2>2. CASE story' = Disturbed
    BY <1>10, <2>2
  <2>3. ASSUME NEW f, story' = Replaced({f}, Disturbed)
        PROVE  /\ story' \in Stories /\ story'.disturbed
               /\ story'.unsettled = story.unsettled /\ story'.believed = story.believed
               /\ story'.undiscarded = story.undiscarded
               /\ story'.wroteTheirs = story.wroteTheirs
               /\ story'.downgraded = story.downgraded
    BY <1>10, <2>3, ReplacedFields
  <2>. QED
    BY <2>1, <2>2, <2>3
<1>5. CASE OtherInstalls
  <2>1. PICK p \in Pairs :
            story' = [Replaced({Dll(p), Manifest(p)}, Disturbed) EXCEPT
                         !.unsettled = IF Meets(p) THEN @ \cup {p} ELSE @ \ {p},
                         !.undiscarded = @ \ {p}]
    BY <1>5 DEF OtherInstalls
  <2>. DEFINE st == Replaced({Dll(p), Manifest(p)}, Disturbed)
              S == IF Meets(p) THEN st.unsettled \cup {p} ELSE st.unsettled \ {p}
              K == st.undiscarded \ {p}
  <2>2. st \in Stories /\ st.disturbed /\ st.believed = story.believed
        /\ st.wroteTheirs = story.wroteTheirs /\ st.downgraded = story.downgraded
    BY <1>10, ReplacedFields
  <2>3. S \in SUBSET Pairs /\ K \in SUBSET Pairs
    BY <2>2 DEF Stories
  <2>4. story' = [st EXCEPT !.unsettled = S, !.undiscarded = K]
    BY <2>1
  <2>. HIDE DEF st, S, K
  <2>. QED
    BY <1>5, <2>2, <2>3, <2>4 DEF Stories
<1>11. CASE QuarantineMoves
  <2>1. ~GiveAway
    BY <1>11 DEF QuarantineMoves, GiveAway, Change
  <2>. QED
    BY <1>11, <2>1 DEF QuarantineMoves, Stories
<1>12. CASE Purge
  <2>1. PICK u, v : /\ story' = [story EXCEPT !.undeleted = u, !.foreign = v]
                    /\ u \in SUBSET Files /\ v \in SUBSET Files
    <3>1. PICK stays \in SUBSET FoundUntrusted :
             story' = [story EXCEPT
                        !.undeleted = (@ \ FoundUntrusted) \cup stays,
                        !.foreign = {f \in @ \cup (Files \ sample.files) : files'[f] # NoFile}]
      BY <1>12 DEF Purge
    <3>. DEFINE u == (story.undeleted \ FoundUntrusted) \cup stays
                v == {f \in story.foreign \cup (Files \ sample.files) : files'[f] # NoFile}
    <3>2. u \in SUBSET Files /\ v \in SUBSET Files
      BY DEF Stories, FoundUntrusted
    <3>3. story' = [story EXCEPT !.undeleted = u, !.foreign = v]
      BY <3>1
    <3>. QED
      BY <3>2, <3>3
  <2>2. ~GiveAway
    BY <1>12 DEF Purge, GiveAway, Change, AfterSecure
  <2>. QED
    BY <1>12, <2>1, <2>2 DEF Stories
<1>6. CASE KeepPair \/ StartPair
  <2>1. pc = "pair" /\ todo # {}
    BY <1>6 DEF KeepPair, StartPair
  <2>2. NextPair \in Pairs
    BY <2>1, NextPairIsThere
  <2>3. Believed(NextPair) \in SUBSET Pairs
    BY <2>2 DEF Believed, Stories
  <2>4. \E S \in SUBSET Pairs :
            \E K \in SUBSET Pairs :
                story' = [story EXCEPT !.unsettled = S, !.undiscarded = K,
                                       !.believed = Believed(NextPair)]
    <3>1. CASE KeepPair
      <4>1. PICK kept \in SUBSET Files :
               story' = [story EXCEPT !.unsettled = @ \cup {p \in {NextPair} : Unmatched(p)},
                                      !.undiscarded = IF kept = {} THEN @ \ {NextPair}
                                                                   ELSE @ \cup {NextPair},
                                      !.believed = Believed(NextPair)]
        BY <3>1 DEF KeepPair
      <4>. DEFINE S == story.unsettled \cup {p \in {NextPair} : Unmatched(p)}
                  K == IF kept = {} THEN story.undiscarded \ {NextPair}
                                    ELSE story.undiscarded \cup {NextPair}
      <4>2. S \in SUBSET Pairs /\ K \in SUBSET Pairs
        BY <2>2 DEF Stories
      <4>3. story' = [story EXCEPT !.unsettled = S, !.undiscarded = K,
                                   !.believed = Believed(NextPair)]
        BY <4>1
      <4>. QED
        BY <4>2, <4>3
    <3>2. CASE StartPair
      <4>. DEFINE S == story.unsettled \ (state.pairWasTrusted \cap {NextPair})
                  K == story.undiscarded \ {NextPair}
      <4>1. S \in SUBSET Pairs /\ K \in SUBSET Pairs
        BY DEF Stories
      <4>2. story' = [story EXCEPT !.unsettled = S, !.undiscarded = K,
                                   !.believed = Believed(NextPair)]
        BY <3>2 DEF StartPair
      <4>. QED
        BY <4>1, <4>2
    <3>. QED
      BY <1>6, <3>1, <3>2
  <2>5. ~GiveAway
    BY <1>6 DEF KeepPair, StartPair, GiveAway, Change, Reboot, disk, DiskOK
  <2>. QED
    BY <1>6, <2>3, <2>4, <2>5 DEF Stories
<1>7. CASE InstallManifest \/ InstallDll
  <2>1. NextPair \in Pairs /\ payload[NextPair] # 0
    BY <1>7, NextPairIsThere DEF InstallManifest, InstallDll
  <2>2. PICK f \in {Dll(NextPair), Manifest(NextPair)} :
            /\ InstallHookFile(f)
            /\ InstallManifest => f = Manifest(NextPair)
    BY <1>7 DEF InstallManifest, InstallDll
  <2>3. f \in Files
    BY <2>1, PairFiles
  <2>4. PICK done \in BOOLEAN, kept \in SUBSET {f} :
            story' = Told(f, done, kept) \/ story' = Replaced({f}, Told(f, done, kept))
    BY <2>1, <2>2, InstallFields DEF ControlOK
  <2>7. Told(f, done, kept) \in Stories
    BY <2>3, ToldFields
  <2>5. InstallManifest => story'.downgraded = story.downgraded
    BY <2>1, <2>2, <2>3, <2>4, <2>7, ToldFields, ReplacedFields
  <2>6. ~GiveAway
    BY <1>7 DEF InstallManifest, InstallDll, GiveAway, DiskOK, Change
  <2>. QED
    BY <1>7, <2>3, <2>4, <2>5, <2>6, <2>7, ToldFields, ReplacedFields
<1>8. CASE Reboot
  <2>. DEFINE moved == {f \in pending : staged[f] # NoFile}
              st == Replaced(moved, story)
  <2>3. st \in Stories /\ st.disturbed = story.disturbed /\ st.believed = story.believed
        /\ st.unsettled = story.unsettled /\ st.undiscarded = story.undiscarded
        /\ st.wroteTheirs = story.wroteTheirs /\ st.downgraded = story.downgraded
    BY ReplacedFields
  <2>1. PICK d : d \in BOOLEAN /\ story' = [st EXCEPT !.downgraded = d]
    <3>. DEFINE older == \E p \in story.believed \ (story.unsettled \cup story.undiscarded) :
                               /\ Dll(p) \in moved
                               /\ WholePair(p)
                               /\ staged[Dll(p)].version < FileVersion(Dll(p))
                d == st.downgraded \/ older
    <3>1. story' = [st EXCEPT !.downgraded = d]
      BY <1>8 DEF Reboot
    <3>2. d \in BOOLEAN
      OBVIOUS
    <3>. HIDE DEF d
    <3>. QED
      BY <3>1, <3>2
  <2>2. ~GiveAway
    BY <1>8 DEF Reboot, GiveAway, DiskOK
  <2>. HIDE DEF st
  <2>. QED
    BY <1>8, <2>1, <2>2, <2>3 DEF Stories
<1>. QED
  BY <1>1, <1>2, <1>3, <1>4, <1>5, <1>6, <1>7, <1>8, <1>11, <1>12, StoryChange

\* The updater's variables keep their types.
LEMMA ControlStep ==
    ASSUME ControlOK, ToPublish, state \in States, DiskOK, [Next]_vars
    PROVE  ControlOK'
<1>. USE DEF ControlOK
<1>1. CASE UNCHANGED vars
  BY <1>1 DEF vars
<1>2. CASE StartRun
  <2>1. runs + 1 \in 0 .. MaxRuns
    BY <1>2, HookDirAssumption DEF StartRun
  <2>. QED
    BY <1>2, <2>1 DEF StartRun
<1>9. CASE GiveUp
  BY <1>9 DEF GiveUp, AfterSecure, run
<1>3. CASE Sample
  <2>1. ObjectIsTrusted \in BOOLEAN
    BY DEF ObjectIsTrusted
  <2>2. sample' = [dir |-> ObjectIsTrusted,
                   files |-> {f \in Files : ObjectIsTrusted /\ FileIsTrusted(f)}]
    BY <1>3 DEF Sample
  <2>3. sample' \in [dir : BOOLEAN, files : SUBSET Files]
    BY <2>1, <2>2
  <2>. QED
    BY <1>3, <2>3 DEF Sample, run
<1>4. CASE Unlink \/ KeepDirectory \/ QuarantineMoves \/ QuarantineRefused
           \/ Harden \/ HardenFails \/ Contain \/ Purge
  BY <1>4 DEF Unlink, KeepDirectory, QuarantineMoves, QuarantineRefused, Harden,
     HardenFails, Contain, Purge, AfterSecure, run
<1>5. CASE Proceed \/ AskAgain \/ DownloadDone \/ UpdateFails
  BY <1>5 DEF Proceed, AskAgain, DownloadDone, UpdateFails, run
<1>6. CASE PublishStart \/ BeginPublish \/ KeepPair \/ StartPair
           \/ InstallManifest \/ InstallDll
  BY <1>6 DEF PublishStart, BeginPublish, KeepPair, StartPair, InstallManifest,
     InstallDll, run
<1>7. CASE Refuse \/ Finish
  <2>1. \E r \in Results : EndRun(r)
    BY <1>7 DEF Refuse, Finish, Results, RefusalResult
  <2>2. 0 \in 0 .. MaxVersion
    BY HookDirAssumption
  <2>3. [p \in Pairs |-> 0] \in [Pairs -> 0 .. MaxVersion]
    BY <2>2
  <2>4. NoSample \in [dir : BOOLEAN, files : SUBSET Files]
    BY DEF NoSample
  <2>. QED
    BY <2>1, <2>3, <2>4 DEF EndRun
<1>8. CASE Others
  <2>1. changes' \in 0 .. MaxChanges
    <3>1. changes' = changes \/ (changes < MaxChanges /\ changes' = changes + 1)
      BY <1>8 DEF Others, GiveAway, AnyoneWrites, OtherInstalls, OtherRegisters, Hold,
         Release, Reboot, Change
    <3>. QED
      BY <3>1, HookDirAssumption
  <2>2. UNCHANGED <<pc, run, caller, sample, todo, result>>
    BY <1>8 DEF Others, GiveAway, AnyoneWrites, OtherInstalls, OtherRegisters, Hold,
       Release, Reboot, Change
  <2>. QED
    BY <2>1, <2>2 DEF run
<1>. QED
  BY <1>1, <1>2, <1>3, <1>4, <1>5, <1>6, <1>7, <1>8, <1>9
     DEF Next, Updater, Secure, Publish

\* Files are files, whoever writes them.
LEMMA FilesStep ==
    ASSUME DiskOK, ControlOK, ToPublish, [Next]_vars
    PROVE  /\ files' \in [Files -> File] /\ staged' \in [Files -> File]
           /\ pending' \in SUBSET Files
<1>. USE DEF DiskOK
<1>0. NoFile \in File
  BY DEF File
<1>1. CASE QuarantineMoves \/ Purge
  BY <1>0, <1>1 DEF QuarantineMoves, Purge
<1>2. CASE KeepPair
  BY <1>2, DiscardFields DEF KeepPair
<1>3. CASE InstallManifest \/ InstallDll
  <2>1. NextPair \in Pairs /\ payload[NextPair] # 0
    BY <1>3, NextPairIsThere DEF InstallManifest, InstallDll
  <2>2. PICK f \in {Dll(NextPair), Manifest(NextPair)} : InstallHookFile(f)
    BY <1>3 DEF InstallManifest, InstallDll
  <2>. QED
    BY <2>1, <2>2, InstallFields DEF ControlOK
<1>4. CASE AnyoneWrites
  <2>1. PICK f \in Files, v \in 1 .. MaxVersion :
            files' = [files EXCEPT ![f] = [version |-> v, acl |-> "open"]]
    BY <1>4 DEF AnyoneWrites
  <2>2. [version |-> v, acl |-> "open"] \in File
    BY DEF File
  <2>. QED
    BY <1>4, <2>1, <2>2 DEF AnyoneWrites
<1>5. CASE OtherInstalls
  <2>1. PICK p \in Pairs, v \in 1 .. MaxVersion :
            /\ files' = [files EXCEPT ![Dll(p)] = [version |-> v, acl |-> "inherit"],
                                      ![Manifest(p)] = [version |-> v, acl |-> "inherit"]]
            /\ DiscardStaged({Dll(p), Manifest(p)}, {})
    BY <1>5 DEF OtherInstalls
  <2>2. [version |-> v, acl |-> "inherit"] \in File
    BY DEF File
  <2>. QED
    BY <1>5, <2>1, <2>2, DiscardFields DEF OtherInstalls
<1>6. CASE Reboot
  BY <1>0, <1>6 DEF Reboot
<1>7. CASE UNCHANGED <<files, staged, pending>>
  BY <1>7
<1>. QED
  BY <1>1, <1>2, <1>3, <1>4, <1>5, <1>6, <1>7, FilesChange
     DEF QuarantineMoves, Purge, KeepPair, AnyoneWrites, OtherInstalls

\* The disk keeps its types.
LEMMA DiskStep ==
    ASSUME DiskOK, ControlOK, ToPublish, [Next]_vars
    PROVE  DiskOK'
<1>. USE DEF DiskOK
<1>1. /\ files' \in [Files -> File] /\ staged' \in [Files -> File]
      /\ pending' \in SUBSET Files
  BY FilesStep
<1>2. dir' \in DirKind
  BY DEF Next, vars, StartRun, Updater, Secure, GiveUp, Sample, Unlink, KeepDirectory,
     QuarantineMoves, QuarantineRefused, Harden, HardenFails, Contain, Purge, Proceed,
     AskAgain, DownloadDone, UpdateFails, Publish, PublishStart, Refuse, BeginPublish,
     KeepPair, StartPair, InstallManifest, InstallDll, Finish, EndRun, Others, GiveAway,
     AnyoneWrites, OtherInstalls, OtherRegisters, Hold, Release, Reboot, Change, disk,
     DirKind
<1>3. layer' \in SUBSET Pairs
  BY DEF Next, vars, StartRun, Updater, Secure, GiveUp, Sample, Unlink, KeepDirectory,
     QuarantineMoves, QuarantineRefused, Harden, HardenFails, Contain, RemoveLayer,
     Purge, Proceed, AskAgain, DownloadDone, UpdateFails, Publish, PublishStart, Refuse,
     BeginPublish, KeepPair, StartPair, InstallManifest, InstallDll, Finish, EndRun,
     Others, GiveAway, AnyoneWrites, OtherInstalls, OtherRegisters, Hold, Release,
     Reboot, Change, disk
<1>4. held' \in SUBSET (Files \cup {TheDirectory})
  <2>1. CASE Hold
    BY <2>1 DEF Hold
  <2>2. CASE Release
    BY <2>2 DEF Release
  <2>3. CASE ~Hold /\ ~Release
    BY <2>3 DEF Next, vars, StartRun, Updater, Secure, GiveUp, Sample, Unlink, KeepDirectory,
     QuarantineMoves, QuarantineRefused, Harden, HardenFails, Contain, Purge, Proceed,
     AskAgain, DownloadDone, UpdateFails, Publish, PublishStart, Refuse, BeginPublish,
     KeepPair, StartPair, InstallManifest, InstallDll, Finish, EndRun, Others, GiveAway,
     AnyoneWrites, OtherInstalls, OtherRegisters, Reboot, Change, disk
  <2>. QED
    BY <2>1, <2>2, <2>3
<1>. QED
  BY <1>1, <1>2, <1>3, <1>4

\* A directory that was secured stays trusted, or the story tells who gave it away.
LEMMA GuardedStep ==
    ASSUME TypeOK, ToPublish, Guarded, [Next]_vars
    PROVE  Guarded'
<1>. USE DEF Guarded
<1>0. DiskOK /\ ControlOK /\ state \in States /\ story \in Stories
  BY TypeParts
<1>1. ASSUME ~(dir' = dir \/ Harden \/ GiveAway \/ pc = "replace" \/ pc' = "contain")
      PROVE  FALSE
  BY <1>1 DEF Next, vars, StartRun, Updater, Secure, GiveUp, Sample, Unlink, KeepDirectory,
     QuarantineMoves, QuarantineRefused, HardenFails, Contain, Purge, Proceed,
     AskAgain, DownloadDone, UpdateFails, Publish, PublishStart, Refuse, BeginPublish,
     KeepPair, StartPair, InstallManifest, InstallDll, Finish, EndRun, Others,
     AnyoneWrites, OtherInstalls, OtherRegisters, Hold, Release, Reboot, Change, disk
<1>2. /\ GiveAway => story'.disturbed
      /\ story.disturbed => story'.disturbed \/ Sample \/ PublishStart \/ Finish
  BY <1>0, StoryStep
<1>11. CASE GiveUp
  <2>1. pc' \in {"answer", "switch"} /\ state'.outcome # "Secured"
    BY <1>0, <1>11, StateStep DEF GiveUp, AfterSecure
  <2>. QED
    BY <2>1
<1>3. CASE Sample
  <2>1. pc' = "replace" /\ state'.outcome # "Secured"
    BY <1>0, <1>3, StateStep DEF Sample
  <2>. QED
    BY <2>1
<1>4. CASE PublishStart
  <2>1. /\ state' = state /\ dir' = dir /\ pc' = IF SecureAgain THEN "sample" ELSE "switch"
    BY <1>4 DEF PublishStart, disk
  <2>2. ~SecureAgain /\ state.outcome = "Secured" => ObjectIsTrusted
    BY DEF SecureAgain, Drifted
  <2>. QED
    BY <2>1, <2>2 DEF ObjectIsTrusted
<1>5. CASE Harden
  <2>1. pc = "create" /\ pc' = "purge" /\ dir' = "ours" /\ state' = state
    BY <1>5 DEF Harden
  <2>. QED
    BY <2>1 DEF ObjectIsTrusted
<1>6. CASE Purge
  <2>1. /\ pc = "purge" /\ pc' \in {"answer", "switch"} /\ dir' = dir
        /\ story.disturbed => story'.disturbed
    BY <1>2, <1>6 DEF Purge, AfterSecure, Sample, PublishStart, Finish
  <2>. QED
    BY <2>1 DEF ObjectIsTrusted
<1>7. CASE Contain
  <2>1. pc = "contain" /\ pc' \in {"answer", "switch"} /\ state'.outcome = state.outcome
    BY <1>0, <1>7, StateStep DEF Contain, AfterSecure
  <2>. QED
    BY <2>1
<1>8. CASE QuarantineRefused
  <2>1. pc' = "contain" /\ state'.outcome # "Secured"
    BY <1>0, <1>8, StateStep DEF QuarantineRefused
  <2>. QED
    BY <2>1
<1>9. CASE pc' \in {"idle", "sample", "answer", "download", "publish"}
  BY <1>9
<1>10. CASE ~(GiveUp \/ Sample \/ PublishStart \/ Harden \/ Purge \/ Contain \/ QuarantineRefused)
            /\ pc' \notin {"idle", "sample", "answer", "download", "publish"}
  <2>1. state' = state
    BY <1>10, StateChange
  <2>2. \/ UNCHANGED pc
        \/ pc = "replace" /\ pc' \in {"create", "contain"}
        \/ pc = "create" /\ pc' = "contain"
        \/ BeginPublish /\ pc = "switch" /\ state.outcome = "Secured" /\ pc' = "pair"
        \/ pc = "pair" /\ pc' = "manifest"
        \/ pc = "manifest" /\ pc' = "dll"
        \/ pc = "dll" /\ pc' = "pair"
    BY <1>10, Course DEF BeginPublish
  <2>3. pc' \notin {"purge", "switch", "pair", "manifest", "dll"} \/ dir' = dir \/ GiveAway
    BY <1>1, <1>10, <2>2
  <2>4. ~Finish
    BY <1>10 DEF Finish, EndRun
  <2>5. pc \in {"purge", "switch", "pair", "manifest", "dll"} =>
           \/ ~ObjectIsTrusted /\ ~story.disturbed
           \/ ObjectIsTrusted' \/ story'.disturbed
           \/ pc' \notin {"purge", "switch", "pair", "manifest", "dll"}
    BY <1>2, <1>10, <2>3, <2>4 DEF ObjectIsTrusted
  <2>6. BeginPublish => pc = "switch"
    BY DEF BeginPublish
  <2>. QED
    BY <2>1, <2>2, <2>5, <2>6
<1>. QED
  BY <1>3, <1>4, <1>5, <1>6, <1>7, <1>8, <1>9, <1>10, <1>11

\* No pair is installed for which there is nothing to install.
LEMMA ToPublishStep ==
    ASSUME TypeOK, ToPublish, [Next]_vars
    PROVE  ToPublish'
<1>. USE DEF ToPublish
<1>1. CASE pc' \notin {"pair", "manifest", "dll"}
  BY <1>1
<1>2. CASE pc' \in {"pair", "manifest", "dll"}
  <2>1. payload' = payload \/ BeginPublish
    BY <1>2, PayloadChange DEF Refuse, Finish, EndRun
  <2>2. CASE BeginPublish
    BY <2>2 DEF BeginPublish
  <2>3. CASE ~BeginPublish
    <3>1. /\ pc \in {"pair", "manifest", "dll"}
          /\ pc' = "manifest" /\ pc # "manifest" => StartPair
          /\ pc' = "dll" => pc \in {"manifest", "dll"}
      BY <1>2, <2>3, Course
    <3>2. todo' \subseteq todo /\ (pc' \in {"manifest", "dll"} => todo' = todo)
      BY <1>2, <2>3, TodoChange DEF StartRun, KeepPair, InstallDll
    <3>. QED
      BY <2>1, <2>3, <3>1, <3>2 DEF StartPair
  <2>. QED
    BY <2>2, <2>3
<1>. QED
  BY <1>1, <1>2

-----------------------------------------------------------------------------
(* The pairs, step by step *)

\* Files that change hands, or go, are no longer trusted; nothing queued changes.
LEMMA LostKeeps ==
    ASSUME TypeOK, ToPublish, Publishing, [Next]_vars,
           ~(StartPair \/ InstallManifest \/ InstallDll),
           UNCHANGED <<staged, pending>>, story'.unsettled = story.unsettled,
           story'.undiscarded = story.undiscarded, story'.believed = story.believed,
           \A f \in Files : files'[f] = files[f] \/ files'[f].acl # "inherit"
    PROVE  Publishing'
<1>0. story \in Stories
  BY TypeParts
<1>1. /\ InProgress' = InProgress
      /\ pc \in {"manifest", "dll"} => UNCHANGED <<pc, payload, state>>
  BY SamePlace
<1>7. Loose' = Loose /\ \A f : InQueue(f)' = InQueue(f)
  BY DEF Loose, InQueue
<1>2. Queued'
  BY <1>1, <1>7 DEF Publishing, Queued
<1>3. ASSUME NEW p \in Pairs
      PROVE  /\ Matched(p) => Matched(p)'
             /\ NotOlder(p) => NotOlder(p)'
             /\ payload' = payload /\ NotNewer(p) => NotNewer(p)'
             /\ payload' = payload /\ HalfDone(p) => HalfDone(p)'
  BY PairFiles DEF Matched, NotOlder, NotNewer, HalfDone, Fit, AfterReboot, Ours
<1>4. PairsMatch' /\ NothingOlderQueued'
  BY <1>0, <1>1, <1>3, <1>7 DEF Publishing, PairsMatch, NothingOlderQueued, Stories
<1>5. ASSUME NEW p \in InProgress
      PROVE  pc \in {"manifest", "dll"} /\ p \in Pairs
  BY TypeParts, NextPairIsThere DEF InProgress
<1>6. PairInProgress'
  BY <1>1, <1>3, <1>5, <1>7 DEF Publishing, PairInProgress
<1>. QED
  BY <1>2, <1>4, <1>6 DEF Publishing

\* A directory that is moved away takes everything with it.
LEMMA QuarantineKeeps ==
    ASSUME TypeOK, ToPublish, Publishing, QuarantineMoves
    PROVE  Publishing'
<1>0. story \in Stories
  BY TypeParts
<1>1. /\ \A f \in Files : files'[f] = NoFile /\ staged'[f] = NoFile
      /\ pc' = "create" /\ story'.believed = story.believed
  BY <1>0 DEF QuarantineMoves, Stories
<1>2. InProgress' = {}
  BY <1>1 DEF InProgress
<1>3. Queued' /\ PairInProgress'
  BY <1>1, <1>2, PairFiles DEF Queued, InQueue, PairInProgress
<1>4. ASSUME NEW p \in Pairs PROVE Matched(p)' /\ NotOlder(p)'
  BY <1>1, PairFiles DEF Matched, NotOlder, Fit, AfterReboot, NoFile
<1>. QED
  BY <1>0, <1>1, <1>3, <1>4 DEF Publishing, PairsMatch, NothingOlderQueued, Stories

\* Another application replaces a whole pair.
LEMMA OthersKeep ==
    ASSUME TypeOK, ToPublish, Publishing, OtherInstalls
    PROVE  Publishing'
<1>0. story \in Stories /\ DiskOK
  BY TypeParts
<1>1. PICK p \in Pairs, v \in 1 .. MaxVersion :
         /\ files' = [files EXCEPT ![Dll(p)] = [version |-> v, acl |-> "inherit"],
                                   ![Manifest(p)] = [version |-> v, acl |-> "inherit"]]
         /\ DiscardStaged({Dll(p), Manifest(p)}, {})
         /\ story' = [Replaced({Dll(p), Manifest(p)}, Disturbed) EXCEPT
                         !.unsettled = IF Meets(p) THEN @ \cup {p} ELSE @ \ {p},
                         !.undiscarded = @ \ {p}]
  BY DEF OtherInstalls
<1>2. UNCHANGED <<pc, todo, payload, state, pending>>
  BY DEF OtherInstalls, Change, run
<1>3. InProgress' = InProgress
  BY <1>2 DEF InProgress, NextPair
<1>4. /\ story'.believed = story.believed
      /\ \A q \in Pairs \ {p} : q \in Loose' <=> q \in Loose
      /\ \A q \in Pairs \ {p} : q \in story'.unsettled <=> q \in story.unsettled
      /\ pc \in {"manifest", "dll"} => p \in story'.unsettled
  <2>. DEFINE st == Replaced({Dll(p), Manifest(p)}, Disturbed)
  <2>1. Disturbed \in Stories /\ Disturbed.believed = story.believed
        /\ Disturbed.unsettled = story.unsettled /\ Disturbed.undiscarded = story.undiscarded
    BY <1>0 DEF Disturbed, Stories
  <2>2. st \in Stories /\ st.believed = story.believed /\ st.unsettled = story.unsettled
        /\ st.undiscarded = story.undiscarded
    BY <2>1, ReplacedFields
  <2>. HIDE DEF st
  <2>3. /\ story'.believed = st.believed /\ story'.undiscarded = st.undiscarded \ {p}
        /\ story'.unsettled = IF Meets(p) THEN st.unsettled \cup {p} ELSE st.unsettled \ {p}
    BY <1>1, <2>2 DEF Stories, st
  <2>. QED
    BY <2>2, <2>3 DEF Meets, Loose
<1>5. /\ \A f \in Files \ {Dll(p), Manifest(p)} :
            files'[f] = files[f] /\ staged'[f] = staged[f]
      /\ \A f \in {Dll(p), Manifest(p)} :
            files'[f].version = v /\ staged'[f] = NoFile
  BY <1>0, <1>1, DiscardFields, PairFiles DEF DiskOK
<1>7. ASSUME NEW q \in Pairs, q # p
      PROVE  /\ InQueue(Dll(q)) => InQueue(Dll(q))'
             /\ InQueue(Manifest(q)) => InQueue(Manifest(q))'
             /\ Matched(q) => Matched(q)'
             /\ NotOlder(q) => NotOlder(q)'
             /\ NotNewer(q) => NotNewer(q)'
             /\ HalfDone(q) => HalfDone(q)'
  <2>1. /\ Dll(q) \in Files \ {Dll(p), Manifest(p)}
        /\ Manifest(q) \in Files \ {Dll(p), Manifest(p)}
    BY <1>7, PairFiles
  <2>. QED
    BY <1>2, <1>5, <2>1
       DEF InQueue, Matched, NotOlder, NotNewer, HalfDone, Fit, AfterReboot, Ours
<1>8. Matched(p)' /\ NotOlder(p)' /\ InQueue(Dll(p))' /\ InQueue(Manifest(p))'
  BY <1>5 DEF Matched, NotOlder, Fit, AfterReboot, InQueue
<1>6. Queued'
  BY <1>3, <1>4, <1>7, <1>8 DEF Publishing, Queued
<1>9. PairsMatch' /\ NothingOlderQueued'
  BY <1>0, <1>3, <1>4, <1>7, <1>8 DEF Publishing, PairsMatch, NothingOlderQueued, Stories
<1>10. ASSUME NEW q \in InProgress
       PROVE  pc \in {"manifest", "dll"} /\ q \in Pairs
  BY TypeParts, NextPairIsThere DEF InProgress
<1>11. PairInProgress'
  BY <1>2, <1>3, <1>4, <1>7, <1>10 DEF Publishing, PairInProgress, Loose
<1>. QED
  BY <1>6, <1>9, <1>11 DEF Publishing

\* What a reboot moves into place is no older than what it replaces.
LEMMA RebootPublishes ==
    ASSUME TypeOK, ToPublish, Publishing, Reboot
    PROVE  Publishing' /\ story'.downgraded = story.downgraded
<1>0. story \in Stories /\ DiskOK
  BY TypeParts
<1>. DEFINE moved == {f \in pending : staged[f] # NoFile}
            older == \E p \in story.believed \ (story.unsettled \cup story.undiscarded) :
                               /\ Dll(p) \in moved
                               /\ WholePair(p)
                               /\ staged[Dll(p)].version < FileVersion(Dll(p))
            st == Replaced(moved, story)
            d == st.downgraded \/ older
<1>1. /\ pc = "idle" /\ pc' = "idle"
      /\ files' = [f \in Files |-> IF f \in moved THEN staged[f] ELSE files[f]]
      /\ staged' = [f \in Files |-> IF f \in moved THEN NoFile ELSE staged[f]]
      /\ story' = [st EXCEPT !.downgraded = d]
  BY DEF Reboot
<1>2. ~older
  <2>1. SUFFICES ASSUME NEW p \in story.believed \ Loose, Dll(p) \in moved,
                        WholePair(p), staged[Dll(p)].version < FileVersion(Dll(p))
                 PROVE  FALSE
    BY DEF Loose
  <2>2. p \in Pairs /\ NotOlder(p)
    BY <1>0, <1>1 DEF Publishing, NothingOlderQueued, InProgress, Stories
  <2>3. files[Dll(p)] \in File /\ staged[Dll(p)] \in File
    BY <1>0, <2>2, PairFiles DEF DiskOK
  <2>4. /\ staged[Dll(p)].version \in 0 .. MaxVersion
        /\ files[Dll(p)].version \in 0 .. MaxVersion
    BY <2>3, FileFields
  <2>5. staged[Dll(p)] # NoFile /\ files[Dll(p)].acl = "inherit"
    BY <2>1 DEF WholePair, FileIsTrusted
  <2>6. staged[Dll(p)].version >= files[Dll(p)].version
    BY <2>2, <2>5 DEF NotOlder
  <2>. QED
    BY <2>1, <2>4, <2>6, HookDirAssumption DEF FileVersion
<1>10. /\ st \in Stories /\ st.unsettled = story.unsettled /\ st.believed = story.believed
       /\ st.undiscarded = story.undiscarded /\ st.downgraded = story.downgraded
  BY <1>0, ReplacedFields
<1>3. d = story.downgraded
  <2>. HIDE DEF older, st
  <2>. QED
    BY <1>0, <1>2, <1>10 DEF Stories
<1>. HIDE DEF d, older, st
<1>4. /\ Loose' = Loose /\ story'.believed = story.believed
      /\ story'.downgraded = story.downgraded
  BY <1>1, <1>3, <1>10 DEF Stories, Loose
<1>5. ASSUME NEW f \in Files, InQueue(f)
      PROVE  files'[f] = AfterReboot(f) /\ staged'[f] = NoFile
  BY <1>1, <1>5 DEF InQueue, AfterReboot
<1>6. InProgress' = {} /\ InProgress = {}
  BY <1>1 DEF InProgress
<1>8. ASSUME NEW p \in Pairs \ Loose
      PROVE  Matched(p)' /\ NotOlder(p)' /\ InQueue(Dll(p))' /\ InQueue(Manifest(p))'
  <2>1. /\ files'[Dll(p)] = AfterReboot(Dll(p)) /\ staged'[Dll(p)] = NoFile
        /\ files'[Manifest(p)] = AfterReboot(Manifest(p)) /\ staged'[Manifest(p)] = NoFile
    BY <1>5, <1>6, PairFiles DEF Publishing, Queued
  <2>2. /\ AfterReboot(Dll(p))' = AfterReboot(Dll(p))
        /\ AfterReboot(Manifest(p))' = AfterReboot(Manifest(p))
    BY <2>1 DEF AfterReboot
  <2>3. Matched(p)
    BY <1>6 DEF Publishing, PairsMatch
  <2>. QED
    BY <2>1, <2>2, <2>3 DEF Matched, NotOlder, InQueue
<1>7. Queued' /\ PairInProgress'
  BY <1>4, <1>6, <1>8 DEF Queued, PairInProgress
<1>9. PairsMatch' /\ NothingOlderQueued'
  BY <1>0, <1>4, <1>6, <1>8 DEF PairsMatch, NothingOlderQueued, Stories
<1>. QED
  BY <1>4, <1>7, <1>9 DEF Publishing

\* A pair that is kept loses what was queued for it.
LEMMA KeepPublishes ==
    ASSUME TypeOK, ToPublish, Publishing, KeepPair
    PROVE  Publishing'
<1>0. story \in Stories /\ DiskOK /\ ControlOK
  BY TypeParts
<1>. PICK q : q = NextPair
  OBVIOUS
<1>1. /\ pc = "pair" /\ pc' = "pair" /\ files' = files /\ pending' = pending
  BY DEF KeepPair
<1>10. PICK kept \in SUBSET Files :
      /\ DiscardStaged({Dll(q), Manifest(q)}, kept)
      /\ story' = [story EXCEPT !.unsettled = @ \cup {p \in {q} : Unmatched(p)},
                                !.undiscarded = IF kept = {} THEN @ \ {q} ELSE @ \cup {q},
                                !.believed = Believed(q)]
  BY DEF KeepPair
<1>2. q \in Pairs
  BY <1>0, NextPairIsThere DEF KeepPair
<1>3. /\ \A p \in Pairs \ {q} : /\ p \in Loose' <=> p \in Loose
                                /\ p \in story'.believed <=> p \in story.believed
      /\ Unmatched(q) \/ kept # {} => q \in Loose'
      /\ story'.believed \subseteq Pairs
  <2>. DEFINE u == story.unsettled \cup {p \in {q} : Unmatched(p)}
              k == IF kept = {} THEN story.undiscarded \ {q} ELSE story.undiscarded \cup {q}
  <2>1. story' = [story EXCEPT !.unsettled = u, !.undiscarded = k, !.believed = Believed(q)]
    BY <1>10
  <2>2. /\ \A p \in Pairs \ {q} : /\ p \in u <=> p \in story.unsettled
                                  /\ p \in k <=> p \in story.undiscarded
                                  /\ p \in Believed(q) <=> p \in story.believed
        /\ Unmatched(q) => q \in u
        /\ kept # {} => q \in k
        /\ Believed(q) \subseteq Pairs
    BY <1>0, <1>2 DEF Believed, Stories
  <2>. HIDE DEF u, k
  <2>3. story'.unsettled = u /\ story'.undiscarded = k /\ story'.believed = Believed(q)
    BY <1>0, <2>1 DEF Stories
  <2>. QED
    BY <2>2, <2>3 DEF Loose
<1>4. /\ \A f \in Files \ {Dll(q), Manifest(q)} : staged'[f] = staged[f]
      /\ kept = {} => staged'[Dll(q)] = NoFile /\ staged'[Manifest(q)] = NoFile
      /\ \A f \in Files : staged'[f] \in {staged[f], NoFile}
  BY <1>0, <1>2, <1>10, DiscardFields, PairFiles DEF DiskOK
<1>6. InProgress = {} /\ InProgress' = {}
  BY <1>1 DEF InProgress
<1>7. ASSUME NEW p \in Pairs, p # q
      PROVE  /\ (Matched(p) => Matched(p)') /\ (NotOlder(p) => NotOlder(p)')
             /\ InQueue(Dll(p))' = InQueue(Dll(p))
             /\ InQueue(Manifest(p))' = InQueue(Manifest(p))
  <2>1. /\ Dll(p) \in Files \ {Dll(q), Manifest(q)}
        /\ Manifest(p) \in Files \ {Dll(q), Manifest(q)}
    BY <1>2, <1>7, PairFiles
  <2>. QED
    BY <1>1, <1>4, <2>1 DEF Matched, NotOlder, Fit, AfterReboot, InQueue
<1>8. kept = {} => /\ NotOlder(q)' /\ (~Unmatched(q) => Matched(q)')
                   /\ InQueue(Dll(q))' /\ InQueue(Manifest(q))'
  BY <1>1, <1>4 DEF NotOlder, Matched, Fit, AfterReboot, Unmatched, FileVersion, InQueue
<1>5. Queued'
  BY <1>3, <1>6, <1>7, <1>8 DEF Publishing, Queued
<1>9. PairsMatch' /\ NothingOlderQueued' /\ PairInProgress'
  BY <1>3, <1>6, <1>7, <1>8 DEF Publishing, PairsMatch, NothingOlderQueued, PairInProgress
<1>. QED
  BY <1>5, <1>9 DEF Publishing

\* A pair that is not kept, although it was trusted, is older than the payload.
LEMMA StartPublishes ==
    ASSUME TypeOK, ToPublish, Publishing, StartPair
    PROVE  Publishing'
<1>0. story \in Stories /\ DiskOK /\ ControlOK /\ state \in States
  BY TypeParts
<1>. PICK q : q = NextPair
  OBVIOUS
<1>1. /\ pc = "pair" /\ pc' = "manifest" /\ UNCHANGED <<files, staged, pending>>
      /\ UNCHANGED <<todo, payload, state>> /\ ~IsKept(q)
      /\ story' = [story EXCEPT !.unsettled = @ \ (state.pairWasTrusted \cap {q}),
                                !.undiscarded = @ \ {q},
                                !.believed = Believed(q)]
  BY DEF StartPair, disk, run
<1>2. q \in Pairs
  BY <1>0, NextPairIsThere DEF StartPair
<1>3. InProgress = {} /\ InProgress' = {q}
  BY <1>1 DEF InProgress, NextPair
<1>4. /\ \A p \in Pairs \ {q} : /\ p \in Loose' <=> p \in Loose
                                /\ p \in story'.believed <=> p \in story.believed
      /\ q \in story'.believed => q \in state.pairWasTrusted
      /\ story'.believed \subseteq Pairs
  <2>1. /\ story'.unsettled = story.unsettled \ (state.pairWasTrusted \cap {q})
        /\ story'.undiscarded = story.undiscarded \ {q}
        /\ story'.believed = Believed(q)
    BY <1>0, <1>1 DEF Stories
  <2>. QED
    BY <1>0, <1>2, <2>1 DEF Believed, Stories, Loose
<1>5. \A p : /\ Matched(p)' = Matched(p) /\ NotOlder(p)' = NotOlder(p)
             /\ NotNewer(p)' = NotNewer(p)
             /\ InQueue(Dll(p))' = InQueue(Dll(p))
             /\ InQueue(Manifest(p))' = InQueue(Manifest(p))
  BY <1>1 DEF Matched, NotOlder, NotNewer, AfterReboot, InQueue
<1>6. q \in state.pairWasTrusted => NotNewer(q)
  <2>1. SUFFICES ASSUME q \in state.pairWasTrusted, files[Dll(q)].acl = "inherit"
                 PROVE  files[Dll(q)].version < payload[q]
    BY DEF NotNewer
  <2>2. files[Dll(q)] \in File
    BY <1>0, <1>2, PairFiles DEF DiskOK
  <2>3. files[Dll(q)].version \in 1 .. MaxVersion
    BY <2>1, <2>2, FileFields
  <2>4. ~(files[Dll(q)].version >= payload[q])
    BY <1>1, <2>1, <2>3 DEF IsKept, FileVersion
  <2>. QED
    BY <1>0, <1>2, <2>3, <2>4, HookDirAssumption DEF ControlOK
<1>7. Queued' /\ PairsMatch' /\ NothingOlderQueued'
  BY <1>1, <1>3, <1>4, <1>5 DEF Publishing, Queued, PairsMatch, NothingOlderQueued
<1>8. PairInProgress'
  BY <1>1, <1>3, <1>4, <1>5, <1>6 DEF PairInProgress
<1>. QED
  BY <1>7, <1>8 DEF Publishing

\* The manifest is installed first.
LEMMA ManifestPublishes ==
    ASSUME TypeOK, ToPublish, Guarded, Publishing, InstallManifest
    PROVE  Publishing' /\ story'.wroteTheirs = story.wroteTheirs
<1>0. story \in Stories /\ DiskOK /\ ControlOK /\ state \in States
  BY TypeParts
<1>. PICK q : q = NextPair
  OBVIOUS
<1>. DEFINE f == Manifest(q)
<1>1. /\ pc = "manifest" /\ pc' = "dll" /\ InstallHookFile(f)
      /\ UNCHANGED <<todo, payload, state>>
  BY DEF InstallManifest, run
<1>2. q \in Pairs /\ payload[q] # 0
  BY <1>0, <1>1, NextPairIsThere
<1>3. InProgress = {q} /\ InProgress' = {q}
  BY <1>1 DEF InProgress, NextPair
<1>4. f \in Files /\ f[1] = q /\ Dll(q) \in Files \ {f}
  BY <1>2, PairFiles
<1>5. /\ \A g \in Files \ {f} : files'[g] = files[g] /\ staged'[g] = staged[g]
      /\ pending \subseteq pending'
  BY <1>0, <1>1, <1>2, InstallFields DEF ControlOK
<1>6. PICK done \in BOOLEAN, kept \in SUBSET {f} :
         /\ story' = Told(f, done, kept) \/ story' = Replaced({f}, Told(f, done, kept))
         /\ done /\ kept = {} =>
               \/ staged'[f] = NoFile /\ files'[f] = Ours(q)
               \/ staged'[f] = Ours(q) /\ f \in pending' /\ files'[f] \in {files[f], NoFile}
  BY <1>0, <1>1, <1>2, InstallFields DEF ControlOK
<1>7. Ours(q).acl = "inherit" /\ Ours(q) # NoFile /\ Ours(q)' = Ours(q)
  BY <1>0, <1>1, <1>2, OursIsFile DEF ControlOK, Ours
<1>8. /\ story'.believed = story.believed
      /\ \A p \in Pairs \ {q} : p \in Loose' <=> p \in Loose
      /\ ~done \/ kept # {} => q \in Loose'
      /\ story.unsettled \subseteq story'.unsettled /\ Loose \subseteq Loose'
      /\ story'.wroteTheirs = story.wroteTheirs
  <2>. DEFINE st == Told(f, done, kept)
  <2>1. ObjectIsTrusted \/ story.disturbed
    BY <1>1 DEF Guarded
  <2>2. /\ st \in Stories /\ st.believed = story.believed
        /\ done => st.unsettled = story.unsettled
        /\ ~done => st.unsettled = story.unsettled \cup {q}
        /\ kept = {} => st.undiscarded = story.undiscarded
        /\ kept # {} => st.undiscarded = story.undiscarded \cup {q}
        /\ st.wroteTheirs = story.wroteTheirs
    BY <1>0, <1>4, <2>1, ToldFields
  <2>. HIDE DEF st
  <2>3. /\ story'.believed = st.believed /\ story'.unsettled = st.unsettled
        /\ story'.undiscarded = st.undiscarded /\ story'.wroteTheirs = st.wroteTheirs
    BY <1>6, <2>2, ReplacedFields DEF st
  <2>. QED
    BY <2>2, <2>3 DEF Loose
<1>. HIDE DEF f
<1>10. ASSUME NEW p \in Pairs, p # q
       PROVE  /\ Matched(p)' = Matched(p) /\ NotOlder(p)' = NotOlder(p)
              /\ InQueue(Dll(p)) => InQueue(Dll(p))'
              /\ InQueue(Manifest(p)) => InQueue(Manifest(p))'
  <2>1. Dll(p) \in Files \ {f} /\ Manifest(p) \in Files \ {f}
    BY <1>2, <1>10, PairFiles DEF f
  <2>. QED
    BY <1>5, <2>1 DEF Matched, NotOlder, AfterReboot, InQueue
<1>9. Queued'
  BY <1>3, <1>8, <1>10 DEF Publishing, Queued
<1>11. NotNewer(q)' = NotNewer(q)
  BY <1>1, <1>4, <1>5 DEF NotNewer
<1>12. done /\ kept = {} => HalfDone(q)' /\ InQueue(f)'
  BY <1>6, <1>7 DEF HalfDone, AfterReboot, Fit, InQueue, f
<1>13. PairsMatch' /\ NothingOlderQueued'
  BY <1>0, <1>3, <1>8, <1>10 DEF Publishing, PairsMatch, NothingOlderQueued, Stories
<1>14. PairInProgress'
  BY <1>1, <1>3, <1>8, <1>11, <1>12 DEF Publishing, PairInProgress, f
<1>. QED
  BY <1>8, <1>9, <1>13, <1>14 DEF Publishing

\* With the library the pair is whole again, now or after the reboot.
LEMMA DllPublishes ==
    ASSUME TypeOK, ToPublish, Guarded, Publishing, InstallDll
    PROVE  /\ Publishing' /\ story'.wroteTheirs = story.wroteTheirs
           /\ story'.downgraded = story.downgraded
<1>0. story \in Stories /\ DiskOK /\ ControlOK /\ state \in States
  BY TypeParts
<1>. PICK q : q = NextPair
  OBVIOUS
<1>. DEFINE f == Dll(q)
<1>1. /\ pc = "dll" /\ pc' = "pair" /\ InstallHookFile(f)
      /\ UNCHANGED <<payload, state>>
  BY DEF InstallDll, run
<1>2. q \in Pairs /\ payload[q] # 0
  BY <1>0, <1>1, NextPairIsThere
<1>3. InProgress = {q} /\ InProgress' = {}
  BY <1>1 DEF InProgress
<1>4. f \in Files /\ f[1] = q /\ Manifest(q) \in Files \ {f}
  BY <1>2, PairFiles
<1>5. /\ \A g \in Files \ {f} : files'[g] = files[g] /\ staged'[g] = staged[g]
      /\ pending \subseteq pending'
  BY <1>0, <1>1, <1>2, InstallFields DEF ControlOK
<1>6. PICK done \in BOOLEAN, kept \in SUBSET {f} :
         /\ story' = Told(f, done, kept) \/ story' = Replaced({f}, Told(f, done, kept))
         /\ done /\ kept = {} =>
               \/ staged'[f] = NoFile /\ files'[f] = Ours(q)
               \/ staged'[f] = Ours(q) /\ f \in pending' /\ files'[f] \in {files[f], NoFile}
  BY <1>0, <1>1, <1>2, InstallFields DEF ControlOK
<1>7. /\ Ours(q).acl = "inherit" /\ Ours(q) # NoFile /\ Ours(q)' = Ours(q)
      /\ Ours(q).version = payload[q]
  BY <1>0, <1>1, <1>2, OursIsFile DEF ControlOK, Ours
<1>8. /\ q \in story.believed => q \in state.pairWasTrusted
      /\ q \in state.pairWasTrusted \ story.unsettled => NotNewer(q)
      /\ q \notin Loose => HalfDone(q) /\ InQueue(Manifest(q))
  BY <1>1, <1>3 DEF Publishing, PairInProgress
<1>9. files[f] \in File /\ payload[q] \in 0 .. MaxVersion
  BY <1>0, <1>2, <1>4 DEF DiskOK, ControlOK
<1>10. /\ files[f].version \in 0 .. MaxVersion
  BY <1>9, FileFields
<1>11. \/ ~FileIsTrusted(f)
       \/ q \notin state.pairWasTrusted \ story.unsettled
       \/ ~(FileVersion(f) > payload[q])
  <2>1. SUFFICES ASSUME files[f].acl = "inherit", NotNewer(q)
                 PROVE  ~(files[f].version > payload[q])
    BY <1>8 DEF FileIsTrusted, FileVersion
  <2>. QED
    BY <1>9, <1>10, <2>1, HookDirAssumption DEF NotNewer
<1>12. /\ story'.believed = story.believed
       /\ \A p \in Pairs \ {q} : p \in Loose' <=> p \in Loose
       /\ ~done \/ kept # {} => q \in Loose'
       /\ story.unsettled \subseteq story'.unsettled /\ Loose \subseteq Loose'
       /\ story'.wroteTheirs = story.wroteTheirs
       /\ story'.downgraded = story.downgraded
  <2>. DEFINE st == Told(f, done, kept)
  <2>1. ObjectIsTrusted \/ story.disturbed
    BY <1>1 DEF Guarded
  <2>2. /\ st \in Stories /\ st.believed = story.believed
        /\ done => st.unsettled = story.unsettled
        /\ ~done => st.unsettled = story.unsettled \cup {q}
        /\ kept = {} => st.undiscarded = story.undiscarded
        /\ kept # {} => st.undiscarded = story.undiscarded \cup {q}
        /\ st.wroteTheirs = story.wroteTheirs
    BY <1>0, <1>4, <2>1, ToldFields
  <2>4. st.downgraded = story.downgraded
    BY <1>0, <1>4, <1>11, ToldFields
  <2>. HIDE DEF st
  <2>3. /\ story'.believed = st.believed /\ story'.unsettled = st.unsettled
        /\ story'.undiscarded = st.undiscarded /\ story'.wroteTheirs = st.wroteTheirs
        /\ story'.downgraded = st.downgraded
    BY <1>6, <2>2, ReplacedFields DEF st
  <2>5. story'.wroteTheirs = story.wroteTheirs
    BY <2>2, <2>3
  <2>6. story'.downgraded = story.downgraded
    BY <2>3, <2>4
  <2>7. /\ \A p \in Pairs \ {q} : p \in Loose' <=> p \in Loose
        /\ ~done \/ kept # {} => q \in Loose'
        /\ story.unsettled \subseteq story'.unsettled /\ Loose \subseteq Loose'
    BY <2>2, <2>3 DEF Loose
  <2>. QED
    BY <2>2, <2>3, <2>5, <2>6, <2>7
<1>14. ASSUME NEW p \in Pairs, p # q
       PROVE  /\ Matched(p)' = Matched(p) /\ NotOlder(p)' = NotOlder(p)
              /\ InQueue(Dll(p)) => InQueue(Dll(p))'
              /\ InQueue(Manifest(p)) => InQueue(Manifest(p))'
  <2>1. Dll(p) \in Files \ {f} /\ Manifest(p) \in Files \ {f}
    BY <1>2, <1>14, PairFiles
  <2>. QED
    BY <1>5, <2>1 DEF Matched, NotOlder, AfterReboot, InQueue
<1>13. Queued'
  <2>1. q \notin Loose' => InQueue(f)' /\ InQueue(Manifest(q))'
    BY <1>4, <1>5, <1>6, <1>8, <1>12 DEF InQueue
  <2>. QED
    BY <1>3, <1>12, <1>14, <2>1 DEF Publishing, Queued
<1>15. done /\ kept = {} /\ q \notin Loose => Matched(q)'
  <2>1. AfterReboot(Manifest(q))' = AfterReboot(Manifest(q))
    BY <1>4, <1>5 DEF AfterReboot
  <2>2. done /\ kept = {} => AfterReboot(f)' = Ours(q)
    BY <1>6, <1>7 DEF AfterReboot
  <2>. QED
    BY <1>7, <1>8, <2>1, <2>2 DEF Matched, HalfDone, Fit
<1>16. done /\ kept = {} /\ NotNewer(q) => NotOlder(q)'
  <2>1. SUFFICES ASSUME done, kept = {}, NotNewer(q), staged'[f] # NoFile, files'[f].acl = "inherit"
                 PROVE  staged'[f].version >= files'[f].version
    BY DEF NotOlder
  <2>2. staged'[f] = Ours(q) /\ files'[f] = files[f]
    BY <1>6, <2>1 DEF NoFile
  <2>3. files[f].version < payload[q]
    BY <2>1, <2>2 DEF NotNewer
  <2>. QED
    BY <1>7, <1>9, <1>10, <2>2, <2>3, HookDirAssumption
<1>. HIDE DEF f
<1>19. q \in story.believed \ Loose => NotNewer(q)
  BY <1>8 DEF Loose
<1>17. PairsMatch' /\ NothingOlderQueued'
  BY <1>0, <1>3, <1>12, <1>14, <1>15, <1>16, <1>19
     DEF Publishing, PairsMatch, NothingOlderQueued, Stories
<1>18. PairInProgress'
  BY <1>3 DEF PairInProgress
<1>. QED
  BY <1>12, <1>13, <1>17, <1>18 DEF Publishing

\* Every step keeps what is published in order.
LEMMA PublishingStep ==
    ASSUME TypeOK, ToPublish, Guarded, Publishing, [Next]_vars
    PROVE  Publishing'
<1>0. DiskOK /\ ControlOK /\ story \in Stories
  BY TypeParts
<1>1. CASE QuarantineMoves \/ OtherInstalls \/ Reboot \/ KeepPair \/ StartPair
           \/ InstallManifest \/ InstallDll
  BY <1>1, QuarantineKeeps, OthersKeep, RebootPublishes, KeepPublishes, StartPublishes,
     ManifestPublishes, DllPublishes
<1>2. CASE ~(QuarantineMoves \/ OtherInstalls \/ Reboot \/ KeepPair \/ StartPair
             \/ InstallManifest \/ InstallDll)
  <2>1. /\ story'.unsettled = story.unsettled /\ story'.believed = story.believed
        /\ story'.undiscarded = story.undiscarded
    BY <1>0, <1>2, StoryStep
  <2>2. /\ UNCHANGED <<staged, pending>>
        /\ \A f \in Files : files'[f] = files[f] \/ files'[f].acl # "inherit"
    <3>1. CASE Purge
      BY <3>1 DEF Purge, NoFile
    <3>2. CASE AnyoneWrites
      BY <1>0, <3>2 DEF AnyoneWrites, DiskOK
    <3>. QED
      BY <1>2, <3>1, <3>2, FilesChange
  <2>. QED
    BY <1>2, <2>1, <2>2, LostKeeps
<1>. QED
  BY <1>1, <1>2

\* The invariant holds before the first run.
LEMMA InitPublishes == Init => PublishInv
<1>. SUFFICES ASSUME Init PROVE PublishInv
  OBVIOUS
<1>1. /\ pc = "idle" /\ resolved = TRUE /\ caller = "client"
      /\ state = Unattempted /\ sample = NoSample
      /\ payload = [p \in Pairs |-> 0] /\ todo = {} /\ result = "none"
      /\ runs = 0 /\ changes = 0
  BY DEF Init
<1>2. /\ dir \in DirKind
      /\ files = [f \in Files |-> IF dir \in {"absent", "link"}
                                  THEN NoFile ELSE [version |-> 1, acl |-> "inherit"]]
      /\ staged = [f \in Files |-> NoFile] /\ pending = {} /\ held = {}
      /\ layer = Pairs
  BY DEF Init
<1>3. story = [disturbed |-> FALSE, registered |-> FALSE, wroteTheirs |-> FALSE,
               downgraded |-> FALSE, unsettled |-> {}, believed |-> {},
               undiscarded |-> {}, foreign |-> {}, undeleted |-> {}]
  BY DEF Init
<1>4. NoFile \in File /\ [version |-> 1, acl |-> "inherit"] \in File
  BY HookDirAssumption DEF File
<1>5. DiskOK
  BY <1>2, <1>4 DEF DiskOK
<1>6. ControlOK
  <2>1. 0 \in 0 .. MaxVersion /\ 0 \in 0 .. MaxRuns /\ 0 \in 0 .. MaxChanges
    BY HookDirAssumption
  <2>. QED
    BY <1>1, <2>1 DEF ControlOK, NoSample
<1>7. state \in States /\ story \in Stories
  BY <1>1, <1>3 DEF States, Stories, Unattempted, Outcomes
<1>8. InProgress = {}
  BY <1>1 DEF InProgress
<1>9. \A f \in Files : staged[f] = NoFile
  BY <1>2
<1>10. ASSUME NEW p \in Pairs PROVE Matched(p) /\ NotOlder(p)
  <2>1. files[Dll(p)] = files[Manifest(p)]
    BY <1>2, PairFiles
  <2>. QED
    BY <1>9, <2>1, PairFiles DEF Matched, NotOlder, Fit, AfterReboot
<1>11. Publishing
  BY <1>3, <1>8, <1>9, <1>10, PairFiles
     DEF Publishing, Queued, InQueue, PairsMatch, NothingOlderQueued, PairInProgress
<1>12. Guarded /\ ToPublish
  BY <1>1 DEF Guarded, ToPublish
<1>13. NothingIntoDrifted /\ NewestWins
  BY <1>3 DEF NothingIntoDrifted, NewestWins
<1>. QED
  BY <1>5, <1>6, <1>7, <1>11, <1>12, <1>13, TypeParts DEF PublishInv

\* Every step keeps the invariant.
LEMMA StepPublishes == PublishInv /\ [Next]_vars => PublishInv'
<1>. SUFFICES ASSUME PublishInv, [Next]_vars PROVE PublishInv'
  OBVIOUS
<1>. USE DEF PublishInv
<1>1. DiskOK /\ ControlOK /\ state \in States /\ story \in Stories
  BY TypeParts
<1>2. DiskOK' /\ ControlOK' /\ state' \in States /\ story' \in Stories
  BY <1>1, DiskStep, ControlStep, StateStep, StoryStep
<1>3. TypeOK'
  BY <1>2 DEF TypeOK, DiskOK, ControlOK, States, Stories
<1>4. Guarded' /\ ToPublish' /\ Publishing'
  BY GuardedStep, ToPublishStep, PublishingStep
<1>5. story'.wroteTheirs = story.wroteTheirs /\ story'.downgraded = story.downgraded
  BY <1>1, StoryStep, ManifestPublishes, DllPublishes, RebootPublishes
<1>6. NothingIntoDrifted' /\ NewestWins'
  BY <1>5 DEF NothingIntoDrifted, NewestWins
<1>. QED
  BY <1>3, <1>4, <1>6

\* PublishesSoundly (publish_hooks and install_hook_file): whatever the other programs do,
\* nothing is published into a directory that was found untrusted, no older library
\* replaces a newer one that was believed, and a pair of two versions is whole after the
\* next reboot, unless its installation failed or was interfered with, or a queued copy
\* could not be deleted.
THEOREM PublishingIsSound == Spec => []PublishesSoundly
<1>1. Init => PublishInv
  BY InitPublishes
<1>2. PublishInv /\ [Next]_vars => PublishInv'
  BY StepPublishes
<1>3. PublishInv => PublishesSoundly
  <2>. SUFFICES ASSUME PublishInv PROVE PublishesSoundly
    OBVIOUS
  <2>1. ASSUME NEW p \in Pairs, pc = "idle", Mixed(p),
               p \notin story.unsettled \cup story.undiscarded
        PROVE  \E f \in {Dll(p), Manifest(p)} \cap pending : staged[f] # NoFile
    <3>1. Matched(p)
      BY <2>1 DEF PublishInv, Publishing, PairsMatch, InProgress, Loose
    <3>2. ~(staged[Dll(p)] = NoFile /\ staged[Manifest(p)] = NoFile)
      BY <2>1, <3>1 DEF Mixed, Unmatched, Matched, Fit, AfterReboot, FileVersion
    <3>. QED
      BY <2>1, <3>2, PairFiles DEF PublishInv, Publishing, Queued, InQueue, InProgress, Loose
  <2>2. PairsConverge
    BY <2>1 DEF PairsConverge
  <2>. QED
    BY <2>2 DEF PublishInv, PublishesSoundly
<1>. QED
  BY <1>1, <1>2, <1>3, PTL DEF Spec

=============================================================================
