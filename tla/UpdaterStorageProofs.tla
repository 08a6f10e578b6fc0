------------------------ MODULE UpdaterStorageProofs ------------------------
(***************************************************************************)
(* Proofs about UpdaterStorage, for any updaters, runs and beginnings, in    *)
(* three parts.                                                            *)
(*                                                                         *)
(* 1. What the updater concludes from the access lists it reads, against    *)
(*    what Windows makes of them, for lists of any length and paths of any  *)
(*    depth (DirectoryTrust).                                               *)
(*                                                                         *)
(* 2. Locks and places.  OneUpdaterPerRun rests on the lock being held from *)
(*    the start of the work to its release.  WorksWhereTrusted needs more:  *)
(*    an updater has looked at the path of its run when it made it, and the *)
(*    path may change afterwards.  It does so only when another updater     *)
(*    moves the root aside, along with every run below it, so that no run   *)
(*    stands under a root that is missing.                                  *)
(*                                                                         *)
(* 3. The run directories themselves: active runs are kept, markers are      *)
(*    sound, and the backups of failed updates are kept for their time.     *)
(*    Each needs more than the one before, so the invariant grows in three  *)
(*    layers:                                                               *)
(*      Orderly  - IInv, the types; a lock that is held is a file that       *)
(*        exists, in a directory nobody has renamed; an undisputed          *)
(*        directory has one user; a cleanup runs in the updater's own run   *)
(*        or in one that was claimed;                                       *)
(*      Marking  - the entries of a run follow its updater's work, a cleanup *)
(*        removes the backup before the marker;                             *)
(*      Keeping  - times lie in the past, and what was judged old stays old. *)
(***************************************************************************)
EXTENDS UpdaterStorage, TLAPS

-----------------------------------------------------------------------------
(* Part 1: trust in directories *)

\* A SID that is not trusted is no owner the code accepts.
LEMMA OwnerIsTrusted ==
    ASSUME NEW o \in Objects, NEW mask, ObjectIsTrusted(o, mask)
    PROVE  o.owner # "users" /\ ~o.null
BY DEF ObjectIsTrusted, SidIsTrusted, TrustedSids

\* object_is_trusted: on an object that passes for a set of rights, a user who is not
\* trusted has none of these rights, whatever the order of the entries.
THEOREM TrustedObjectIsClosed ==
    ASSUME NEW o \in Objects, NEW mask \in SUBSET Rights, ObjectIsTrusted(o, mask)
    PROVE  MayDo(o, "users") \cap mask = {}
<1>1. o.owner # "users" /\ ~o.null
  BY OwnerIsTrusted
<1>2. SUFFICES ASSUME NEW r \in mask, NEW i \in DOMAIN o.aces,
                      Applies(o.aces[i], "users"), r \in o.aces[i].mask,
                      o.aces[i].type # "deny"
               PROVE  FALSE
  BY <1>1 DEF MayDo
<1>3. AceIsHarmless(o.aces[i], mask)
  BY DEF ObjectIsTrusted
<1>4. "only" \notin o.aces[i].flags /\ o.aces[i].to = "users"
  BY <1>2 DEF Applies
<1>5. ~SidIsTrusted(o.aces[i].to)
  BY <1>4 DEF SidIsTrusted, TrustedSids
<1>6. o.aces[i].mask \cap mask = {}
  BY <1>2, <1>3, <1>4, <1>5 DEF AceIsHarmless
<1>. QED
  BY <1>2, <1>6

\* updater_acl_is_valid: the two entries are all there is in the list.
LEMMA UpdaterAclIsTwoEntries ==
    ASSUME NEW o \in Objects, UpdaterAclIsValid(o), NEW i \in DOMAIN o.aces
    PROVE  o.aces[i] \in {FullControl("administrators"), FullControl("system")}
<1>1. o.aces \in Seq(Aces) /\ Len(o.aces) = 2
  BY DEF Objects, UpdaterAclIsValid
<1>2. DOMAIN o.aces = {1, 2}
  BY <1>1
<1>3. PICK a \in DOMAIN o.aces : o.aces[a] = FullControl("administrators")
  BY DEF UpdaterAclIsValid
<1>4. PICK s \in DOMAIN o.aces : o.aces[s] = FullControl("system")
  BY DEF UpdaterAclIsValid
<1>5. FullControl("administrators") # FullControl("system")
  BY DEF FullControl
<1>6. a # s
  BY <1>3, <1>4, <1>5
<1>7. i = a \/ i = s
  BY <1>2, <1>6
<1>. QED
  BY <1>3, <1>4, <1>7

\* updater_acl_is_valid: in a directory that passes, a user who is not trusted may do
\* nothing at all, and what is made in it hands no right of its down to one.
THEOREM UpdaterDirectoryIsPrivate ==
    ASSUME NEW o \in Objects, UpdaterAclIsValid(o)
    PROVE  MayDo(o, "users") = {} /\ ~HandsDown(o)
<1>1. o.owner = "administrators" /\ o.protected /\ ~o.null
  BY DEF UpdaterAclIsValid
<1>2. \A i \in DOMAIN o.aces : o.aces[i].to # "users" /\ SidIsTrusted(o.aces[i].to)
  BY UpdaterAclIsTwoEntries DEF FullControl, SidIsTrusted, TrustedSids, Sids
<1>3. MayDo(o, "users") = {}
  BY <1>1, <1>2 DEF MayDo, Applies
<1>4. ~HandsDown(o)
  BY <1>1, <1>2 DEF HandsDown
<1>. QED
  BY <1>3, <1>4

\* kUpdaterDirSddl and updater_acl_is_valid agree: what the updater makes passes.
THEOREM OwnDirectoriesPass ==
    UpdaterAclIsValid(UpdaterDir) /\ ObjectIsTrusted(UpdaterDir, WriteAccess)
<1>1. UpdaterDir.aces = <<FullControl("system"), FullControl("administrators")>>
  BY DEF UpdaterDir
<1>2. /\ UpdaterDir.owner = "administrators" /\ UpdaterDir.protected
      /\ ~UpdaterDir.null /\ UpdaterDir.kind = "directory"
  BY DEF UpdaterDir
<1>3. /\ DOMAIN UpdaterDir.aces = {1, 2} /\ Len(UpdaterDir.aces) = 2
      /\ UpdaterDir.aces[1] = FullControl("system")
      /\ UpdaterDir.aces[2] = FullControl("administrators")
  BY <1>1
<1>4. UpdaterAclIsValid(UpdaterDir)
  BY <1>2, <1>3 DEF UpdaterAclIsValid
<1>5. \A i \in DOMAIN UpdaterDir.aces : AceIsHarmless(UpdaterDir.aces[i], WriteAccess)
  BY <1>3 DEF AceIsHarmless, FullControl, SidIsTrusted, TrustedSids, Sids
<1>6. ObjectIsTrusted(UpdaterDir, WriteAccess)
  BY <1>2, <1>5 DEF ObjectIsTrusted, SidIsTrusted, TrustedSids, Sids
<1>. QED
  BY <1>4, <1>6

\* chain_trust: of a path that passes, up to the root of the volume, no component can
\* be exchanged by a user who is not trusted.
THEOREM TrustedChainHolds ==
    ASSUME NEW path \in Seq(Objects), path # << >>,
           ChainTrust(path).object, ChainTrust(path).ancestors
    PROVE  ~Exchangeable(path, "users")
<1>1. SUFFICES ASSUME NEW i \in 2 .. Len(path)
               PROVE  /\ path[i].kind # "link"
                      /\ {"delete", "control"} \cap MayDo(path[i], "users") = {}
                      /\ {"deleteChild", "control"} \cap MayDo(path[i - 1], "users") = {}
  BY DEF Exchangeable
<1>2. /\ Len(path) \in Nat /\ i - 1 \in 1 .. Len(path) - 1
      /\ path[i] \in Objects /\ path[i - 1] \in Objects
  OBVIOUS
<1>3. \E mask \in SUBSET Rights :
         ObjectIsTrusted(path[i], mask) /\ {"delete", "control"} \subseteq mask
  <2>1. CASE i = Len(path)
    BY <2>1 DEF ChainTrust, WriteAccess, Rights
  <2>2. CASE i # Len(path)
    <3>1. i \in 1 .. Len(path) - 1 /\ i # 1
      BY <1>2, <2>2
    <3>2. ObjectIsTrusted(path[i], AncestorWriteAccess)
      BY <3>1 DEF ChainTrust
    <3>. QED
      BY <3>2 DEF AncestorWriteAccess, Rights
  <2>. QED
    BY <2>1, <2>2
<1>4. \E mask \in SUBSET Rights :
         ObjectIsTrusted(path[i - 1], mask) /\ {"deleteChild", "control"} \subseteq mask
  <2>1. CASE i - 1 = 1
    <3>1. ObjectIsTrusted(path[i - 1], RootWriteAccess)
      BY <1>2, <2>1 DEF ChainTrust
    <3>. QED
      BY <3>1 DEF RootWriteAccess, AncestorWriteAccess, Rights
  <2>2. CASE i - 1 # 1
    <3>1. ObjectIsTrusted(path[i - 1], AncestorWriteAccess)
      BY <1>2, <2>2 DEF ChainTrust
    <3>. QED
      BY <3>1 DEF AncestorWriteAccess, Rights
  <2>. QED
    BY <2>1, <2>2
<1>5. {"delete", "control"} \cap MayDo(path[i], "users") = {}
  BY <1>2, <1>3, TrustedObjectIsClosed
<1>6. {"deleteChild", "control"} \cap MayDo(path[i - 1], "users") = {}
  BY <1>2, <1>4, TrustedObjectIsClosed
<1>7. path[i].kind # "link"
  BY <1>3 DEF ObjectIsTrusted
<1>. QED
  BY <1>5, <1>6, <1>7

-----------------------------------------------------------------------------
(* Part 2: locks and places *)

\* Those that list the root or make a run in it ...
Listing == {"list", "listing", "create"}

\* ... have a run, hold its lock, and may change it.
Using   == {"lock", "work", "moving", "ending", "exit", "unlocked", "cleanup"}
Holding == {"work", "moving", "ending", "exit"}
Working == {"lock", "work", "moving", "ending"}

Shapes ==
    /\ root \in Objects /\ above \in Seq(Objects)
    /\ place \in [Dirs -> {"unused", "run", "prune", "gone", "aside"}]
    /\ lock \in [Dirs -> Updaters \cup {NoOne}]
    /\ pc \in [Updaters -> Phases]
    /\ run \in [Updaters -> Dirs \cup {NoRun}]
    /\ warned \in [Updaters -> BOOLEAN]

RunIsMade ==
    \A u \in Updaters :
        pc[u] \in Using => /\ run[u] \in Dirs
                           /\ run[u] \in Runs => place[run[u]] # "unused"

LockIsHeld == \A u \in Updaters : pc[u] \in Holding => lock[run[u]] = u

RunsGoWithRoot == root.kind = "missing" => \A d \in Runs : ~Exists(d)

ExplicitIsSafe ==
    \A u \in Updaters :
        pc[u] \in Working /\ run[u] \in Explicit => ~Exchangeable(ExplicitPath, "users")

RunIsSafe ==
    \A u \in Updaters :
        /\ pc[u] \in Working /\ run[u] \in Runs /\ place[run[u]] = "run"
        /\ Exchangeable(RunPath, "users")
        => warned[u]

IInv ==
    /\ Shapes
    /\ RunIsMade
    /\ LockIsHeld
    /\ RunsGoWithRoot
    /\ ExplicitIsSafe
    /\ RunIsSafe
    /\ RootIsOurs
    /\ AsideStays

\* What the invariant is about
core == <<root, above, aside, place, lock, pc, run, warned>>

-----------------------------------------------------------------------------
(* Paths *)

LEMMA MissingIsObject == Missing \in Objects
BY DEF Missing, Objects, Sids, Aces

LEMMA UpdaterDirIsObject == UpdaterDir \in Objects /\ UpdaterDir.kind = "directory"
<1>1. FullControl("system") \in Aces /\ FullControl("administrators") \in Aces
  BY DEF FullControl, Aces, Sids, Rights, Inherited
<1>2. <<FullControl("system"), FullControl("administrators")>> \in Seq(Aces)
  BY <1>1
<1>. QED
  BY <1>2 DEF UpdaterDir, Objects, Sids

LEMMA PathsGrow ==
    ASSUME NEW path \in Seq(Objects), NEW o \in Objects
    PROVE  /\ Append(path, o) \in Seq(Objects) /\ Append(path, o) # << >>
           /\ Append(path, o)[Len(Append(path, o))] = o
<1>1. Append(path, o) \in Seq(Objects)
  OBVIOUS
<1>2. Append(path, o) # << >>
  <2>1. Len(Append(path, o)) = Len(path) + 1 /\ Len(path) \in Nat
    OBVIOUS
  <2>. QED
    BY <2>1
<1>3. Append(path, o)[Len(Append(path, o))] = o
  OBVIOUS
<1>. QED
  BY <1>1, <1>2, <1>3

LEMMA PathsAreSequences ==
    ASSUME Shapes
    PROVE  /\ RootPath \in Seq(Objects) /\ RootPath # << >>
           /\ RunPath \in Seq(Objects) /\ RunPath # << >>
           /\ ExplicitPath \in Seq(Objects) /\ ExplicitPath # << >>
           /\ RootPath[Len(RootPath)] = root
<1>1. root \in Objects /\ above \in Seq(Objects) /\ UpdaterDir \in Objects
  BY UpdaterDirIsObject DEF Shapes
<1>2. RootPath \in Seq(Objects) /\ RootPath # << >> /\ RootPath[Len(RootPath)] = root
  BY <1>1, PathsGrow DEF RootPath
<1>3. RunPath \in Seq(Objects) /\ RunPath # << >>
  BY <1>1, <1>2, PathsGrow DEF RunPath
<1>4. ExplicitPath \in Seq(Objects) /\ ExplicitPath # << >>
  BY <1>1, PathsGrow DEF ExplicitPath
<1>. QED
  BY <1>2, <1>3, <1>4

\* A directory that is trusted like one of the updater's own is closed to others.
LEMMA TrustedIsOurs ==
    ASSUME NEW path \in Seq(Objects), path # << >>, TrustedDirectory(path, FALSE)
    PROVE  LET o == path[Len(path)] IN
           /\ o.kind = "directory" /\ ~HandsDown(o)
           /\ MayDo(o, "users") \cap WriteAccess = {}
<1>1. path[Len(path)] \in Objects /\ UpdaterAclIsValid(path[Len(path)])
  BY DEF TrustedDirectory
<1>2. ObjectIsTrusted(path[Len(path)], WriteAccess)
  BY DEF TrustedDirectory, ChainTrust
<1>3. path[Len(path)].kind = "directory"
  BY <1>2 DEF ObjectIsTrusted, TrustedDirectory
<1>. QED
  BY <1>1, <1>3, UpdaterDirectoryIsPrivate

\* A path that is trusted with its ancestors cannot be exchanged.
LEMMA TrustedPathStays ==
    ASSUME NEW path \in Seq(Objects), path # << >>,
           NEW enforce \in BOOLEAN, TrustedDirectory(path, enforce),
           ChainTrust(path).ancestors
    PROVE  ~Exchangeable(path, "users")
BY TrustedChainHolds DEF TrustedDirectory

-----------------------------------------------------------------------------
(* Steps that change little of what the invariant is about *)

LEMMA InitInv == Init => IInv
<1> SUFFICES ASSUME Init PROVE IInv
  OBVIOUS
<1>1. \A u \in Updaters : pc[u] = "off"
  BY DEF Init
<1>2. Shapes
  BY BeginningsAssumption DEF Init, Shapes, Phases
<1>3. \A d \in Dirs : place[d] = "unused"
  BY DEF Init
<1>4. RunsGoWithRoot /\ AsideStays
  BY <1>3 DEF RunsGoWithRoot, AsideStays, Exists, Dirs
<1>5. RunIsMade /\ LockIsHeld
  BY <1>1 DEF RunIsMade, LockIsHeld, Using, Holding
<1>6. ExplicitIsSafe /\ RunIsSafe /\ RootIsOurs
  BY <1>1 DEF ExplicitIsSafe, RunIsSafe, RootIsOurs, Working
<1>. QED
  BY <1>2, <1>4, <1>5, <1>6 DEF IInv

\* Nothing changes.
LEMMA Stutters == ASSUME IInv, UNCHANGED core PROVE IInv'
<1> USE DEF IInv, core
<1>1. Shapes'
  BY DEF Shapes
<1>2. RunIsMade' /\ LockIsHeld' /\ RunsGoWithRoot'
  BY DEF RunIsMade, LockIsHeld, RunsGoWithRoot, Exists
<1>3. RunPath' = RunPath /\ ExplicitPath' = ExplicitPath
  BY DEF RunPath, RootPath, ExplicitPath
<1>4. ExplicitIsSafe' /\ RunIsSafe'
  BY <1>3 DEF ExplicitIsSafe, RunIsSafe
<1>5. RootIsOurs' /\ AsideStays'
  BY DEF RootIsOurs, AsideStays
<1>. QED
  BY <1>1, <1>2, <1>4, <1>5

\* An updater goes on to a phase that asks no more of it.
LEMMA GoesOn ==
    ASSUME IInv, NEW u \in Updaters, NEW to \in Phases, Goes(u, to),
           UNCHANGED <<root, above, place, lock, run, warned>>, AsideStays',
           to \in Listing => pc[u] \in Listing,
           to \in Using => pc[u] \in Using,
           to \in Holding => pc[u] \in Holding,
           to \in Working => pc[u] \in Working
    PROVE  IInv'
<1> USE DEF IInv
<1>1. pc \in [Updaters -> Phases] /\ pc' = [pc EXCEPT ![u] = to]
  BY DEF Shapes, Goes
<1>2. \A v \in Updaters : /\ pc'[v] \in Listing => pc[v] \in Listing
                          /\ pc'[v] \in Using => pc[v] \in Using
                          /\ pc'[v] \in Holding => pc[v] \in Holding
                          /\ pc'[v] \in Working => pc[v] \in Working
  BY <1>1
<1>3. Shapes'
  BY <1>1 DEF Shapes
<1>4. RunIsMade' /\ LockIsHeld' /\ RunsGoWithRoot'
  BY <1>2 DEF RunIsMade, LockIsHeld, RunsGoWithRoot, Exists
<1>5. RunPath' = RunPath /\ ExplicitPath' = ExplicitPath
  BY DEF RunPath, RootPath, ExplicitPath
<1>6. ExplicitIsSafe' /\ RunIsSafe'
  BY <1>2, <1>5 DEF ExplicitIsSafe, RunIsSafe
<1>7. RootIsOurs'
  BY <1>2 DEF RootIsOurs, Listing
<1>. QED
  BY <1>3, <1>4, <1>6, <1>7

\* An updater ends, at whatever point: what it holds is free, and nobody else's is.
LEMMA EndsSafely ==
    ASSUME IInv, NEW u \in Updaters, Ends(u), UNCHANGED <<roots, place>>
    PROVE  IInv'
<1> USE DEF IInv
<1>1. pc \in [Updaters -> Phases] /\ pc' = [pc EXCEPT ![u] = "off"]
  BY DEF Shapes, Ends, Goes
<1>2. \A v \in Updaters : pc'[v] # "off" => v # u /\ pc'[v] = pc[v]
  BY <1>1
<1>3. /\ run' = [run EXCEPT ![u] = NoRun] /\ warned' = [warned EXCEPT ![u] = FALSE]
      /\ lock' = [d \in Dirs |-> IF lock[d] = u THEN NoOne ELSE lock[d]]
      /\ UNCHANGED <<root, above, aside, place>>
  BY DEF Ends, roots
<1>4. \A v \in Updaters : v # u => run'[v] = run[v] /\ warned'[v] = warned[v]
  BY <1>3 DEF Shapes
<1>5. Shapes'
  BY <1>1, <1>3 DEF Shapes, Phases
<1>6. RunIsMade'
  BY <1>2, <1>3, <1>4 DEF RunIsMade, Using
<1>7. LockIsHeld'
  <2>1. SUFFICES ASSUME NEW v \in Updaters, pc'[v] \in Holding
                 PROVE  lock'[run'[v]] = v
    BY DEF LockIsHeld
  <2>2. v # u /\ pc[v] \in Holding /\ run'[v] = run[v]
    BY <1>2, <1>4, <2>1 DEF Holding
  <2>3. run[v] \in Dirs /\ lock[run[v]] = v
    BY <2>2 DEF RunIsMade, LockIsHeld, Holding, Using
  <2>. QED
    BY <1>3, <2>2, <2>3
<1>8. RunPath' = RunPath /\ ExplicitPath' = ExplicitPath
  BY <1>3 DEF RunPath, RootPath, ExplicitPath
<1>9. ExplicitIsSafe' /\ RunIsSafe'
  BY <1>2, <1>3, <1>4, <1>8 DEF ExplicitIsSafe, RunIsSafe, Working
<1>10. RootIsOurs' /\ RunsGoWithRoot' /\ AsideStays'
  BY <1>2, <1>3 DEF RootIsOurs, RunsGoWithRoot, AsideStays, Exists
<1>. QED
  BY <1>5, <1>6, <1>7, <1>9, <1>10

-----------------------------------------------------------------------------
(* Steps that secure the root *)

LEMMA StartKeeps == ASSUME IInv, NEW u \in Updaters, Start(u) PROVE IInv'
<1> USE DEF IInv
<1>1. PICK to \in {"root", "list", "quarantine"} :
         /\ pc' = [pc EXCEPT ![u] = to]
         /\ to = "list" => root.kind # "missing" /\ TrustedDirectory(RootPath, FALSE)
  BY DEF Start, Goes
<1>2. UNCHANGED <<root, above, aside, place, lock, run>>
  BY DEF Start, disk, roots
<1>3. pc[u] = "off" /\ pc \in [Updaters -> Phases]
  BY DEF Start, Shapes
<1>4. warned' \in [Updaters -> BOOLEAN] /\ \A v \in Updaters \ {u} : warned'[v] = warned[v]
  <2>1. CASE warned' = warned
    BY <2>1 DEF Shapes
  <2>2. CASE Warns(u, RootPath)
    BY <2>2 DEF Warns, Shapes
  <2>. QED
    BY <2>1, <2>2 DEF Start
<1>5. \A v \in Updaters : pc'[v] \in Using => v # u /\ pc'[v] = pc[v]
  BY <1>1, <1>3 DEF Using
<1>6. Shapes'
  BY <1>1, <1>2, <1>3, <1>4 DEF Shapes, Phases
<1>7. RunIsMade' /\ LockIsHeld' /\ RunsGoWithRoot' /\ AsideStays'
  BY <1>2, <1>5 DEF RunIsMade, LockIsHeld, RunsGoWithRoot, AsideStays, Exists,
                    Using, Holding
<1>8. RunPath' = RunPath /\ ExplicitPath' = ExplicitPath
  BY <1>2 DEF RunPath, RootPath, ExplicitPath
<1>9. ExplicitIsSafe' /\ RunIsSafe'
  BY <1>2, <1>4, <1>5, <1>8 DEF ExplicitIsSafe, RunIsSafe, Working, Using
<1>10. RootIsOurs'
  <2>1. CASE \E v \in Updaters : pc[v] \in Listing
    BY <1>2, <2>1 DEF RootIsOurs, Listing
  <2>2. CASE to = "list"
    <3>1. /\ root.kind = "directory" /\ ~HandsDown(root)
          /\ MayDo(root, "users") \cap WriteAccess = {}
      BY <1>1, <2>2, PathsAreSequences, TrustedIsOurs
    <3>. QED
      BY <1>2, <3>1 DEF RootIsOurs
  <2>3. CASE to # "list" /\ ~\E v \in Updaters : pc[v] \in Listing
    BY <1>1, <1>3, <2>3 DEF RootIsOurs, Listing
  <2>. QED
    BY <2>1, <2>2, <2>3
<1>. QED
  BY <1>6, <1>7, <1>9, <1>10

\* The root is moved aside, and every run below it.
LEMMA QuarantineKeeps == ASSUME IInv, NEW u \in Updaters, Quarantine(u) PROVE IInv'
<1> USE DEF IInv
<1>1. /\ pc' = [pc EXCEPT ![u] = "root"] /\ pc[u] = "quarantine"
      /\ pc \in [Updaters -> Phases]
  BY DEF Quarantine, Goes, Shapes
<1>2. /\ root' = Missing /\ UNCHANGED <<above, lock, run, warned>>
      /\ place' = [d \in Dirs |-> IF d \in Runs /\ Exists(d) THEN "aside" ELSE place[d]]
  BY DEF Quarantine, params
<1>3. \A v \in Updaters : /\ pc'[v] \in Using => pc'[v] = pc[v]
                          /\ pc'[v] \in Listing => pc'[v] = pc[v]
  BY <1>1 DEF Using, Listing
<1>4. Shapes'
  BY <1>1, <1>2, MissingIsObject DEF Shapes, Phases
<1>5. Runs \subseteq Dirs
  BY DEF Dirs
<1>6. \A d \in Runs : place'[d] \notin {"run", "prune"}
  BY <1>2, <1>5 DEF Exists
<1>7. \A d \in Runs : place[d] # "unused" => place'[d] # "unused"
  BY <1>2, <1>5
<1>8. RunIsMade' /\ LockIsHeld'
  BY <1>2, <1>3, <1>7 DEF RunIsMade, LockIsHeld, Using, Holding
<1>9. RunsGoWithRoot'
  BY <1>6 DEF RunsGoWithRoot, Exists
<1>10. ExplicitPath' = ExplicitPath
  BY <1>2 DEF ExplicitPath
<1>11. ExplicitIsSafe'
  BY <1>2, <1>3, <1>10 DEF ExplicitIsSafe, Working, Using
<1>12. RunIsSafe'
  BY <1>6 DEF RunIsSafe
<1>13. RootIsOurs'
  BY <1>2 DEF RootIsOurs, Missing
<1>14. AsideStays'
  <2>1. SUFFICES ASSUME NEW d \in Runs, place'[d] = "aside" PROVE "tree" \in aside'
    BY DEF AsideStays
  <2>2. aside \subseteq aside'
    BY DEF Quarantine
  <2>3. CASE Exists(d)
    BY <2>3 DEF Quarantine, RemovesQuarantineLeaf
  <2>4. CASE ~Exists(d)
    BY <1>2, <1>5, <2>1, <2>2, <2>4 DEF AsideStays
  <2>. QED
    BY <2>3, <2>4
<1>. QED
  BY <1>4, <1>8, <1>9, <1>11, <1>12, <1>13, <1>14

\* A root that is missing has no runs: a new one endangers none.
LEMMA CreateRootKeeps == ASSUME IInv, NEW u \in Updaters, CreateRoot(u) PROVE IInv'
<1> USE DEF IInv
<1>1. /\ pc' = [pc EXCEPT ![u] = "list"] /\ pc[u] = "root"
      /\ pc \in [Updaters -> Phases]
  BY DEF CreateRoot, Goes, Shapes
<1>2. /\ root.kind = "missing" /\ root' = UpdaterDir
      /\ UNCHANGED <<above, aside, place, lock, run>>
      /\ warned' = [warned EXCEPT ![u] = @ \/ ~ChainTrust(ExplicitPath).ancestors]
  BY DEF CreateRoot, Warns
<1>3. \A v \in Updaters : pc'[v] \in Using => v # u /\ pc'[v] = pc[v]
  BY <1>1 DEF Using
<1>4. warned' \in [Updaters -> BOOLEAN]
  BY <1>2 DEF Shapes
<1>5. Shapes'
  BY <1>1, <1>2, <1>4, UpdaterDirIsObject DEF Shapes, Phases
<1>6. RunIsMade' /\ LockIsHeld' /\ AsideStays'
  BY <1>2, <1>3 DEF RunIsMade, LockIsHeld, AsideStays, Using, Holding
<1>7. RunsGoWithRoot'
  BY <1>2, UpdaterDirIsObject DEF RunsGoWithRoot
<1>8. ExplicitPath' = ExplicitPath
  BY <1>2 DEF ExplicitPath
<1>9. ExplicitIsSafe'
  BY <1>2, <1>3, <1>8 DEF ExplicitIsSafe, Working, Using
<1>10. \A d \in Runs : place'[d] # "run"
  BY <1>2 DEF RunsGoWithRoot, Exists
<1>11. RunIsSafe'
  BY <1>10 DEF RunIsSafe
<1>12. RootIsOurs'
  <2>1. UpdaterAclIsValid(UpdaterDir) /\ ObjectIsTrusted(UpdaterDir, WriteAccess)
    BY OwnDirectoriesPass
  <2>2. MayDo(UpdaterDir, "users") = {} /\ ~HandsDown(UpdaterDir)
    BY <2>1, UpdaterDirIsObject, UpdaterDirectoryIsPrivate
  <2>. QED
    BY <1>2, <2>2, UpdaterDirIsObject DEF RootIsOurs
<1>. QED
  BY <1>5, <1>6, <1>7, <1>9, <1>11, <1>12

-----------------------------------------------------------------------------
(* Steps that make, reuse, lock, claim and remove a run directory *)

\* The path was looked at when the run was made.
LEMMA CreateRunKeeps == ASSUME IInv, NEW u \in Updaters, CreateRun(u) PROVE IInv'
<1> USE DEF IInv
<1>1. PICK d \in Runs : place[d] = "unused" /\ Made(u, d)
  BY DEF CreateRun
<1>2. /\ pc' = [pc EXCEPT ![u] = "lock"] /\ pc[u] = "create"
      /\ pc \in [Updaters -> Phases]
  BY <1>1 DEF CreateRun, Made, UsedBy, Goes, Shapes
<1>3. /\ place' = [place EXCEPT ![d] = "run"] /\ run' = [run EXCEPT ![u] = d]
      /\ UNCHANGED <<root, above, aside, lock>>
      /\ warned' = [warned EXCEPT ![u] = @ \/ ~ChainTrust(RunPath).ancestors]
  BY <1>1 DEF CreateRun, Made, UsedBy, Warns, roots
<1>4. /\ d \in Dirs /\ d \notin Explicit /\ Runs \subseteq Dirs
      /\ place \in [Dirs -> {"unused", "run", "prune", "gone", "aside"}]
      /\ run \in [Updaters -> Dirs \cup {NoRun}] /\ warned \in [Updaters -> BOOLEAN]
  BY RunsAssumption DEF Dirs, Shapes
<1>5. \A v \in Updaters \ {u} : pc'[v] = pc[v] /\ run'[v] = run[v] /\ warned'[v] = warned[v]
  BY <1>2, <1>3, <1>4
<1>6. pc'[u] = "lock" /\ run'[u] = d
      /\ (~ChainTrust(RunPath).ancestors => warned'[u])
  BY <1>2, <1>3, <1>4
<1>7. \A v \in Updaters \ {u} : pc[v] \in Using => run[v] # d
  BY <1>1 DEF RunIsMade
<1>8. \A e \in Dirs : place'[e] = IF e = d THEN "run" ELSE place[e]
  BY <1>3, <1>4
<1>9. Shapes'
  <2>1. warned' \in [Updaters -> BOOLEAN]
    BY <1>3, <1>4
  <2>. QED
    BY <1>2, <1>3, <1>4, <2>1 DEF Shapes, Phases
<1>10. RunIsMade'
  BY <1>4, <1>5, <1>6, <1>8 DEF RunIsMade
<1>11. LockIsHeld'
  BY <1>3, <1>5, <1>6 DEF LockIsHeld, Holding
<1>12. RunsGoWithRoot'
  BY <1>3 DEF RunsGoWithRoot, CreateRun
<1>13. RunPath' = RunPath /\ ExplicitPath' = ExplicitPath
  BY <1>3 DEF RunPath, RootPath, ExplicitPath
<1>14. ExplicitIsSafe'
  BY <1>4, <1>5, <1>6, <1>13 DEF ExplicitIsSafe
<1>15. RunIsSafe'
  <2>1. ~ChainTrust(RunPath).ancestors \/ ~Exchangeable(RunPath, "users")
    BY PathsAreSequences, TrustedPathStays DEF CreateRun
  <2>2. SUFFICES ASSUME NEW v \in Updaters, pc'[v] \in Working, run'[v] \in Runs,
                        place'[run'[v]] = "run", Exchangeable(RunPath, "users")
                 PROVE  warned'[v]
    BY <1>13 DEF RunIsSafe
  <2>3. CASE v = u
    BY <1>6, <2>1, <2>2, <2>3
  <2>4. CASE v # u
    <3>1. pc[v] \in Working /\ run[v] \in Runs /\ run[v] # d
      BY <1>5, <1>7, <2>2, <2>4 DEF Working, Using
    <3>2. place[run[v]] = "run"
      BY <1>4, <1>5, <1>8, <2>2, <2>4, <3>1
    <3>. QED
      BY <1>5, <2>2, <2>4, <3>1, <3>2 DEF RunIsSafe
  <2>. QED
    BY <2>3, <2>4
<1>16. RootIsOurs'
  BY <1>3, <1>5, <1>6 DEF RootIsOurs
<1>17. AsideStays'
  BY <1>3, <1>4, <1>8 DEF AsideStays
<1>. QED
  BY <1>9, <1>10, <1>11, <1>12, <1>14, <1>15, <1>16, <1>17

\* A directory given on the command line, made or reused, is on a trusted path.
LEMMA ExplicitKeeps ==
    ASSUME IInv, NEW u \in Updaters, NEW d \in Explicit,
           MakeExplicit(u, d) \/ ReuseExplicit(u, d)
    PROVE  IInv'
<1> USE DEF IInv
<1>1. /\ pc' = [pc EXCEPT ![u] = "lock"] /\ run' = [run EXCEPT ![u] = d]
      /\ pc[u] = "off" /\ ExplicitTrusted
      /\ UNCHANGED <<root, above, aside, lock, warned>>
  BY DEF MakeExplicit, ReuseExplicit, Made, UsedBy, Goes, disk, roots
<1>2. place' \in {place, [place EXCEPT ![d] = "run"]}
  BY DEF MakeExplicit, ReuseExplicit, Made, disk
<1>3. /\ d \in Dirs /\ d \notin Runs /\ Runs \subseteq Dirs /\ pc \in [Updaters -> Phases]
      /\ place \in [Dirs -> {"unused", "run", "prune", "gone", "aside"}]
      /\ run \in [Updaters -> Dirs \cup {NoRun}]
  BY RunsAssumption DEF Dirs, Shapes
<1>4. \A v \in Updaters \ {u} : pc'[v] = pc[v] /\ run'[v] = run[v]
  BY <1>1, <1>3
<1>5. pc'[u] = "lock" /\ run'[u] = d
  BY <1>1, <1>3
<1>6. \A e \in Runs : place'[e] = place[e]
  BY <1>2, <1>3
<1>7. Shapes'
  BY <1>1, <1>2, <1>3 DEF Shapes, Phases
<1>8. RunIsMade'
  BY <1>3, <1>4, <1>5, <1>6 DEF RunIsMade
<1>9. LockIsHeld'
  BY <1>1, <1>4, <1>5 DEF LockIsHeld, Holding
<1>10. RunsGoWithRoot' /\ AsideStays'
  BY <1>1, <1>6 DEF RunsGoWithRoot, AsideStays, Exists
<1>11. RunPath' = RunPath /\ ExplicitPath' = ExplicitPath
  BY <1>1 DEF RunPath, RootPath, ExplicitPath
<1>12. ExplicitIsSafe'
  <2>1. TrustedDirectory(ExplicitPath, TRUE) /\ ChainTrust(ExplicitPath).ancestors
    BY <1>1 DEF ExplicitTrusted, TrustedDirectory
  <2>2. ~Exchangeable(ExplicitPath, "users")
    BY <2>1, PathsAreSequences, TrustedPathStays
  <2>. QED
    BY <1>11, <2>2 DEF ExplicitIsSafe
<1>13. RunIsSafe'
  BY <1>1, <1>3, <1>4, <1>5, <1>6, <1>11 DEF RunIsSafe
<1>14. RootIsOurs'
  BY <1>1, <1>4, <1>5 DEF RootIsOurs
<1>. QED
  BY <1>7, <1>8, <1>9, <1>10, <1>12, <1>13, <1>14

\* The lock was free: nobody else was past this point in the same directory.
LEMMA AcquireLockKeeps == ASSUME IInv, NEW u \in Updaters, AcquireLock(u) PROVE IInv'
<1> USE DEF IInv
<1>1. /\ pc' = [pc EXCEPT ![u] = "work"] /\ lock' = [lock EXCEPT ![run[u]] = u]
      /\ pc[u] = "lock" /\ lock[run[u]] = NoOne
      /\ UNCHANGED <<root, above, aside, place, run, warned>>
  BY DEF AcquireLock, LockTaken, Goes, roots
<1>2. pc \in [Updaters -> Phases] /\ lock \in [Dirs -> Updaters \cup {NoOne}]
  BY DEF Shapes
<1>3. run[u] \in Dirs
  BY <1>1 DEF RunIsMade, Using
<1>4. pc'[u] = "work" /\ lock'[run[u]] = u
  BY <1>1, <1>2, <1>3
<1>5. \A v \in Updaters \ {u} : pc'[v] = pc[v]
  BY <1>1, <1>2
<1>6. Shapes'
  BY <1>1, <1>2, <1>3 DEF Shapes, Phases
<1>7. RunIsMade' /\ RunsGoWithRoot' /\ AsideStays'
  BY <1>1, <1>4, <1>5 DEF RunIsMade, RunsGoWithRoot, AsideStays, Exists, Using
<1>8. LockIsHeld'
  <2>1. SUFFICES ASSUME NEW v \in Updaters \ {u}, pc[v] \in Holding
                 PROVE  lock'[run[v]] = v
    BY <1>1, <1>4, <1>5 DEF LockIsHeld
  <2>2. lock[run[v]] = v /\ run[v] \in Dirs
    BY <2>1 DEF LockIsHeld, RunIsMade, Holding, Using
  <2>3. run[v] # run[u]
    BY <1>1, <2>2, UpdatersAssumption
  <2>. QED
    BY <1>1, <1>2, <2>2, <2>3
<1>9. RunPath' = RunPath /\ ExplicitPath' = ExplicitPath
  BY <1>1 DEF RunPath, RootPath, ExplicitPath
<1>10. \A v \in Updaters : pc'[v] \in Working => pc[v] \in Working
  BY <1>1, <1>5 DEF Working
<1>11. ExplicitIsSafe' /\ RunIsSafe'
  BY <1>1, <1>9, <1>10 DEF ExplicitIsSafe, RunIsSafe
<1>12. RootIsOurs'
  BY <1>1, <1>4, <1>5 DEF RootIsOurs
<1>. QED
  BY <1>6, <1>7, <1>8, <1>11, <1>12

\* The lock goes with the right to change the directory.
LEMMA ReleaseLockKeeps == ASSUME IInv, NEW u \in Updaters, ReleaseLock(u) PROVE IInv'
<1> USE DEF IInv
<1>1. /\ pc' = [pc EXCEPT ![u] = "unlocked"] /\ lock' = [lock EXCEPT ![run[u]] = NoOne]
      /\ pc[u] = "exit" /\ UNCHANGED <<root, above, aside, place, run, warned>>
  BY DEF ReleaseLock, Goes, roots, params
<1>2. pc \in [Updaters -> Phases] /\ lock \in [Dirs -> Updaters \cup {NoOne}]
  BY DEF Shapes
<1>3. run[u] \in Dirs /\ lock[run[u]] = u
  BY <1>1 DEF RunIsMade, LockIsHeld, Using, Holding
<1>4. \A v \in Updaters \ {u} : pc'[v] = pc[v]
  BY <1>1, <1>2
<1>5. pc'[u] = "unlocked"
  BY <1>1, <1>2
<1>6. Shapes'
  BY <1>1, <1>2, <1>3 DEF Shapes, Phases
<1>7. RunIsMade' /\ RunsGoWithRoot' /\ AsideStays'
  BY <1>1, <1>4, <1>5 DEF RunIsMade, RunsGoWithRoot, AsideStays, Exists, Using
<1>8. LockIsHeld'
  <2>1. SUFFICES ASSUME NEW v \in Updaters \ {u}, pc[v] \in Holding
                 PROVE  lock'[run[v]] = v
    BY <1>1, <1>4, <1>5 DEF LockIsHeld, Holding
  <2>2. lock[run[v]] = v /\ run[v] \in Dirs
    BY <2>1 DEF LockIsHeld, RunIsMade, Holding, Using
  <2>3. run[v] # run[u]
    BY <1>3, <2>2
  <2>. QED
    BY <1>1, <1>2, <2>2, <2>3
<1>9. RunPath' = RunPath /\ ExplicitPath' = ExplicitPath
  BY <1>1 DEF RunPath, RootPath, ExplicitPath
<1>10. ExplicitIsSafe' /\ RunIsSafe'
  BY <1>1, <1>4, <1>5, <1>9 DEF ExplicitIsSafe, RunIsSafe, Working
<1>11. RootIsOurs'
  BY <1>1, <1>4, <1>5 DEF RootIsOurs
<1>. QED
  BY <1>6, <1>7, <1>8, <1>10, <1>11

\* A directory that is renamed or removed is no longer where its updater works.
LEMMA PlaceLeft ==
    ASSUME IInv, NEW to \in [Dirs -> {"unused", "run", "prune", "gone", "aside"}],
           place' = to, UNCHANGED <<root, above, aside, lock, pc, run, warned>>,
           \A d \in Runs : /\ to[d] = "run" => place[d] = "run"
                           /\ to[d] = "prune" => Exists(d)
                           /\ to[d] = "aside" => place[d] = "aside"
                           /\ to[d] = "unused" => place[d] = "unused"
    PROVE  IInv'
<1> USE DEF IInv
<1>1. Shapes'
  BY DEF Shapes
<1>2. RunIsMade' /\ LockIsHeld' /\ AsideStays'
  BY DEF RunIsMade, LockIsHeld, AsideStays
<1>3. RunsGoWithRoot'
  BY DEF RunsGoWithRoot, Exists
<1>4. RunPath' = RunPath /\ ExplicitPath' = ExplicitPath
  BY DEF RunPath, RootPath, ExplicitPath
<1>5. ExplicitIsSafe' /\ RunIsSafe'
  BY <1>4 DEF ExplicitIsSafe, RunIsSafe
<1>6. RootIsOurs'
  BY DEF RootIsOurs
<1>. QED
  BY <1>1, <1>2, <1>3, <1>5, <1>6

LEMMA ClaimRunKeeps ==
    ASSUME IInv, NEW u \in Updaters, NEW d \in Runs, ClaimRun(u, d) PROVE IInv'
<1>1. /\ place' = [place EXCEPT ![d] = "prune"] /\ place[d] = "run"
      /\ UNCHANGED <<root, above, aside, lock, pc, run, warned>>
  BY DEF ClaimRun, roots, params
<1>2. place \in [Dirs -> {"unused", "run", "prune", "gone", "aside"}] /\ d \in Dirs
  BY DEF IInv, Shapes, Dirs
<1>3. place' \in [Dirs -> {"unused", "run", "prune", "gone", "aside"}]
  BY <1>1, <1>2
<1>4. Runs \subseteq Dirs
  BY DEF Dirs
<1>5. \A e \in Runs : /\ place'[e] = "run" => place[e] = "run"
                      /\ place'[e] = "prune" => Exists(e)
                      /\ place'[e] = "aside" => place[e] = "aside"
                      /\ place'[e] = "unused" => place[e] = "unused"
  BY <1>1, <1>2, <1>4 DEF Exists
<1>. QED
  BY <1>1, <1>3, <1>5, PlaceLeft

LEMMA CleanDirectoryKeeps ==
    ASSUME IInv, NEW u \in Updaters, CleanDirectory(u) PROVE IInv'
<1> DEFINE gone == {job[u].dir}
<1>1. /\ place' = [d \in Dirs |-> IF d \notin gone THEN place[d]
                                  ELSE IF d \in Explicit THEN "unused" ELSE "gone"]
      /\ UNCHANGED <<root, above, aside, lock, pc, run, warned>>
  BY DEF CleanDirectory, Vanish, roots, params
<1>2. place \in [Dirs -> {"unused", "run", "prune", "gone", "aside"}]
  BY DEF IInv, Shapes
<1> HIDE DEF gone
<1>3. place' \in [Dirs -> {"unused", "run", "prune", "gone", "aside"}]
  BY <1>1, <1>2
<1>4. \A e \in Runs : e \in Dirs /\ e \notin Explicit
  BY RunsAssumption DEF Dirs
<1>5. \A e \in Runs : /\ place'[e] = "run" => place[e] = "run"
                      /\ place'[e] = "prune" => Exists(e)
                      /\ place'[e] = "aside" => place[e] = "aside"
                      /\ place'[e] = "unused" => place[e] = "unused"
  BY <1>1, <1>4 DEF Exists
<1>. QED
  BY <1>1, <1>3, <1>5, PlaceLeft

-----------------------------------------------------------------------------
(* All steps *)

LEMMA StartupKeeps == ASSUME IInv, NEW u \in Updaters, Startup(u) PROVE IInv'
<1>1. CASE Start(u) BY <1>1, StartKeeps
<1>2. CASE Quarantine(u) BY <1>2, QuarantineKeeps
<1>3. CASE CreateRoot(u) BY <1>3, CreateRootKeeps
<1>4. CASE CreateRun(u) BY <1>4, CreateRunKeeps
<1>5. CASE AcquireLock(u) BY <1>5, AcquireLockKeeps
<1>6. CASE QuarantineFails(u) \/ CreateRootFails(u) \/ CreateRunFails(u)
  BY <1>6, EndsSafely DEF QuarantineFails, CreateRootFails, CreateRunFails, EndsQuietly
<1>7. CASE AcquireLockFails(u)
  <2>1. /\ Goes(u, "unlocked") /\ pc[u] \in Using
        /\ UNCHANGED <<root, above, aside, place, lock, run, warned>>
    BY <1>7 DEF AcquireLockFails, disk, roots, params, Using
  <2>2. AsideStays'
    BY <2>1 DEF AsideStays, IInv
  <2>. QED
    BY <2>1, <2>2, GoesOn DEF Phases, Listing, Holding, Working
<1>8. CASE \E d \in Explicit : MakeExplicit(u, d) \/ ReuseExplicit(u, d)
  BY <1>8, ExplicitKeeps
<1>. QED
  BY <1>1, <1>2, <1>3, <1>4, <1>5, <1>6, <1>7, <1>8 DEF Startup

LEMMA PruneKeeps == ASSUME IInv, NEW u \in Updaters, Prune(u) PROVE IInv'
<1>1. CASE PruneBegins(u)
  <2>1. /\ Goes(u, "listing") /\ pc[u] \in Listing
        /\ UNCHANGED <<root, above, aside, place, lock, run, warned>>
    BY <1>1 DEF PruneBegins, disk, roots, params, Listing
  <2>2. AsideStays'
    BY <2>1 DEF AsideStays, IInv
  <2>. QED
    BY <2>1, <2>2, GoesOn DEF Phases, Using, Holding, Working
<1>2. CASE PruneEnds(u)
  <2>1. /\ Goes(u, "create") /\ pc[u] \in Listing
        /\ UNCHANGED <<root, above, place, lock, run, warned>>
    BY <1>2 DEF PruneEnds, Listed, params, Listing
  <2>2. \E removed \in SUBSET {w \in aside : RemovesQuarantineLeaf(w)} :
           aside' = aside \ removed
    BY <1>2 DEF PruneEnds, Sweeps
  <2>3. AsideStays'
    BY <2>1, <2>2 DEF AsideStays, IInv, RemovesQuarantineLeaf
  <2>. QED
    BY <2>1, <2>3, GoesOn DEF Phases, Using, Holding, Working
<1>3. ASSUME NEW d \in Runs, ClaimRun(u, d) PROVE IInv'
  BY <1>3, ClaimRunKeeps
<1>4. ASSUME NEW d \in Runs,
             \/ ListRun(u, d) \/ SkipRun(u, d) \/ PruneClaimed(u, d) \/ ClaimFails(u, d)
      PROVE  IInv'
  <2>1. UNCHANGED core
    BY <1>4 DEF ListRun, SkipRun, PruneClaimed, ClaimFails, disk, roots, params, core
  <2>. QED
    BY <2>1, Stutters
<1>. QED
  BY <1>1, <1>2, <1>3, <1>4 DEF Prune

\* The update itself leaves the directory where it is.
LEMMA WorkKeeps == ASSUME IInv, NEW u \in Updaters, Work(u) PROVE IInv'
<1>1. PICK to \in {"moving", "ending", "exit"} :
         /\ Goes(u, to) /\ pc[u] \in Working \cap Using \cap Holding
         /\ to \in Working \/ to = "exit"
         /\ UNCHANGED <<root, above, aside, place, lock, run, warned>>
  <2>1. CASE BackUp(u)
    <3>1. Goes(u, "moving") /\ pc[u] = "work"
          /\ UNCHANGED <<root, above, aside, place, lock, run, warned>>
      BY <2>1 DEF BackUp, Works, roots, params
    <3>. QED
      BY <3>1 DEF Working, Using, Holding
  <2>2. CASE MarkComplete(u) \/ MarkCompleteFails(u) \/ RevertCompletes(u)
    <3>1. Goes(u, "ending") /\ pc[u] \in {"work", "moving"}
          /\ UNCHANGED <<root, above, aside, place, lock, run, warned>>
      BY <2>2 DEF MarkComplete, MarkCompleteFails, RevertCompletes, Works, roots, params
    <3>. QED
      BY <3>1 DEF Working, Using, Holding
  <2>3. CASE DropBackup(u) \/ KeepBackup(u) \/ GiveUp(u)
    <3>1. Goes(u, "exit") /\ pc[u] \in {"work", "moving", "ending"}
          /\ UNCHANGED <<root, above, aside, place, lock, run, warned>>
      BY <2>3 DEF DropBackup, KeepBackup, GiveUp, Works, disk, roots, params
    <3>. QED
      BY <3>1 DEF Working, Using, Holding
  <2>. QED
    BY <2>1, <2>2, <2>3 DEF Work
<1>2. AsideStays'
  BY <1>1 DEF AsideStays, IInv
<1>. QED
  BY <1>1, <1>2, GoesOn DEF Phases, Listing

LEMMA ExitKeeps == ASSUME IInv, NEW u \in Updaters, Exit(u) PROVE IInv'
<1>1. CASE ReleaseLock(u) BY <1>1, ReleaseLockKeeps
<1>2. CASE RemoveLock(u) BY <1>2, EndsSafely DEF RemoveLock
<1>3. CASE Leaves(u) \/ CleanupEnds(u)
  BY <1>3, EndsSafely DEF Leaves, CleanupEnds, EndsQuietly
<1>4. CASE CleanupStarts(u)
  <2>1. /\ Goes(u, "cleanup") /\ pc[u] \in Using
        /\ UNCHANGED <<root, above, aside, place, lock, run, warned>>
    BY <1>4 DEF CleanupStarts, disk, roots, params, Using
  <2>2. AsideStays'
    BY <2>1 DEF AsideStays, IInv
  <2>. QED
    BY <2>1, <2>2, GoesOn DEF Phases, Listing, Holding, Working
<1>. QED
  BY <1>1, <1>2, <1>3, <1>4 DEF Exit

\* Removing what is below a run directory leaves the directory, up to the last step.
LEMMA CleanKeeps == ASSUME IInv, NEW u \in Updaters, Clean(u) PROVE IInv'
<1>1. CASE CleanDirectory(u) BY <1>1, CleanDirectoryKeeps
<1>2. CASE CleanOpen(u) \/ CleanRefused(u) \/ CleanLost(u) \/ CleanStuck(u)
  <2>1. UNCHANGED core
    BY <1>2 DEF CleanOpen, CleanRefused, CleanLost, CleanStuck, CleanerStep, roots,
                params, core
  <2>. QED
    BY <2>1, Stutters
<1>3. ASSUME NEW c \in job[u].left, CleanChild(u, c) \/ CleanChildStuck(u, c)
      PROVE  IInv'
  <2>1. UNCHANGED core
    BY <1>3 DEF CleanChild, CleanChildStuck, CleanerStep, roots, params, core
  <2>. QED
    BY <2>1, Stutters
<1>4. CASE CleanMarker(u) \/ CleanFails(u)
  <2>1. UNCHANGED core
    BY <1>4 DEF CleanMarker, CleanFails, CleanerStep, roots, params, core
  <2>. QED
    BY <2>1, Stutters
<1>. QED
  BY <1>1, <1>2, <1>3, <1>4 DEF Clean

LEMMA NextKeeps == ASSUME IInv, [Next]_vars PROVE IInv'
<1>1. ASSUME NEW u \in Updaters, Crash(u) PROVE IInv'
  BY <1>1, EndsSafely DEF Crash, EndsQuietly
<1>2. CASE Tick
  <2>1. UNCHANGED core
    BY <1>2 DEF Tick, disk, roots, params, core
  <2>. QED
    BY <2>1, Stutters
<1>3. CASE UNCHANGED vars
  <2>1. UNCHANGED core
    BY <1>3 DEF vars, disk, roots, params, core
  <2>. QED
    BY <2>1, Stutters
<1>. QED
  BY <1>1, <1>2, <1>3, StartupKeeps, PruneKeeps, WorkKeeps, ExitKeeps, CleanKeeps DEF Next

-----------------------------------------------------------------------------
(* Theorems *)

THEOREM Invariant == Spec => []IInv
<1>1. Init => IInv
  BY InitInv
<1>2. IInv /\ [Next]_vars => IInv'
  BY NextKeeps
<1>. QED
  BY <1>1, <1>2, PTL DEF Spec

\* Two updaters never work in one run directory, however many there are, whatever dies
\* and whatever is removed in between (acquire_updater_run_lock, FILE_SHARE none).
THEOREM RunsAreExclusive == Spec => []OneUpdaterPerRun
<1>1. IInv => OneUpdaterPerRun
  BY DEF IInv, LockIsHeld, OneUpdaterPerRun, Holding
<1>. QED
  BY <1>1, Invariant, PTL

\* The updater lists, prunes and works only where users who are not trusted cannot
\* interfere, or has a warning to report, and the run directories moved aside with
\* their root stay for their owner, for access lists of any length on paths of any
\* depth (prepare_updater_root, prepare_directory, quarantine_root).
THEOREM PlacesAreTrusted == Spec => []WorksWhereTrusted
<1>1. IInv => WorksInPlace
  <2>1. SUFFICES ASSUME IInv, NEW u \in Updaters, pc[u] \in {"work", "moving", "ending"}
                 PROVE  IF run[u] \in Explicit THEN ~Exchangeable(ExplicitPath, "users")
                        ELSE place[run[u]] = "run" /\ Exchangeable(RunPath, "users")
                                => warned[u]
    BY DEF WorksInPlace
  <2>2. pc[u] \in Working /\ run[u] \in Dirs
    BY <2>1 DEF IInv, RunIsMade, Working, Using
  <2>3. CASE run[u] \in Explicit
    BY <2>1, <2>2, <2>3 DEF IInv, ExplicitIsSafe
  <2>4. CASE run[u] \notin Explicit
    BY <2>1, <2>2, <2>4 DEF IInv, RunIsSafe, Dirs
  <2>. QED
    BY <2>3, <2>4
<1>2. IInv => WorksWhereTrusted
  BY <1>1 DEF IInv, WorksWhereTrusted
<1>. QED
  BY <1>2, Invariant, PTL

-----------------------------------------------------------------------------
(* Part 3: run directories *)
\* Who changes what, once for each variable: the proofs then look at these actions and
\* no others.

LEMMA ClockSteps == ASSUME [Next]_vars PROVE Tick \/ clock' = clock
<1>1. ASSUME NEW u \in Updaters, Startup(u) PROVE clock' = clock
  BY <1>1 DEF Startup, Start, Quarantine, QuarantineFails, CreateRoot,
     CreateRootFails, CreateRun, CreateRunFails, AcquireLock, AcquireLockFails,
     MakeExplicit, ReuseExplicit, EndsQuietly, Made, LockTaken
<1>2. ASSUME NEW u \in Updaters, Prune(u) PROVE clock' = clock
  BY <1>2 DEF Prune, PruneBegins, PruneEnds, ListRun, SkipRun, PruneClaimed,
     ClaimRun, ClaimFails
<1>3. ASSUME NEW u \in Updaters, Work(u) PROVE clock' = clock
  BY <1>3 DEF Work, BackUp, MarkComplete, MarkCompleteFails, RevertCompletes,
     DropBackup, KeepBackup, GiveUp, Works
<1>4. ASSUME NEW u \in Updaters, Exit(u) \/ Crash(u) PROVE clock' = clock
  BY <1>4 DEF Exit, ReleaseLock, RemoveLock, CleanupStarts, Leaves, CleanupEnds,
     EndsQuietly, Crash
<1>5. ASSUME NEW u \in Updaters, Clean(u) PROVE clock' = clock
  BY <1>5 DEF Clean, CleanOpen, CleanRefused, CleanLost, CleanStuck, CleanChild,
     CleanChildStuck, CleanMarker, CleanDirectory, CleanFails, CleanerStep
<1>. QED
  BY <1>1, <1>2, <1>3, <1>4, <1>5 DEF Next, vars

LEMMA MtimeSteps ==
    ASSUME [Next]_vars
    PROVE  mtime' = mtime \/ (\E d : Stamp(d)) \/ \E ds : Vanish(ds)
<1>1. ASSUME NEW u \in Updaters, Startup(u) PROVE mtime' = mtime \/ \E d : Stamp(d)
  BY <1>1 DEF Startup, Start, Quarantine, QuarantineFails, CreateRoot,
     CreateRootFails, CreateRun, CreateRunFails, AcquireLock, AcquireLockFails,
     MakeExplicit, ReuseExplicit, EndsQuietly, Made, LockTaken, Changes, disk
<1>2. ASSUME NEW u \in Updaters, Prune(u) PROVE mtime' = mtime
  BY <1>2 DEF Prune, PruneBegins, PruneEnds, ListRun, SkipRun, PruneClaimed,
     ClaimRun, ClaimFails, disk
<1>3. ASSUME NEW u \in Updaters, Work(u) PROVE mtime' = mtime \/ \E d : Stamp(d)
  BY <1>3 DEF Work, BackUp, MarkComplete, MarkCompleteFails, RevertCompletes,
     DropBackup, KeepBackup, GiveUp, Works, Changes, disk
<1>4. ASSUME NEW u \in Updaters, Exit(u) \/ Crash(u)
      PROVE  mtime' = mtime \/ \E d : Stamp(d)
  BY <1>4 DEF Exit, ReleaseLock, RemoveLock, CleanupStarts, Leaves, CleanupEnds,
     EndsQuietly, Crash, disk
<1>5. ASSUME NEW u \in Updaters, Clean(u)
      PROVE  mtime' = mtime \/ (\E d : Stamp(d)) \/ \E ds : Vanish(ds)
  BY <1>5 DEF Clean, CleanOpen, CleanRefused, CleanLost, CleanStuck, CleanChild,
     CleanChildStuck, CleanMarker, CleanDirectory, CleanFails, Removes
<1>. QED
  BY <1>1, <1>2, <1>3, <1>4, <1>5 DEF Next, Tick, vars, disk

LEMMA PlaceSteps ==
    ASSUME [Next]_vars, place' # place
    PROVE  \E u \in Updaters :
              \/ Quarantine(u) \/ CleanDirectory(u)
              \/ \E d \in Runs : ClaimRun(u, d)
              \/ \E d \in Dirs : /\ place[d] = "unused" /\ Made(u, d)
                                 /\ pc[u] \in {"off", "create"}
<1>1. ASSUME NEW u \in Updaters, Startup(u)
      PROVE  \/ Quarantine(u)
             \/ \E d \in Dirs : /\ place[d] = "unused" /\ Made(u, d)
                                /\ pc[u] \in {"off", "create"}
  BY <1>1 DEF Startup, Start, QuarantineFails, CreateRoot, CreateRootFails,
     CreateRun, CreateRunFails, AcquireLock, AcquireLockFails, MakeExplicit,
     ReuseExplicit, EndsQuietly, LockTaken, disk, Dirs
<1>2. ASSUME NEW u \in Updaters, Prune(u) PROVE \E d \in Runs : ClaimRun(u, d)
  BY <1>2 DEF Prune, PruneBegins, PruneEnds, ListRun, SkipRun, PruneClaimed,
     ClaimFails, disk
<1>3. ASSUME NEW u \in Updaters, Work(u) PROVE FALSE
  BY <1>3 DEF Work, BackUp, MarkComplete, MarkCompleteFails, RevertCompletes,
     DropBackup, KeepBackup, GiveUp, Works, disk
<1>4. ASSUME NEW u \in Updaters, Exit(u) \/ Crash(u) PROVE FALSE
  BY <1>4 DEF Exit, ReleaseLock, RemoveLock, CleanupStarts, Leaves, CleanupEnds,
     EndsQuietly, Crash, disk
<1>5. ASSUME NEW u \in Updaters, Clean(u) PROVE CleanDirectory(u)
  BY <1>5 DEF Clean, CleanOpen, CleanRefused, CleanLost, CleanStuck, CleanChild,
     CleanChildStuck, CleanMarker, CleanFails
<1>. QED
  BY <1>1, <1>2, <1>3, <1>4, <1>5 DEF Next, Tick, vars, disk

LEMMA HasSteps ==
    ASSUME [Next]_vars, has' # has
    PROVE  \E u \in Updaters :
              \/ AcquireLock(u) \/ RemoveLock(u) \/ CleanMarker(u) \/ CleanDirectory(u)
              \/ \E c \in job[u].left : CleanChild(u, c)
              \/ Work(u)
<1>1. ASSUME NEW u \in Updaters, Startup(u) PROVE AcquireLock(u)
  BY <1>1 DEF Startup, Start, Quarantine, QuarantineFails, CreateRoot,
     CreateRootFails, CreateRun, CreateRunFails, AcquireLockFails, MakeExplicit,
     ReuseExplicit, EndsQuietly, Made, disk
<1>2. ASSUME NEW u \in Updaters, Prune(u) PROVE FALSE
  BY <1>2 DEF Prune, PruneBegins, PruneEnds, ListRun, SkipRun, PruneClaimed,
     ClaimRun, ClaimFails, disk
<1>4. ASSUME NEW u \in Updaters, Exit(u) \/ Crash(u) PROVE RemoveLock(u)
  BY <1>4 DEF Exit, ReleaseLock, CleanupStarts, Leaves, CleanupEnds,
     EndsQuietly, Crash, disk
<1>5. ASSUME NEW u \in Updaters, Clean(u)
      PROVE  \/ CleanMarker(u) \/ CleanDirectory(u)
             \/ \E c \in job[u].left : CleanChild(u, c)
  BY <1>5 DEF Clean, CleanOpen, CleanRefused, CleanLost, CleanStuck,
     CleanChildStuck, CleanFails
<1>. QED
  BY <1>1, <1>2, <1>4, <1>5 DEF Next, Tick, vars, disk

LEMMA LockSteps ==
    ASSUME [Next]_vars, lock' # lock
    PROVE  \E u \in Updaters : AcquireLock(u) \/ ReleaseLock(u) \/ Ends(u)
<1>1. ASSUME NEW u \in Updaters, Startup(u) PROVE AcquireLock(u) \/ Ends(u)
  BY <1>1 DEF Startup, Start, Quarantine, QuarantineFails, CreateRoot,
     CreateRootFails, CreateRun, CreateRunFails, AcquireLockFails, MakeExplicit,
     ReuseExplicit, EndsQuietly, Made, disk
<1>2. ASSUME NEW u \in Updaters, Prune(u) PROVE FALSE
  BY <1>2 DEF Prune, PruneBegins, PruneEnds, ListRun, SkipRun, PruneClaimed,
     ClaimRun, ClaimFails, disk
<1>3. ASSUME NEW u \in Updaters, Work(u) PROVE FALSE
  BY <1>3 DEF Work, BackUp, MarkComplete, MarkCompleteFails, RevertCompletes,
     DropBackup, KeepBackup, GiveUp, Works, disk
<1>4. ASSUME NEW u \in Updaters, Exit(u) \/ Crash(u) PROVE ReleaseLock(u) \/ Ends(u)
  BY <1>4 DEF Exit, RemoveLock, CleanupStarts, Leaves, CleanupEnds,
     EndsQuietly, Crash, disk
<1>5. ASSUME NEW u \in Updaters, Clean(u) PROVE FALSE
  BY <1>5 DEF Clean, CleanOpen, CleanRefused, CleanLost, CleanStuck, CleanChild,
     CleanChildStuck, CleanMarker, CleanDirectory, CleanFails, CleanerStep
<1>. QED
  BY <1>1, <1>2, <1>3, <1>4, <1>5 DEF Next, Tick, vars, disk

\* An updater goes on, gets a directory, or ends.
Proceeds(u) ==
    \E to \in Phases :
        /\ Goes(u, to) /\ UNCHANGED <<run, owns, contested>>
        /\ to \in Using <=> pc[u] \in Using
        /\ pc[u] \in Holding => to \in Holding \/ ReleaseLock(u)
        /\ pc[u] # "cleanup" /\ (to = "cleanup" => owns[u] /\ ~retain[u])
        /\ to \in {"lock", "work"} => pc[u] = "lock"
        /\ to = "moving" => BackUp(u)
        /\ pc[u] = "moving" => \/ MarkComplete(u) \/ MarkCompleteFails(u)
                               \/ RevertCompletes(u) \/ KeepBackup(u)

LEMMA PhaseSteps ==
    ASSUME [Next]_vars, UNCHANGED <<pc, run>> => FALSE
    PROVE  \E u \in Updaters :
              \/ Ends(u) /\ UNCHANGED contested
              \/ Proceeds(u)
              \/ \E d \in Dirs :
                    /\ UsedBy(u, d) /\ pc[u] \in {"off", "create"}
                    /\ \/ place[d] = "unused" /\ Made(u, d)
                       \/ ReuseExplicit(u, d) /\ d \in Explicit
<1>1. ASSUME NEW u \in Updaters, Startup(u)
      PROVE  \/ Ends(u) /\ UNCHANGED contested
             \/ Proceeds(u)
             \/ \E d \in Dirs :
                   /\ UsedBy(u, d) /\ pc[u] \in {"off", "create"}
                   /\ \/ place[d] = "unused" /\ Made(u, d)
                      \/ ReuseExplicit(u, d) /\ d \in Explicit
  <2>1. CASE QuarantineFails(u) \/ CreateRootFails(u) \/ CreateRunFails(u)
    BY <2>1 DEF QuarantineFails, CreateRootFails, CreateRunFails, EndsQuietly, history
  <2>2. CASE Start(u) \/ Quarantine(u) \/ CreateRoot(u)
    BY <2>2 DEF Start, Quarantine, CreateRoot, Proceeds, Phases, Using, Holding,
       params, history
  <2>3. CASE AcquireLock(u) \/ AcquireLockFails(u)
    BY <2>3 DEF AcquireLock, LockTaken, AcquireLockFails, Proceeds, Phases, Using,
       Holding, params, history
  <2>4. CASE CreateRun(u) \/ \E d \in Explicit : MakeExplicit(u, d) \/ ReuseExplicit(u, d)
    BY <2>4 DEF CreateRun, MakeExplicit, ReuseExplicit, Made, Dirs
  <2>. QED
    BY <1>1, <2>1, <2>2, <2>3, <2>4 DEF Startup
<1>2. ASSUME NEW u \in Updaters, Prune(u) PROVE Proceeds(u)
  BY <1>2 DEF Prune, PruneBegins, PruneEnds, ListRun, SkipRun, PruneClaimed,
     ClaimRun, ClaimFails, Listed, Proceeds, Phases, Using, Holding, params, history
<1>3. ASSUME NEW u \in Updaters, Work(u) PROVE Proceeds(u)
  BY <1>3 DEF Work, BackUp, MarkComplete, MarkCompleteFails, RevertCompletes,
     DropBackup, KeepBackup, GiveUp, Works, Proceeds, Phases, Using, Holding, params,
     history
<1>4. ASSUME NEW u \in Updaters, Exit(u) \/ Crash(u)
      PROVE  (Ends(u) /\ UNCHANGED contested) \/ Proceeds(u)
  <2>1. CASE ReleaseLock(u)
    <3>1. /\ Goes(u, "unlocked") /\ pc[u] = "exit"
          /\ UNCHANGED <<run, owns, contested>>
      BY <2>1 DEF ReleaseLock, params, history
    <3>. QED
      BY <2>1, <3>1 DEF Proceeds, Phases, Using
  <2>2. CASE CleanupStarts(u)
    BY <2>2 DEF CleanupStarts, Proceeds, Phases, Using, Holding, params, history
  <2>3. CASE RemoveLock(u) \/ Leaves(u) \/ CleanupEnds(u) \/ Crash(u)
    BY <2>3 DEF RemoveLock, Leaves, CleanupEnds, Crash, EndsQuietly, history
  <2>. QED
    BY <1>4, <2>1, <2>2, <2>3 DEF Exit
<1>5. ASSUME NEW u \in Updaters, Clean(u) PROVE FALSE
  BY <1>5 DEF Clean, CleanOpen, CleanRefused, CleanLost, CleanStuck, CleanChild,
     CleanChildStuck, CleanMarker, CleanDirectory, CleanFails, CleanerStep, params
<1>. QED
  BY <1>1, <1>2, <1>3, <1>4, <1>5 DEF Next, Tick, vars, params

LEMMA HistorySteps ==
    ASSUME [Next]_vars, UNCHANGED <<needed, backedUp, marked>> => FALSE
    PROVE  \E u \in Updaters :
              \/ BackUp(u) \/ MarkComplete(u) \/ MarkCompleteFails(u)
              \/ RevertCompletes(u) \/ CleanMarker(u) \/ CleanDirectory(u)
<1>1. ASSUME NEW u \in Updaters, Startup(u) PROVE FALSE
  BY <1>1 DEF Startup, Start, Quarantine, QuarantineFails, CreateRoot,
     CreateRootFails, CreateRun, CreateRunFails, AcquireLock, LockTaken,
     AcquireLockFails, MakeExplicit, ReuseExplicit, EndsQuietly, Made, history
<1>2. ASSUME NEW u \in Updaters, Prune(u) PROVE FALSE
  BY <1>2 DEF Prune, PruneBegins, PruneEnds, ListRun, SkipRun, PruneClaimed,
     ClaimRun, ClaimFails, history
<1>3. ASSUME NEW u \in Updaters, Work(u)
      PROVE  BackUp(u) \/ MarkComplete(u) \/ MarkCompleteFails(u) \/ RevertCompletes(u)
  BY <1>3 DEF Work, DropBackup, KeepBackup, GiveUp, history
<1>4. ASSUME NEW u \in Updaters, Exit(u) \/ Crash(u) PROVE FALSE
  BY <1>4 DEF Exit, ReleaseLock, RemoveLock, CleanupStarts, Leaves, CleanupEnds,
     EndsQuietly, Crash, history
<1>5. ASSUME NEW u \in Updaters, Clean(u) PROVE CleanMarker(u) \/ CleanDirectory(u)
  BY <1>5 DEF Clean, CleanOpen, CleanRefused, CleanLost, CleanStuck, CleanChild,
     CleanChildStuck, CleanFails, CleanerStep
<1>. QED
  BY <1>1, <1>2, <1>3, <1>4, <1>5 DEF Next, Tick, vars, history

LEMMA EarlySteps ==
    ASSUME [Next]_vars, early' # early
    PROVE  \E u \in Updaters :
              \/ CleanDirectory(u)
              \/ \E c \in job[u].left : CleanChild(u, c) \/ CleanChildStuck(u, c)
<1>1. ASSUME NEW u \in Updaters, Startup(u) PROVE FALSE
  BY <1>1 DEF Startup, Start, Quarantine, QuarantineFails, CreateRoot,
     CreateRootFails, CreateRun, CreateRunFails, AcquireLock, LockTaken,
     AcquireLockFails, MakeExplicit, ReuseExplicit, EndsQuietly, Made, history
<1>2. ASSUME NEW u \in Updaters, Prune(u) PROVE FALSE
  BY <1>2 DEF Prune, PruneBegins, PruneEnds, ListRun, SkipRun, PruneClaimed,
     ClaimRun, ClaimFails, history
<1>3. ASSUME NEW u \in Updaters, Work(u) PROVE FALSE
  BY <1>3 DEF Work, BackUp, MarkComplete, MarkCompleteFails, RevertCompletes, Works,
     DropBackup, KeepBackup, GiveUp, history
<1>4. ASSUME NEW u \in Updaters, Exit(u) \/ Crash(u) PROVE FALSE
  BY <1>4 DEF Exit, ReleaseLock, RemoveLock, CleanupStarts, Leaves, CleanupEnds,
     EndsQuietly, Crash, history
<1>5. ASSUME NEW u \in Updaters, Clean(u)
      PROVE  \/ CleanDirectory(u)
             \/ \E c \in job[u].left : CleanChild(u, c) \/ CleanChildStuck(u, c)
  BY <1>5 DEF Clean, CleanOpen, CleanRefused, CleanLost, CleanStuck, CleanMarker,
     CleanFails
<1>. QED
  BY <1>1, <1>2, <1>3, <1>4, <1>5 DEF Next, Tick, vars, history

LEMMA ContestedSteps ==
    ASSUME [Next]_vars, contested' # contested
    PROVE  \E u \in Updaters :
              \/ CleanDirectory(u)
              \/ \E d \in Runs : ListRun(u, d)
              \/ \E d \in Dirs : UsedBy(u, d)
<1>1. ASSUME NEW u \in Updaters, Startup(u) PROVE \E d \in Dirs : UsedBy(u, d)
  BY <1>1 DEF Startup, Start, Quarantine, QuarantineFails, CreateRoot,
     CreateRootFails, CreateRun, CreateRunFails, AcquireLock, LockTaken,
     AcquireLockFails, MakeExplicit, ReuseExplicit, EndsQuietly, Made, history, Dirs
<1>2. ASSUME NEW u \in Updaters, Prune(u) PROVE \E d \in Runs : ListRun(u, d)
  BY <1>2 DEF Prune, PruneBegins, PruneEnds, SkipRun, PruneClaimed,
     ClaimRun, ClaimFails, history
<1>3. ASSUME NEW u \in Updaters, Work(u) PROVE FALSE
  BY <1>3 DEF Work, BackUp, MarkComplete, MarkCompleteFails, RevertCompletes, Works,
     DropBackup, KeepBackup, GiveUp, history
<1>4. ASSUME NEW u \in Updaters, Exit(u) \/ Crash(u) PROVE FALSE
  BY <1>4 DEF Exit, ReleaseLock, RemoveLock, CleanupStarts, Leaves, CleanupEnds,
     EndsQuietly, Crash, history
<1>5. ASSUME NEW u \in Updaters, Clean(u) PROVE CleanDirectory(u)
  BY <1>5 DEF Clean, CleanOpen, CleanRefused, CleanLost, CleanStuck, CleanChild,
     CleanChildStuck, CleanMarker, CleanFails, CleanerStep
<1>. QED
  BY <1>1, <1>2, <1>3, <1>4, <1>5 DEF Next, Tick, vars, history

LEMMA ParamsSteps ==
    ASSUME [Next]_vars, UNCHANGED <<owns, retain, dropLock>> => FALSE
    PROVE  \E u \in Updaters :
              \/ Ends(u) \/ AcquireLock(u) \/ KeepBackup(u)
              \/ \E d \in Dirs : Made(u, d) /\ pc[u] \in {"off", "create"}
<1>1. ASSUME NEW u \in Updaters, Startup(u)
      PROVE  \/ Ends(u) \/ AcquireLock(u)
             \/ \E d \in Dirs : Made(u, d) /\ pc[u] \in {"off", "create"}
  BY <1>1 DEF Startup, Start, Quarantine, QuarantineFails, CreateRoot,
     CreateRootFails, CreateRun, CreateRunFails,
     AcquireLockFails, MakeExplicit, ReuseExplicit, EndsQuietly, params, Dirs
<1>2. ASSUME NEW u \in Updaters, Prune(u) PROVE FALSE
  BY <1>2 DEF Prune, PruneBegins, PruneEnds, ListRun, SkipRun, PruneClaimed,
     ClaimRun, ClaimFails, params
<1>3. ASSUME NEW u \in Updaters, Work(u) PROVE KeepBackup(u)
  BY <1>3 DEF Work, BackUp, MarkComplete, MarkCompleteFails, RevertCompletes, Works,
     DropBackup, GiveUp, params
<1>4. ASSUME NEW u \in Updaters, Exit(u) \/ Crash(u) PROVE Ends(u)
  BY <1>4 DEF Exit, ReleaseLock, RemoveLock, CleanupStarts, Leaves, CleanupEnds,
     EndsQuietly, Crash, params
<1>5. ASSUME NEW u \in Updaters, Clean(u) PROVE FALSE
  BY <1>5 DEF Clean, CleanOpen, CleanRefused, CleanLost, CleanStuck, CleanChild,
     CleanChildStuck, CleanMarker, CleanDirectory, CleanFails, CleanerStep, params
<1>. QED
  BY <1>1, <1>2, <1>3, <1>4, <1>5 DEF Next, Tick, vars, params

LEMMA PruningSteps ==
    ASSUME [Next]_vars, UNCHANGED <<now, seen, claimed, stale>> => FALSE
    PROVE  \E u \in Updaters : Ends(u) \/ Prune(u)
<1>1. ASSUME NEW u \in Updaters, Startup(u) PROVE Ends(u)
  BY <1>1 DEF Startup, Start, Quarantine, QuarantineFails, CreateRoot,
     CreateRootFails, CreateRun, CreateRunFails, AcquireLock, LockTaken,
     AcquireLockFails, MakeExplicit, ReuseExplicit, EndsQuietly, Made, pruning
<1>3. ASSUME NEW u \in Updaters, Work(u) PROVE FALSE
  BY <1>3 DEF Work, BackUp, MarkComplete, MarkCompleteFails, RevertCompletes, Works,
     DropBackup, KeepBackup, GiveUp, pruning
<1>4. ASSUME NEW u \in Updaters, Exit(u) \/ Crash(u) PROVE Ends(u)
  BY <1>4 DEF Exit, ReleaseLock, RemoveLock, CleanupStarts, Leaves, CleanupEnds,
     EndsQuietly, Crash, pruning
<1>5. ASSUME NEW u \in Updaters, Clean(u) PROVE FALSE
  BY <1>5 DEF Clean, CleanOpen, CleanRefused, CleanLost, CleanStuck, CleanChild,
     CleanChildStuck, CleanMarker, CleanDirectory, CleanFails, CleanerStep, pruning
<1>. QED
  BY <1>1, <1>3, <1>4, <1>5 DEF Next, Tick, vars, pruning

LEMMA JobSteps ==
    ASSUME [Next]_vars, job' # job
    PROVE  \E u \in Updaters :
              \/ Ends(u) \/ CleanupStarts(u) \/ Clean(u)
              \/ \E d \in Runs : PruneClaimed(u, d) \/ ClaimRun(u, d)
<1>1. ASSUME NEW u \in Updaters, Startup(u) PROVE Ends(u)
  BY <1>1 DEF Startup, Start, Quarantine, QuarantineFails, CreateRoot,
     CreateRootFails, CreateRun, CreateRunFails, AcquireLock, LockTaken,
     AcquireLockFails, MakeExplicit, ReuseExplicit, EndsQuietly, Made
<1>2. ASSUME NEW u \in Updaters, Prune(u)
      PROVE  \E d \in Runs : PruneClaimed(u, d) \/ ClaimRun(u, d)
  BY <1>2 DEF Prune, PruneBegins, PruneEnds, ListRun, SkipRun, ClaimFails
<1>3. ASSUME NEW u \in Updaters, Work(u) PROVE FALSE
  BY <1>3 DEF Work, BackUp, MarkComplete, MarkCompleteFails, RevertCompletes, Works,
     DropBackup, KeepBackup, GiveUp
<1>4. ASSUME NEW u \in Updaters, Exit(u) \/ Crash(u) PROVE Ends(u) \/ CleanupStarts(u)
  BY <1>4 DEF Exit, ReleaseLock, RemoveLock, Leaves, CleanupEnds, EndsQuietly, Crash
<1>. QED
  BY <1>1, <1>2, <1>3, <1>4 DEF Next, Tick, vars

-----------------------------------------------------------------------------
(* Types *)

\* What the update itself does to the entries of its directory.
Rewrites(u) ==
    LET d == run[u] IN
    /\ has' = [has EXCEPT ![d] = has'[d]]
    /\ has[d] \ {"old"} \subseteq has'[d]
    /\ has'[d] \subseteq has[d] \cup {"old", "complete"}
    /\ "old" \in has'[d] => "old" \in has[d] \/ BackUp(u)
    /\ "complete" \in has'[d] => "complete" \in has[d] \/ MarkComplete(u)

LEMMA WorkChanges ==
    ASSUME IInv, NEW u \in Updaters, Work(u), has' # has,
           has \in [Dirs -> SUBSET Entries]
    PROVE  pc[u] \in {"work", "moving", "ending"} /\ pc'[u] # pc[u] /\ Rewrites(u)
<1>0. pc \in [Updaters -> Phases] /\ (pc[u] \in {"work", "moving", "ending"} => run[u] \in Dirs)
  BY DEF IInv, Shapes, RunIsMade, Using
<1>1. CASE BackUp(u)
  <2>1. /\ pc[u] = "work" /\ pc' = [pc EXCEPT ![u] = "moving"]
        /\ has' = [has EXCEPT ![run[u]] = has[run[u]] \cup {"old"}]
    BY <1>1 DEF BackUp, Works, Changes, Goes
  <2>. QED
    BY <1>0, <1>1, <2>1 DEF Rewrites
<1>2. CASE MarkComplete(u)
  <2>1. /\ pc[u] \in {"work", "moving"} /\ pc' = [pc EXCEPT ![u] = "ending"]
        /\ has' = [has EXCEPT ![run[u]] = has[run[u]] \cup {"complete"}]
    BY <1>2 DEF MarkComplete, Works, Changes, Goes
  <2>. QED
    BY <1>0, <1>2, <2>1 DEF Rewrites
<1>3. CASE MarkCompleteFails(u) \/ RevertCompletes(u)
  <2>1. /\ pc[u] \in {"work", "moving"} /\ pc' = [pc EXCEPT ![u] = "ending"]
        /\ has' = [has EXCEPT ![run[u]] = has[run[u]]]
    BY <1>3 DEF MarkCompleteFails, RevertCompletes, Works, Changes, Goes
  <2>. QED
    BY <1>0, <2>1 DEF Rewrites
<1>4. CASE DropBackup(u)
  <2>1. PICK kept \in SUBSET (has[run[u]] \cap {"old"}) :
           Works(u, {"ending"}, "exit", (has[run[u]] \ {"old"}) \cup kept)
    BY <1>4 DEF DropBackup
  <2>2. /\ pc[u] = "ending" /\ pc' = [pc EXCEPT ![u] = "exit"]
        /\ has' = [has EXCEPT ![run[u]] = (has[run[u]] \ {"old"}) \cup kept]
    BY <2>1 DEF Works, Changes, Goes
  <2>. QED
    BY <1>0, <2>2 DEF Rewrites
<1>5. CASE KeepBackup(u) \/ GiveUp(u)
  BY <1>5 DEF KeepBackup, GiveUp, disk
<1>. QED
  BY <1>1, <1>2, <1>3, <1>4, <1>5 DEF Work

LEMMA ClocksTyped ==
    ASSUME TypeOK, [Next]_vars
    PROVE  /\ clock' \in 0 .. MaxClock
           /\ mtime' \in [Runs -> 0 .. MaxClock]
           /\ backedUp' \in [Runs -> 0 .. MaxClock]
           /\ now' \in [Updaters -> 0 .. MaxClock]
<1>1. clock \in 0 .. MaxClock /\ 0 \in 0 .. MaxClock
  BY ClockAssumption DEF TypeOK
<1>2. clock' \in 0 .. MaxClock
  BY <1>1, ClockSteps, ClockAssumption DEF Tick
<1>3. mtime' \in [Runs -> 0 .. MaxClock]
  <2>1. mtime \in [Runs -> 0 .. MaxClock]
    BY DEF TypeOK
  <2>. QED
    BY <1>1, <2>1, MtimeSteps DEF Stamp, Vanish
<1>4. backedUp' \in [Runs -> 0 .. MaxClock]
  <2>1. backedUp \in [Runs -> 0 .. MaxClock]
    BY DEF TypeOK
  <2>2. \/ backedUp' = backedUp \/ (\E ds : Vanish(ds))
        \/ \E d : Moves(d) \/ Settles(d)
    BY HistorySteps DEF BackUp, MarkComplete, MarkCompleteFails, RevertCompletes,
       CleanMarker, CleanerStep, CleanDirectory
  <2>. QED
    BY <1>1, <2>1, <2>2 DEF Moves, Settles, Vanish
<1>5. now' \in [Updaters -> 0 .. MaxClock]
  <2>1. now \in [Updaters -> 0 .. MaxClock]
    BY DEF TypeOK
  <2>2. \/ now' = now
        \/ \E u : now' = [now EXCEPT ![u] = 0] \/ now' = [now EXCEPT ![u] = clock]
    BY ZenonT(40), PruningSteps DEF Ends, Prune, PruneBegins, PruneEnds, ListRun, SkipRun,
       PruneClaimed, ClaimRun, ClaimFails
  <2>. QED
    BY <1>1, <2>1, <2>2
<1>. QED
  BY <1>2, <1>3, <1>4, <1>5

LEMMA EntriesTyped ==
    ASSUME IInv, TypeOK, [Next]_vars
    PROVE  has' \in [Dirs -> SUBSET Entries]
<1>1. has \in [Dirs -> SUBSET Entries] /\ pc \in [Updaters -> Phases]
  BY DEF TypeOK
<1>2. ASSUME NEW u \in Updaters, AcquireLock(u) PROVE has' \in [Dirs -> SUBSET Entries]
  <2>1. run[u] \in Dirs
    BY <1>2 DEF IInv, RunIsMade, AcquireLock, LockTaken, Using
  <2>2. has' = [has EXCEPT ![run[u]] = has[run[u]] \cup {"lock"}]
    BY <1>2 DEF AcquireLock, LockTaken, Changes
  <2>. QED
    BY <1>1, <2>1, <2>2 DEF Entries
<1>3. ASSUME NEW u \in Updaters, Work(u), has' # has PROVE has' \in [Dirs -> SUBSET Entries]
  <2>1. pc[u] \in {"work", "moving", "ending"}
    BY <1>1, <1>3, WorkChanges
  <2>2. run[u] \in Dirs
    BY <2>1 DEF IInv, RunIsMade, Using
  <2>3. Rewrites(u)
    BY <1>1, <1>3, WorkChanges
  <2>4. has[run[u]] \in SUBSET Entries
    BY <1>1, <2>2
  <2>5. has'[run[u]] \in SUBSET Entries
    BY <2>3, <2>4 DEF Entries, Rewrites
  <2>. QED
    BY <1>1, <2>3, <2>5 DEF Rewrites
<1>4. ASSUME NEW u \in Updaters, RemoveLock(u) PROVE has' \in [Dirs -> SUBSET Entries]
  BY <1>1, <1>4 DEF RemoveLock
<1>5. ASSUME NEW u \in Updaters, NEW c, CleanMarker(u) \/ CleanChild(u, c)
      PROVE  has' \in [Dirs -> SUBSET Entries]
  <2>1. \E d, x : has' = [has EXCEPT ![d] = has[d] \ {x}]
    BY <1>5 DEF CleanMarker, CleanChild, Removes
  <2>. QED
    BY <1>1, <2>1
<1>6. ASSUME NEW u \in Updaters, CleanDirectory(u)
      PROVE  has' \in [Dirs -> SUBSET Entries]
  BY <1>1, <1>6 DEF CleanDirectory, Vanish
<1>. QED
  BY <1>1, <1>2, <1>3, <1>4, <1>5, <1>6, HasSteps

LEMMA HistoryTyped ==
    ASSUME IInv, TypeOK, [Next]_vars
    PROVE  needed' \subseteq Dirs /\ marked' \subseteq Dirs
           /\ contested' \subseteq Dirs /\ early' \subseteq Dirs
<1>1. /\ needed \subseteq Dirs /\ marked \subseteq Dirs
      /\ contested \subseteq Dirs /\ early \subseteq Dirs
  BY DEF TypeOK
<1>2. ASSUME NEW u \in Updaters,
             BackUp(u) \/ MarkComplete(u) \/ MarkCompleteFails(u) \/ RevertCompletes(u)
      PROVE  needed' \subseteq Dirs /\ marked' \subseteq Dirs
  <2>1. run[u] \in Dirs
    BY <1>2 DEF IInv, RunIsMade, BackUp, MarkComplete, MarkCompleteFails,
       RevertCompletes, Works, Using
  <2>. QED
    BY <1>1, <1>2, <2>1 DEF BackUp, MarkComplete, MarkCompleteFails, RevertCompletes,
       Moves, Settles
<1>3. ASSUME NEW u \in Updaters, CleanMarker(u) \/ CleanDirectory(u)
      PROVE  needed' \subseteq Dirs /\ marked' \subseteq Dirs
  BY <1>1, <1>3 DEF CleanMarker, CleanDirectory, CleanerStep, Vanish
<1>4. contested' \subseteq Dirs
  <2>1. ASSUME NEW u, CleanDirectory(u) PROVE contested' \subseteq Dirs
    BY <1>1, <2>1 DEF CleanDirectory, Vanish
  <2>2. ASSUME NEW u, NEW d \in Runs, ListRun(u, d) PROVE contested' \subseteq Dirs
    BY <1>1, <2>2 DEF ListRun, Dirs
  <2>3. ASSUME NEW u, NEW d \in Dirs, UsedBy(u, d) PROVE contested' \subseteq Dirs
    BY <1>1, <2>3 DEF UsedBy
  <2>. QED
    BY <1>1, <2>1, <2>2, <2>3, ContestedSteps
<1>5. early' \subseteq Dirs
  <2>1. ASSUME NEW u, CleanDirectory(u) PROVE early' \subseteq Dirs
    BY <1>1, <2>1 DEF CleanDirectory, Vanish
  <2>2. ASSUME NEW u, NEW c, CleanChild(u, c) \/ CleanChildStuck(u, c)
        PROVE  early' \subseteq Dirs
    BY <1>1, <2>2 DEF CleanChild, CleanChildStuck, Touches
  <2>. QED
    BY <1>1, <2>1, <2>2, EarlySteps
<1>. QED
  BY <1>1, <1>2, <1>3, <1>4, <1>5, HistorySteps

LEMMA ParamsTyped ==
    ASSUME TypeOK, [Next]_vars
    PROVE  /\ owns' \in [Updaters -> BOOLEAN] /\ retain' \in [Updaters -> BOOLEAN]
           /\ dropLock' \in [Updaters -> BOOLEAN]
<1>1. /\ owns \in [Updaters -> BOOLEAN] /\ retain \in [Updaters -> BOOLEAN]
      /\ dropLock \in [Updaters -> BOOLEAN]
  BY DEF TypeOK
<1>2. ASSUME NEW u, Ends(u)
      PROVE  /\ owns' \in [Updaters -> BOOLEAN] /\ retain' \in [Updaters -> BOOLEAN]
             /\ dropLock' \in [Updaters -> BOOLEAN]
  BY <1>1, <1>2 DEF Ends
<1>3. ASSUME NEW u, AcquireLock(u)
      PROVE  /\ owns' \in [Updaters -> BOOLEAN] /\ retain' \in [Updaters -> BOOLEAN]
             /\ dropLock' \in [Updaters -> BOOLEAN]
  BY <1>1, <1>3 DEF AcquireLock, LockTaken
<1>4. ASSUME NEW u, KeepBackup(u)
      PROVE  /\ owns' \in [Updaters -> BOOLEAN] /\ retain' \in [Updaters -> BOOLEAN]
             /\ dropLock' \in [Updaters -> BOOLEAN]
  BY <1>1, <1>4 DEF KeepBackup
<1>5. ASSUME NEW u, NEW d, Made(u, d)
      PROVE  /\ owns' \in [Updaters -> BOOLEAN] /\ retain' \in [Updaters -> BOOLEAN]
             /\ dropLock' \in [Updaters -> BOOLEAN]
  BY <1>1, <1>5 DEF Made
<1>. QED
  BY <1>1, <1>2, <1>3, <1>4, <1>5, ParamsSteps

LEMMA PruningTyped ==
    ASSUME TypeOK, [Next]_vars
    PROVE  /\ seen' \in [Updaters -> SUBSET Runs]
           /\ claimed' \in [Updaters -> SUBSET Runs]
           /\ stale' \in [Updaters -> SUBSET Runs]
<1>1. /\ seen \in [Updaters -> SUBSET Runs] /\ claimed \in [Updaters -> SUBSET Runs]
      /\ stale \in [Updaters -> SUBSET Runs]
  BY DEF TypeOK
<1>2. ASSUME NEW u \in Updaters, Ends(u)
      PROVE  /\ seen' \in [Updaters -> SUBSET Runs]
             /\ claimed' \in [Updaters -> SUBSET Runs]
             /\ stale' \in [Updaters -> SUBSET Runs]
  BY <1>1, <1>2 DEF Ends
<1>3. ASSUME NEW u \in Updaters, Prune(u)
      PROVE  /\ seen' \in [Updaters -> SUBSET Runs]
             /\ claimed' \in [Updaters -> SUBSET Runs]
             /\ stale' \in [Updaters -> SUBSET Runs]
  <2>1. CASE PruneBegins(u) \/ PruneEnds(u)
    BY <1>1, <2>1 DEF PruneBegins, PruneEnds
  <2>2. ASSUME NEW d \in Runs, ListRun(u, d)
        PROVE  /\ seen' \in [Updaters -> SUBSET Runs]
               /\ claimed' \in [Updaters -> SUBSET Runs]
               /\ stale' \in [Updaters -> SUBSET Runs]
    BY <1>1, <2>2 DEF ListRun
  <2>3. ASSUME NEW d \in Runs,
               SkipRun(u, d) \/ PruneClaimed(u, d) \/ ClaimRun(u, d) \/ ClaimFails(u, d)
        PROVE  /\ seen' \in [Updaters -> SUBSET Runs]
               /\ claimed' \in [Updaters -> SUBSET Runs]
               /\ stale' \in [Updaters -> SUBSET Runs]
    BY <1>1, <2>3 DEF SkipRun, PruneClaimed, ClaimRun, ClaimFails, Takes
  <2>. QED
    BY <1>3, <2>1, <2>2, <2>3 DEF Prune
<1>. QED
  BY <1>1, <1>2, <1>3, PruningSteps

LEMMA JobTyped ==
    ASSUME IInv, TypeOK, [Next]_vars
    PROVE  job' \in [Updaters -> Jobs]
<1>1. job \in [Updaters -> Jobs] /\ has \in [Dirs -> SUBSET Entries]
  BY DEF TypeOK
<1>2. NoJob \in Jobs
  BY DEF NoJob, Jobs
<1>3. ASSUME NEW d \in Dirs, NEW name \in {"run", "prune"} PROVE JobOn(d, name) \in Jobs
  BY <1>3 DEF JobOn, NoJob, Jobs
<1>4. ASSUME NEW u \in Updaters, Ends(u) PROVE job' \in [Updaters -> Jobs]
  BY <1>1, <1>2, <1>4 DEF Ends
<1>5. ASSUME NEW u \in Updaters, CleanupStarts(u) PROVE job' \in [Updaters -> Jobs]
  <2>1. run[u] \in Dirs
    BY <1>5 DEF IInv, RunIsMade, CleanupStarts, Using
  <2>. QED
    BY <1>1, <1>3, <1>5, <2>1 DEF CleanupStarts
<1>6. ASSUME NEW u \in Updaters, NEW d \in Runs, PruneClaimed(u, d) \/ ClaimRun(u, d)
      PROVE  job' \in [Updaters -> Jobs]
  BY <1>1, <1>3, <1>6 DEF PruneClaimed, ClaimRun, Dirs
<1>7. ASSUME NEW u \in Updaters, Clean(u) PROVE job' \in [Updaters -> Jobs]
  <2>1. ASSUME NEW s \in {"none", "directory"}, Step(u, s)
        PROVE  job' \in [Updaters -> Jobs]
    BY <1>1, <1>2, <2>1 DEF Step, Jobs
  <2>2. CASE CleanOpen(u)
    <3>1. PICK left \in SUBSET Children :
             job' = [job EXCEPT ![u].step = "children", ![u].left = left]
      BY <2>2 DEF CleanOpen
    <3>2. [job[u] EXCEPT !.step = "children", !.left = left] \in Jobs
      BY <1>1 DEF Jobs
    <3>3. job' = [job EXCEPT ![u] = [job[u] EXCEPT !.step = "children", !.left = left]]
      BY <1>1, <3>1
    <3>. HIDE DEF Jobs
    <3>. QED
      BY <1>1, <3>2, <3>3
  <2>3. ASSUME NEW c, CleanChild(u, c) \/ CleanChildStuck(u, c)
        PROVE  job' \in [Updaters -> Jobs]
    BY <1>1, <2>3 DEF CleanChild, CleanChildStuck, Jobs
  <2>. QED
    BY <1>7, <2>1, <2>2, <2>3 DEF Clean, CleanRefused, CleanLost, CleanStuck, CleanMarker,
       CleanDirectory, CleanFails
<1>. QED
  BY <1>1, <1>4, <1>5, <1>6, <1>7, JobSteps

LEMMA TypesKeep == ASSUME IInv, IInv', TypeOK, [Next]_vars PROVE TypeOK'
<1>1. aside' \subseteq {"leaf", "tree"}
  <2>1. aside \subseteq {"leaf", "tree"}
    BY DEF TypeOK
  <2>2. ASSUME NEW u \in Updaters, Startup(u)
        PROVE  aside' = aside \/ \E what \in {"leaf", "tree"} : aside' = aside \cup {what}
    BY <2>2 DEF Startup, Start, Quarantine, QuarantineFails, CreateRoot,
       CreateRootFails, CreateRun, CreateRunFails, AcquireLock, LockTaken,
       AcquireLockFails, MakeExplicit, ReuseExplicit, EndsQuietly, Made, disk, roots
  <2>3. ASSUME NEW u \in Updaters, Prune(u) PROVE aside' = aside \/ Sweeps
    BY <2>3 DEF Prune, PruneBegins, PruneEnds, ListRun, SkipRun, PruneClaimed,
       ClaimRun, ClaimFails, disk, roots
  <2>4. ASSUME NEW u \in Updaters, Work(u) \/ Exit(u) \/ Crash(u) PROVE aside' = aside
    BY <2>4 DEF Work, BackUp, MarkComplete, MarkCompleteFails, RevertCompletes, Works,
       DropBackup, KeepBackup, GiveUp, Exit, ReleaseLock, RemoveLock, CleanupStarts,
       Leaves, CleanupEnds, EndsQuietly, Crash, disk, roots
  <2>5. ASSUME NEW u \in Updaters, Clean(u) PROVE aside' = aside
    BY <2>5 DEF Clean, CleanOpen, CleanRefused, CleanLost, CleanStuck, CleanChild,
       CleanChildStuck, CleanMarker, CleanDirectory, CleanFails, CleanerStep, roots
  <2>. QED
    BY <2>1, <2>2, <2>3, <2>4, <2>5 DEF Next, Tick, vars, disk, roots, Sweeps
<1>. QED
  BY <1>1, ClocksTyped, EntriesTyped, HistoryTyped, ParamsTyped, PruningTyped, JobTyped
  DEF TypeOK, IInv, Shapes

-----------------------------------------------------------------------------
(* The invariant *)

Uses(u, d) == pc[u] \in Using /\ run[u] = d

HeldIsThere ==
    \A d \in Dirs : lock[d] # NoOne =>
        /\ "lock" \in has[d] /\ place[d] = "run"
        /\ pc[lock[d]] \in Holding /\ run[lock[d]] = d

AloneInRun ==
    \A u, v \in Updaters, d \in Undisputed :
        Uses(u, d) /\ Uses(v, d) /\ place[d] # "unused" => u = v

JobIsOwn ==
    \A u \in Updaters : job[u].step # "none" =>
        \/ job[u].at = "run" /\ pc[u] = "cleanup" /\ job[u].dir = run[u]
        \/ /\ job[u].at = "prune" /\ job[u].dir \in Runs
           /\ place[job[u].dir] \notin {"unused", "run"}

ListedIsMade ==
    \A u \in Updaters : /\ \A d \in claimed[u] : place[d] \notin {"unused", "run"}
                        /\ \A d \in stale[u] : place[d] # "unused"

OwnersClean ==
    \A u \in Updaters : /\ pc[u] = "cleanup" => owns[u] /\ ~retain[u]
                        /\ pc[u] \notin Using => ~owns[u]

Orderly ==
    /\ IInv /\ TypeOK
    /\ HeldIsThere
    /\ AloneInRun
    /\ JobIsOwn
    /\ ListedIsMade
    /\ OwnersClean

-----------------------------------------------------------------------------
(* Locks *)

LEMMA HeldKeeps == ASSUME Orderly, [Next]_vars PROVE HeldIsThere'
<1>1. /\ lock \in [Dirs -> Updaters \cup {NoOne}] /\ has \in [Dirs -> SUBSET Entries]
      /\ pc \in [Updaters -> Phases] /\ run \in [Updaters -> Dirs \cup {NoRun}]
      /\ place \in [Dirs -> {"unused", "run", "prune", "gone", "aside"}]
  BY DEF Orderly, TypeOK
<1> SUFFICES ASSUME NEW d \in Dirs, lock'[d] # NoOne
             PROVE  /\ "lock" \in has'[d] /\ place'[d] = "run"
                    /\ pc'[lock'[d]] \in Holding /\ run'[lock'[d]] = d
  BY DEF HeldIsThere
<1>2. CASE lock'[d] # lock[d]
  <2>1. PICK u \in Updaters : AcquireLock(u)
    <3>1. ASSUME NEW u \in Updaters, Ends(u) \/ ReleaseLock(u) PROVE FALSE
      BY <1>1, <1>2, <3>1 DEF Ends, ReleaseLock
    <3>. QED
      BY <1>2, <3>1, LockSteps
  <2>2. /\ lock' = [lock EXCEPT ![run[u]] = u] /\ place[run[u]] = "run"
        /\ has' = [has EXCEPT ![run[u]] = has[run[u]] \cup {"lock"}]
        /\ pc' = [pc EXCEPT ![u] = "work"] /\ UNCHANGED <<run, place>>
    BY <2>1 DEF AcquireLock, LockTaken, Changes, Goes
  <2>3. run[u] = d /\ lock'[d] = u
    BY <1>1, <1>2, <2>2
  <2>. QED
    BY <1>1, <2>2, <2>3 DEF Holding
<1>3. CASE lock'[d] = lock[d]
  <2> DEFINE w == lock[d]
  <2>1. /\ w \in Updaters /\ "lock" \in has[d] /\ place[d] = "run"
        /\ pc[w] \in Holding /\ run[w] = d
    BY <1>1, <1>3 DEF Orderly, HeldIsThere
  <2>2. "lock" \in has'[d]
    <3>1. ASSUME NEW u \in Updaters, AcquireLock(u) PROVE "lock" \in has'[d]
      BY <1>1, <2>1, <3>1 DEF AcquireLock, LockTaken, Changes
    <3>2. ASSUME NEW u \in Updaters, Work(u), has' # has PROVE "lock" \in has'[d]
      <4>1. Rewrites(u)
        BY <1>1, <3>2, WorkChanges DEF Orderly
      <4>. QED
        BY <1>1, <2>1, <4>1 DEF Rewrites
    <3>3. ASSUME NEW u \in Updaters, RemoveLock(u) PROVE "lock" \in has'[d]
      BY <1>1, <1>3, <2>1, <3>3 DEF RemoveLock
    <3>4. ASSUME NEW u \in Updaters, CleanMarker(u) PROVE "lock" \in has'[d]
      BY <1>1, <2>1, <3>4 DEF CleanMarker, Removes
    <3>5. ASSUME NEW u \in Updaters, NEW c, CleanChild(u, c) PROVE "lock" \in has'[d]
      BY <1>1, <1>3, <2>1, <3>5 DEF CleanChild, Removes
    <3>6. ASSUME NEW u \in Updaters, CleanDirectory(u) PROVE "lock" \in has'[d]
      BY <1>1, <2>1, <3>6 DEF CleanDirectory, Vanish
    <3>. QED
      BY <2>1, <3>1, <3>2, <3>3, <3>4, <3>5, <3>6, HasSteps
  <2>3. place'[d] = "run"
    <3>1. ASSUME NEW u \in Updaters, Quarantine(u) PROVE place'[d] = "run"
      BY <1>3, <2>1, <3>1 DEF Quarantine
    <3>2. ASSUME NEW u \in Updaters, CleanDirectory(u) PROVE place'[d] = "run"
      BY <2>1, <3>2 DEF CleanDirectory, Vanish
    <3>3. ASSUME NEW u \in Updaters, NEW e \in Runs, ClaimRun(u, e) PROVE place'[d] = "run"
      BY <1>1, <1>3, <2>1, <3>3 DEF ClaimRun
    <3>4. ASSUME NEW u \in Updaters, NEW e \in Dirs, place[e] = "unused", Made(u, e)
          PROVE  place'[d] = "run"
      BY <1>1, <2>1, <3>4 DEF Made
    <3>. QED
      BY <2>1, <3>1, <3>2, <3>3, <3>4, PlaceSteps
  <2>4. pc'[w] \in Holding /\ run'[w] = d
    <3>1. ASSUME NEW u \in Updaters, Ends(u) PROVE pc'[w] \in Holding /\ run'[w] = d
      <4>1. u # w
        BY <1>3, <3>1 DEF Ends
      <4>. QED
        BY <1>1, <2>1, <3>1, <4>1 DEF Ends, Goes
    <3>2. ASSUME NEW u \in Updaters, Proceeds(u) PROVE pc'[w] \in Holding /\ run'[w] = d
      <4>1. u = w => ~ReleaseLock(u)
        BY <1>1, <1>3, <2>1 DEF ReleaseLock
      <4>2. PICK to : /\ pc' = [pc EXCEPT ![u] = to] /\ run' = run
                      /\ pc[u] \in Holding => to \in Holding \/ ReleaseLock(u)
        BY <3>2 DEF Proceeds, Goes
      <4>. QED
        BY <1>1, <2>1, <4>1, <4>2
    <3>3. ASSUME NEW u \in Updaters, NEW e, UsedBy(u, e), pc[u] \in {"off", "create"}
          PROVE  pc'[w] \in Holding /\ run'[w] = d
      <4>1. u # w
        BY <2>1, <3>3 DEF Holding
      <4>. QED
        BY <1>1, <2>1, <3>3, <4>1 DEF UsedBy, Goes
    <3>. QED
      BY <2>1, <3>1, <3>2, <3>3, PhaseSteps
  <2>. QED
    BY <1>3, <2>2, <2>3, <2>4
<1>. QED
  BY <1>2, <1>3

-----------------------------------------------------------------------------
(* Who uses a directory, and where it is *)

LEMMA UsesSteps ==
    ASSUME TypeOK, [Next]_vars, NEW u \in Updaters, NEW d \in Dirs, Uses(u, d)'
    PROVE  \/ Uses(u, d)
           \/ UsedBy(u, d) /\ place[d] = "unused" /\ Made(u, d)
           \/ UsedBy(u, d) /\ d \in Explicit /\ ReuseExplicit(u, d)
<1>1. pc \in [Updaters -> Phases] /\ run \in [Updaters -> Dirs \cup {NoRun}]
  BY DEF TypeOK
<1>2. CASE UNCHANGED <<pc, run>>
  BY <1>2 DEF Uses
<1>3. ASSUME NEW v \in Updaters, Ends(v) PROVE Uses(u, d)
  BY <1>1, <1>3 DEF Ends, Goes, Uses, Using
<1>4. ASSUME NEW v \in Updaters, Proceeds(v) PROVE Uses(u, d)
  <2>1. PICK to : /\ pc' = [pc EXCEPT ![v] = to] /\ run' = run
                  /\ to \in Using <=> pc[v] \in Using
    BY <1>4 DEF Proceeds, Goes
  <2>. QED
    BY <1>1, <2>1 DEF Uses
<1>5. ASSUME NEW v \in Updaters, NEW e, UsedBy(v, e)
      PROVE  Uses(u, d) \/ (u = v /\ d = e)
  BY <1>1, <1>5 DEF UsedBy, Goes, Uses
<1>. QED
  BY <1>2, <1>3, <1>4, <1>5, PhaseSteps

\* A directory is no longer contested only when it is gone.
LEMMA ContestedStays ==
    ASSUME TypeOK, [Next]_vars, NEW d \in contested, d \notin contested'
    PROVE  \E u \in Updaters : CleanDirectory(u) /\ Vanish({d})
<1>1. ASSUME NEW u, CleanDirectory(u) PROVE Vanish({d})
  <2>1. Vanish({job[u].dir})
    BY <1>1 DEF CleanDirectory
  <2>2. job[u].dir = d
    BY <2>1 DEF Vanish
  <2>. QED
    BY <2>1, <2>2
<1>2. ASSUME NEW u, NEW e, ListRun(u, e) \/ UsedBy(u, e) PROVE FALSE
  BY <1>2 DEF ListRun, UsedBy
<1>. QED
  BY <1>1, <1>2, ContestedSteps

LEMMA AloneKeeps == ASSUME Orderly, [Next]_vars PROVE AloneInRun'
<1>1. /\ pc \in [Updaters -> Phases] /\ run \in [Updaters -> Dirs \cup {NoRun}]
      /\ place \in [Dirs -> {"unused", "run", "prune", "gone", "aside"}]
  BY DEF Orderly, TypeOK
<1> SUFFICES ASSUME NEW u \in Updaters, NEW v \in Updaters, NEW d \in Undisputed',
                    Uses(u, d)', Uses(v, d)', place'[d] # "unused", u # v
             PROVE  FALSE
  BY DEF AloneInRun
<1>2. d \in Dirs /\ (d \in Explicit => d \notin contested')
  BY DEF Undisputed
<1>3. ASSUME NEW x \in Updaters, Uses(x, d) PROVE d \in Runs => place[d] # "unused"
  BY <1>3 DEF Orderly, IInv, RunIsMade, Uses
<1>4. ASSUME NEW x \in Updaters, NEW y \in Updaters, Uses(y, d), UsedBy(x, d)
      PROVE  d \in Runs
  <2>1. InUse(d)
    BY <1>4 DEF Uses, InUse, Using
  <2>. QED
    BY <1>2, <1>4, <2>1 DEF UsedBy, Dirs
<1>5. CASE Uses(u, d) /\ Uses(v, d)
  <2>1. CASE place[d] = "unused"
    <3>1. ASSUME NEW x \in Updaters, Quarantine(x) \/ CleanDirectory(x) PROVE FALSE
      <4>1. d \notin Runs
        BY <1>3, <1>5, <2>1
      <4>. QED
        BY <1>1, <1>2, <2>1, <3>1, <4>1 DEF Quarantine, CleanDirectory, Vanish, Dirs
    <3>2. ASSUME NEW x \in Updaters, NEW e \in Dirs, Made(x, e) PROVE FALSE
      <4>1. UsedBy(x, d)
        BY <1>1, <1>2, <2>1, <3>2 DEF Made
      <4>2. d \in Runs
        BY <1>4, <1>5, <4>1
      <4>. QED
        BY <1>3, <1>5, <2>1, <4>2
    <3>3. ASSUME NEW x \in Updaters, NEW e \in Runs, ClaimRun(x, e) PROVE FALSE
      BY <1>1, <1>2, <1>3, <1>5, <2>1, <3>3 DEF ClaimRun
    <3>. QED
      BY <2>1, <3>1, <3>2, <3>3, PlaceSteps
  <2>2. CASE place[d] # "unused"
    <3>1. d \in Undisputed
      BY <1>2, ContestedStays DEF Undisputed, Orderly, Vanish
    <3>. QED
      BY <1>5, <2>2, <3>1 DEF Orderly, AloneInRun
  <2>. QED
    BY <2>1, <2>2
<1>6. ASSUME NEW x \in Updaters, NEW y \in Updaters, x # y, ~Uses(x, d), Uses(x, d)', Uses(y, d)'
      PROVE  FALSE
  <2>1. /\ UsedBy(x, d)
        /\ \/ place[d] = "unused" /\ Made(x, d)
           \/ d \in Explicit /\ ReuseExplicit(x, d)
    BY <1>2, <1>6, UsesSteps DEF Orderly
  <2>2. Uses(y, d)
    BY <1>1, <1>6, <2>1 DEF UsedBy, Goes, Uses
  <2>3. d \in Runs
    BY <1>4, <2>1, <2>2
  <2>. QED
    BY <1>3, <2>1, <2>2, <2>3, RunsAssumption
<1>. QED
  BY <1>5, <1>6

LEMMA MadeStays ==
    ASSUME TypeOK, [Next]_vars, NEW d \in Runs, place[d] # "unused"
    PROVE  /\ place'[d] # "unused"
           /\ place[d] # "run" => place'[d] # "run"
<1>1. d \in Dirs /\ d \notin Explicit /\ place \in [Dirs -> {"unused", "run", "prune", "gone", "aside"}]
  BY RunsAssumption DEF TypeOK, Dirs
<1>2. ASSUME NEW u, Quarantine(u)
      PROVE  place'[d] # "unused" /\ (place[d] # "run" => place'[d] # "run")
  BY <1>1, <1>2 DEF Quarantine
<1>3. ASSUME NEW u, CleanDirectory(u)
      PROVE  place'[d] # "unused" /\ (place[d] # "run" => place'[d] # "run")
  BY <1>1, <1>3 DEF CleanDirectory, Vanish
<1>4. ASSUME NEW u, NEW e, ClaimRun(u, e)
      PROVE  place'[d] # "unused" /\ (place[d] # "run" => place'[d] # "run")
  BY <1>1, <1>4 DEF ClaimRun
<1>5. ASSUME NEW u, NEW e, place[e] = "unused", Made(u, e)
      PROVE  place'[d] # "unused" /\ (place[d] # "run" => place'[d] # "run")
  BY <1>1, <1>5 DEF Made
<1>. QED
  BY <1>2, <1>3, <1>4, <1>5, PlaceSteps

-----------------------------------------------------------------------------
(* Jobs *)

LEMMA ListedKeeps == ASSUME Orderly, [Next]_vars PROVE ListedIsMade'
<1>1. /\ claimed \in [Updaters -> SUBSET Runs] /\ stale \in [Updaters -> SUBSET Runs]
  BY DEF Orderly, TypeOK
<1>2. ~PruneLeaf(RunName)
  BY DEF PruneLeaf, RunName, Name
<1> SUFFICES ASSUME NEW u \in Updaters
             PROVE  /\ \A d \in claimed'[u] : place'[d] \notin {"unused", "run"}
                    /\ \A d \in stale'[u] : place'[d] # "unused"
  BY DEF ListedIsMade
<1>3. /\ \A d \in claimed'[u] : d \in claimed[u] \/ (place[d] = "prune" /\ d \in Runs)
      /\ \A d \in stale'[u] : d \in stale[u] \/ (Exists(d) /\ d \in Runs)
  <2>1. ASSUME NEW v \in Updaters, Ends(v)
        PROVE  claimed'[u] \subseteq claimed[u] /\ stale'[u] \subseteq stale[u]
    BY <1>1, <2>1 DEF Ends
  <2>2. ASSUME NEW v \in Updaters, NEW d \in Runs, ListRun(v, d)
        PROVE  /\ claimed'[u] = claimed[u] \/ (claimed'[u] = claimed[u] \cup {d} /\ place[d] = "prune")
               /\ stale'[u] = stale[u] \/ (stale'[u] = stale[u] \cup {d} /\ Exists(d))
    BY <1>1, <1>2, <2>2 DEF ListRun, NameOf, IsStale
  <2>3. ASSUME NEW v \in Updaters, PruneBegins(v) \/ PruneEnds(v)
        PROVE  claimed'[u] \subseteq claimed[u] /\ stale'[u] \subseteq stale[u]
    BY <1>1, <2>3 DEF PruneBegins, PruneEnds
  <2>4. ASSUME NEW v \in Updaters, NEW d \in Runs,
               SkipRun(v, d) \/ PruneClaimed(v, d) \/ ClaimRun(v, d) \/ ClaimFails(v, d)
        PROVE  claimed'[u] \subseteq claimed[u] /\ stale'[u] \subseteq stale[u]
    BY <1>1, <2>4 DEF SkipRun, PruneClaimed, ClaimRun, ClaimFails, Takes
  <2>. QED
    BY <2>1, <2>2, <2>3, <2>4, PruningSteps DEF Prune
<1>4. \A d \in claimed[u] : place[d] \notin {"unused", "run"} /\ d \in Runs
  BY <1>1 DEF Orderly, ListedIsMade
<1>5. \A d \in stale[u] : place[d] # "unused" /\ d \in Runs
  BY <1>1 DEF Orderly, ListedIsMade
<1>. QED
  BY <1>3, <1>4, <1>5, MadeStays DEF Orderly, Exists

LEMMA JobKeeps == ASSUME Orderly, [Next]_vars PROVE JobIsOwn'
<1>1. /\ job \in [Updaters -> Jobs] /\ pc \in [Updaters -> Phases]
      /\ run \in [Updaters -> Dirs \cup {NoRun}]
      /\ place \in [Dirs -> {"unused", "run", "prune", "gone", "aside"}]
  BY DEF Orderly, TypeOK
<1> SUFFICES ASSUME NEW u \in Updaters, job'[u].step # "none"
             PROVE  \/ job'[u].at = "run" /\ pc'[u] = "cleanup" /\ job'[u].dir = run'[u]
                    \/ /\ job'[u].at = "prune" /\ job'[u].dir \in Runs
                       /\ place'[job'[u].dir] \notin {"unused", "run"}
  BY DEF JobIsOwn
<1>2. ASSUME Ends(u) PROVE FALSE
  BY <1>1, <1>2 DEF Ends, NoJob
<1>3. CASE /\ job[u].step # "none" /\ job'[u].dir = job[u].dir /\ job'[u].at = job[u].at
  <2>1. CASE job[u].at = "run"
    <3>1. pc[u] = "cleanup" /\ job[u].dir = run[u]
      BY <1>3, <2>1 DEF Orderly, JobIsOwn
    <3>2. ASSUME NEW v \in Updaters, Ends(v)
          PROVE  pc'[u] = pc[u] /\ run'[u] = run[u]
      <4>1. u # v
        BY <1>2, <3>2
      <4>. QED
        BY <1>1, <3>2, <4>1 DEF Ends, Goes
    <3>3. ASSUME NEW v \in Updaters, Proceeds(v)
          PROVE  pc'[u] = pc[u] /\ run'[u] = run[u]
      BY <1>1, <3>1, <3>3 DEF Proceeds, Goes
    <3>4. ASSUME NEW v \in Updaters, NEW e, UsedBy(v, e), pc[v] \in {"off", "create"}
          PROVE  pc'[u] = pc[u] /\ run'[u] = run[u]
      <4>1. u # v
        BY <3>1, <3>4
      <4>. QED
        BY <1>1, <3>4, <4>1 DEF UsedBy, Goes
    <3>5. pc'[u] = pc[u] /\ run'[u] = run[u]
      BY <3>2, <3>3, <3>4, PhaseSteps
    <3>. QED
      BY <1>3, <2>1, <3>1, <3>5
  <2>2. CASE job[u].at # "run"
    <3>1. /\ job[u].at = "prune" /\ job[u].dir \in Runs
          /\ place[job[u].dir] \notin {"unused", "run"}
      BY <1>3, <2>2 DEF Orderly, JobIsOwn
    <3>. QED
      BY <1>3, <3>1, MadeStays DEF Orderly
  <2>. QED
    BY <2>1, <2>2
<1>4. CASE CleanupStarts(u)
  BY <1>1, <1>4 DEF CleanupStarts, JobOn, NoJob, Goes, params
<1>5. ASSUME NEW d \in Runs, PruneClaimed(u, d) \/ ClaimRun(u, d)
      PROVE  /\ job'[u].at = "prune" /\ job'[u].dir \in Runs
             /\ place'[job'[u].dir] \notin {"unused", "run"}
  <2>1. job'[u].at = "prune" /\ job'[u].dir = d
    BY ZenonT(40), <1>1, <1>5 DEF PruneClaimed, ClaimRun, JobOn, NoJob
  <2>2. CASE PruneClaimed(u, d)
    <3>1. d \in claimed[u] /\ UNCHANGED place
      BY <2>2 DEF PruneClaimed, disk
    <3>. QED
      BY <2>1, <3>1 DEF Orderly, ListedIsMade
  <2>3. CASE ClaimRun(u, d)
    <3>1. place' = [place EXCEPT ![d] = "prune"] /\ d \in Dirs
      BY <2>3 DEF ClaimRun, Dirs
    <3>. QED
      BY <1>1, <2>1, <3>1
  <2>. QED
    BY <1>5, <2>2, <2>3
<1>6. CASE Clean(u)
  <2>1. job[u].step # "none" /\ job'[u].dir = job[u].dir /\ job'[u].at = job[u].at
    <3>1. ASSUME NEW s, Step(u, s), job[u].step # "none"
          PROVE  job'[u].dir = job[u].dir /\ job'[u].at = job[u].at
      BY <1>1, <3>1 DEF Step, NoJob, Jobs
    <3>2. CASE CleanOpen(u)
      BY <1>1, <3>2 DEF CleanOpen, Jobs
    <3>3. ASSUME NEW c, CleanChild(u, c) \/ CleanChildStuck(u, c)
          PROVE  /\ job[u].step # "none"
                 /\ job'[u].dir = job[u].dir /\ job'[u].at = job[u].at
      BY <1>1, <3>3 DEF CleanChild, CleanChildStuck, Jobs
    <3>. QED
      BY <1>6, <3>1, <3>2, <3>3 DEF Clean, CleanRefused, CleanLost, CleanStuck,
         CleanMarker, CleanDirectory, CleanFails
  <2>. QED
    BY <1>3, <2>1
<1>7. CASE job'[u] = job[u]
  BY <1>3, <1>7
<1>8. ASSUME NEW v \in Updaters, v # u,
             \/ Ends(v) \/ CleanupStarts(v) \/ Clean(v)
             \/ \E d \in Runs : PruneClaimed(v, d) \/ ClaimRun(v, d)
      PROVE  job'[u] = job[u]
  BY <1>1, <1>8 DEF Ends, CleanupStarts, PruneClaimed, ClaimRun, Clean, CleanOpen,
     CleanRefused, CleanLost, CleanStuck, CleanChild, CleanChildStuck, CleanMarker,
     CleanDirectory, CleanFails, Step
<1>. QED
  BY <1>2, <1>4, <1>5, <1>6, <1>7, <1>8, JobSteps

LEMMA OwnersKeep == ASSUME Orderly, [Next]_vars PROVE OwnersClean'
<1>1. /\ pc \in [Updaters -> Phases] /\ owns \in [Updaters -> BOOLEAN]
      /\ retain \in [Updaters -> BOOLEAN]
  BY DEF Orderly, TypeOK
<1> SUFFICES ASSUME NEW u \in Updaters
             PROVE  /\ pc'[u] = "cleanup" => owns'[u] /\ ~retain'[u]
                    /\ pc'[u] \notin Using => ~owns'[u]
  BY DEF OwnersClean
<1>2. CASE Ends(u)
  BY <1>1, <1>2 DEF Ends, Goes
<1>3. ASSUME NEW d, UsedBy(u, d) PROVE pc'[u] = "lock"
  BY <1>1, <1>3 DEF UsedBy, Goes
<1>4. CASE Proceeds(u)
  <2>1. PICK to \in Phases :
           /\ pc' = [pc EXCEPT ![u] = to] /\ owns' = owns
           /\ to \in Using <=> pc[u] \in Using
           /\ to = "cleanup" => owns[u] /\ ~retain[u]
    BY <1>4 DEF Proceeds, Goes
  <2>2. ASSUME to = "cleanup" PROVE retain'[u] = retain[u]
    <3>1. ~KeepBackup(u)
      BY <1>1, <2>1, <2>2 DEF KeepBackup, Goes
    <3>2. ASSUME NEW v \in Updaters, v # u, Ends(v) \/ KeepBackup(v)
          PROVE  retain'[u] = retain[u]
      BY <1>1, <3>2 DEF Ends, KeepBackup
    <3>3. ASSUME NEW v \in Updaters, NEW d, AcquireLock(v) \/ Made(v, d)
          PROVE  retain'[u] = retain[u]
      BY <3>3 DEF AcquireLock, LockTaken, Made
    <3>4. ~Ends(u)
      BY <1>1, <2>1, <2>2 DEF Ends, Goes
    <3>. QED
      BY <3>1, <3>2, <3>3, <3>4, ParamsSteps
  <2>3. pc'[u] = to
    BY <1>1, <2>1
  <2>. QED
    BY <2>1, <2>2, <2>3 DEF Orderly, OwnersClean
<1>5. CASE pc'[u] = pc[u] /\ ~Ends(u) /\ pc[u] # "lock"
  <2>1. ASSUME KeepBackup(u) PROVE FALSE
    BY <1>1, <1>5, <2>1 DEF KeepBackup, Goes
  <2>2. ASSUME NEW d, Made(u, d) PROVE FALSE
    BY <1>3, <1>5, <2>2 DEF Made
  <2>3. ASSUME AcquireLock(u) PROVE FALSE
    BY <1>5, <2>3 DEF AcquireLock, LockTaken
  <2>4. ASSUME NEW v \in Updaters, v # u, Ends(v) \/ AcquireLock(v) \/ KeepBackup(v)
        PROVE  owns'[u] = owns[u] /\ retain'[u] = retain[u]
    BY <1>1, <2>4 DEF Ends, AcquireLock, LockTaken, KeepBackup
  <2>5. ASSUME NEW v \in Updaters, v # u, NEW d, Made(v, d)
        PROVE  owns'[u] = owns[u] /\ retain'[u] = retain[u]
    BY <1>1, <2>5 DEF Made
  <2>6. owns'[u] = owns[u] /\ retain'[u] = retain[u]
    BY <1>5, <2>1, <2>2, <2>3, <2>4, <2>5, ParamsSteps
  <2>. QED
    BY <1>5, <2>6 DEF Orderly, OwnersClean
<1>6. ASSUME NEW v \in Updaters, v # u, NEW d, Ends(v) \/ Proceeds(v) \/ UsedBy(v, d)
      PROVE  pc'[u] = pc[u]
  BY <1>1, <1>6 DEF Ends, Proceeds, UsedBy, Goes
<1>7. ~Ends(u) /\ ~Proceeds(u) /\ (\A d : ~UsedBy(u, d)) => pc'[u] = pc[u]
  BY <1>6, PhaseSteps
<1>. QED
  BY <1>2, <1>3, <1>4, <1>5, <1>7 DEF Using

-----------------------------------------------------------------------------

LEMMA OrderlyKeeps == ASSUME Orderly, [Next]_vars PROVE Orderly'
<1>1. IInv'
  BY NextKeeps DEF Orderly
<1>2. TypeOK'
  BY <1>1, TypesKeep DEF Orderly
<1>. QED
  BY <1>1, <1>2, HeldKeeps, AloneKeeps, JobKeeps, ListedKeeps, OwnersKeep DEF Orderly

LEMMA InitOrderly == Init => Orderly
<1> SUFFICES ASSUME Init PROVE Orderly
  OBVIOUS
<1>1. IInv
  BY InitInv
<1>2. NoJob \in Jobs
  BY DEF NoJob, Jobs
<1>3. TypeOK
  <2>1. 0 \in 0 .. MaxClock
    BY ClockAssumption
  <2>2. /\ root \in Objects /\ above \in Seq(Objects)
        /\ place \in [Dirs -> {"unused", "run", "prune", "gone", "aside"}]
        /\ lock \in [Dirs -> Updaters \cup {NoOne}]
        /\ pc \in [Updaters -> Phases] /\ run \in [Updaters -> Dirs \cup {NoRun}]
        /\ warned \in [Updaters -> BOOLEAN]
    BY <1>1 DEF IInv, Shapes
  <2>3. owns \in [Updaters -> BOOLEAN] /\ retain \in [Updaters -> BOOLEAN]
        /\ dropLock \in [Updaters -> BOOLEAN]
    BY DEF Init
  <2>4. /\ mtime \in [Runs -> 0 .. MaxClock] /\ has \in [Dirs -> SUBSET Entries]
        /\ backedUp \in [Runs -> 0 .. MaxClock] /\ now \in [Updaters -> 0 .. MaxClock]
    BY <2>1 DEF Init
  <2>5. /\ seen \in [Updaters -> SUBSET Runs] /\ claimed \in [Updaters -> SUBSET Runs]
        /\ stale \in [Updaters -> SUBSET Runs] /\ job \in [Updaters -> Jobs]
    BY <1>2 DEF Init
  <2>6. /\ clock \in 0 .. MaxClock /\ aside \subseteq {"leaf", "tree"}
        /\ needed \subseteq Dirs /\ marked \subseteq Dirs
        /\ contested \subseteq Dirs /\ early \subseteq Dirs
    BY <2>1 DEF Init
  <2>. QED
    BY <2>2, <2>3, <2>4, <2>5, <2>6 DEF TypeOK
<1>4. HeldIsThere /\ AloneInRun
  BY DEF Init, HeldIsThere, AloneInRun, Uses, Using
<1>5. JobIsOwn /\ ListedIsMade /\ OwnersClean
  BY DEF Init, JobIsOwn, ListedIsMade, OwnersClean, NoJob, Using
<1>. QED
  BY <1>1, <1>3, <1>4, <1>5 DEF Orderly

LEMMA OrderlyHolds == Spec => []Orderly
<1>. QED
  BY InitOrderly, OrderlyKeeps, PTL DEF Spec

-----------------------------------------------------------------------------
(* Active runs *)

\* A cleanup reaches a directory under the name of a run only when it is the updater's
\* own, which has let go of its lock before.
LEMMA CleanupIsAlone ==
    ASSUME Orderly, NEW u \in Updaters, job[u].step # "none", Reaches(job[u]),
           job[u].dir \in Undisputed
    PROVE  lock[job[u].dir] = NoOne
<1> DEFINE d == job[u].dir
           w == lock[d]
<1> SUFFICES ASSUME w # NoOne PROVE FALSE
  OBVIOUS
<1>1. d \in Dirs
  BY DEF Undisputed
<1>2. place[d] = "run" /\ pc[w] \in Holding /\ run[w] = d /\ w \in Updaters
  BY <1>1 DEF Orderly, HeldIsThere, TypeOK
<1>3. pc[u] = "cleanup" /\ run[u] = d
  BY <1>2 DEF Orderly, JobIsOwn, Reaches
<1>4. u = w
  BY <1>2, <1>3 DEF Orderly, AloneInRun, Uses, Using, Holding
<1>. QED
  BY <1>2, <1>3, <1>4 DEF Holding

LEMMA ActiveStep ==
    ASSUME Orderly, [Next]_vars, NEW d \in Undisputed,
           lock[d] # NoOne, lock'[d] = lock[d],
           place'[d] # place[d] \/ ~(has[d] \subseteq has'[d])
    PROVE  pc'[lock[d]] # pc[lock[d]]
<1>1. /\ d \in Dirs /\ has \in [Dirs -> SUBSET Entries] /\ pc \in [Updaters -> Phases]
      /\ job \in [Updaters -> Jobs]
  BY DEF Orderly, TypeOK, Undisputed
<1>2. place[d] = "run" /\ "lock" \in has[d]
  BY <1>1 DEF Orderly, HeldIsThere
<1>3. place'[d] = "run"
  BY <1>1, HeldKeeps DEF HeldIsThere
<1>4. ~(has[d] \subseteq has'[d])
  BY <1>2, <1>3
<1>5. ASSUME NEW u \in Updaters, AcquireLock(u) PROVE FALSE
  BY <1>1, <1>4, <1>5 DEF AcquireLock, LockTaken, Changes
<1>6. ASSUME NEW u \in Updaters, RemoveLock(u) PROVE FALSE
  BY <1>1, <1>4, <1>6 DEF RemoveLock
<1>7. ASSUME NEW u \in Updaters, job[u].step # "none", Reaches(job[u]), job[u].dir = d
      PROVE  FALSE
  BY <1>7, CleanupIsAlone
<1>8. ASSUME NEW u \in Updaters, CleanMarker(u) \/ \E c \in job[u].left : CleanChild(u, c)
      PROVE  FALSE
  <2>1. job[u].step # "none" /\ Reaches(job[u])
    BY <1>8 DEF CleanMarker, CleanChild
  <2>2. PICK c : has' = [has EXCEPT ![job[u].dir] = has[job[u].dir] \ {c}]
    BY <1>8 DEF CleanMarker, CleanChild, Removes
  <2>. QED
    BY <1>1, <1>4, <1>7, <2>1, <2>2
<1>9. ASSUME NEW u \in Updaters, CleanDirectory(u) PROVE FALSE
  BY <1>1, <1>4, <1>9 DEF CleanDirectory, Vanish
<1>10. ASSUME NEW u \in Updaters, Work(u) PROVE pc'[lock[d]] # pc[lock[d]]
  <2>1. /\ pc[u] \in {"work", "moving", "ending"} /\ pc'[u] # pc[u]
        /\ Rewrites(u)
    BY <1>1, <1>4, <1>10, WorkChanges DEF Orderly
  <2>2. d = run[u]
    BY <1>1, <1>4, <2>1 DEF Rewrites
  <2>3. lock[run[u]] = u
    BY <2>1 DEF Orderly, IInv, LockIsHeld, Holding
  <2>. QED
    BY <2>1, <2>2, <2>3
<1>. QED
  BY <1>4, <1>5, <1>6, <1>8, <1>9, <1>10, HasSteps

\* Once an updater holds the lock of its run, only its own steps rename the directory or
\* remove anything from it, however many others prune the root or were given the same
\* directory (claim_updater_run, cleanup_updater_temp_dir).
THEOREM ActiveRunsAreKept == Spec => ActiveRunKept
<1>1. Orderly /\ [Next]_vars =>
          [\A d \in Undisputed :
              /\ lock[d] # NoOne /\ lock'[d] = lock[d]
              /\ place'[d] # place[d] \/ ~(has[d] \subseteq has'[d])
              => pc'[lock[d]] # pc[lock[d]]]_vars
  BY ActiveStep
<1>. QED
  BY <1>1, OrderlyHolds, PTL DEF Spec, ActiveRunKept

-----------------------------------------------------------------------------
(* The marker *)

UnusedIsEmpty == \A d \in Dirs : place[d] = "unused" => has[d] = {} /\ d \notin needed

\* What a run has while the updater that made it is at work.
FreshRun ==
    \A u \in Updaters, d \in Runs :
        Uses(u, d) => /\ pc[u] \in {"lock", "work"} => has[d] \cap {"old", "complete"} = {}
                      /\ pc[u] = "moving" => "complete" \notin has[d]

\* A cleanup that has met no obstacle still has the backup it finds before it.
StillWhole ==
    \A u \in Updaters :
        /\ job[u].step = "children" /\ ~job[u].stuck /\ Reaches(job[u])
        /\ job[u].dir \in Undisputed /\ "old" \in has[job[u].dir]
        => "old" \in job[u].left

MarkerStays == \A d \in marked \cap Undisputed : "complete" \in has[d]

Marking ==
    /\ Orderly
    /\ UnusedIsEmpty
    /\ FreshRun
    /\ StillWhole
    /\ MarkerStays
    /\ MarkerMeansFinished

LEMMA WorkerHolds ==
    ASSUME Orderly, NEW u \in Updaters, pc[u] \in Holding
    PROVE  run[u] \in Dirs /\ lock[run[u]] = u /\ place[run[u]] = "run"
<1>1. run[u] \in Dirs /\ lock[run[u]] = u
  BY DEF Orderly, IInv, LockIsHeld, RunIsMade, Using, Holding
<1>. QED
  BY <1>1, UpdatersAssumption DEF Orderly, HeldIsThere

\* Backups and markers are made by nobody but an updater at work, in its own run.
LEMMA EntriesAdded ==
    ASSUME Orderly, [Next]_vars, NEW d \in Dirs, NEW c \in {"old", "complete"},
           c \in has'[d], c \notin has[d]
    PROVE  \E v \in Updaters : /\ run[v] = d
                               /\ c = "old" => BackUp(v)
                               /\ c = "complete" => MarkComplete(v)
<1>1. has \in [Dirs -> SUBSET Entries]
  BY DEF Orderly, TypeOK
<1>2. ASSUME NEW u, AcquireLock(u) PROVE FALSE
  BY <1>1, <1>2 DEF AcquireLock, LockTaken, Changes
<1>3. ASSUME NEW u, RemoveLock(u) PROVE FALSE
  BY <1>1, <1>3 DEF RemoveLock
<1>4. ASSUME NEW u, NEW e, CleanMarker(u) \/ CleanChild(u, e) PROVE FALSE
  BY <1>1, <1>4 DEF CleanMarker, CleanChild, Removes
<1>5. ASSUME NEW u, CleanDirectory(u) PROVE FALSE
  BY <1>1, <1>5 DEF CleanDirectory, Vanish
<1>6. PICK v \in Updaters : Work(v)
  BY <1>2, <1>3, <1>4, <1>5, HasSteps
<1>7. Rewrites(v)
  BY <1>1, <1>6, WorkChanges DEF Orderly
<1>8. run[v] = d
  BY <1>1, <1>7 DEF Rewrites
<1>. QED
  BY <1>7, <1>8 DEF Rewrites

LEMMA MarkerLost ==
    ASSUME Orderly, [Next]_vars, NEW d \in Dirs,
           "complete" \in has[d], "complete" \notin has'[d]
    PROVE  \E v \in Updaters : CleanMarker(v) /\ job[v].dir = d
<1>1. has \in [Dirs -> SUBSET Entries] /\ job \in [Updaters -> Jobs]
  BY DEF Orderly, TypeOK
<1>2. ASSUME NEW u, AcquireLock(u) PROVE FALSE
  BY <1>1, <1>2 DEF AcquireLock, LockTaken, Changes
<1>3. ASSUME NEW u, RemoveLock(u) PROVE FALSE
  BY <1>1, <1>3 DEF RemoveLock
<1>4. ASSUME NEW u \in Updaters, NEW e \in job[u].left, CleanChild(u, e) PROVE FALSE
  <2>1. e # "complete"
    BY <1>1 DEF Jobs, Children
  <2>. QED
    BY <1>1, <1>4, <2>1 DEF CleanChild, Removes
<1>5. ASSUME NEW u, CleanDirectory(u) PROVE FALSE
  BY <1>1, <1>5 DEF CleanDirectory, Vanish
<1>6. ASSUME NEW u \in Updaters, Work(u) PROVE FALSE
  <2>1. Rewrites(u)
    BY <1>1, <1>6, WorkChanges DEF Orderly
  <2>. QED
    BY <1>1, <2>1 DEF Rewrites
<1>7. PICK v \in Updaters : CleanMarker(v)
  BY <1>2, <1>3, <1>4, <1>5, <1>6, HasSteps
<1>8. has' = [has EXCEPT ![job[v].dir] = has[job[v].dir] \ {"complete"}]
  BY <1>7 DEF CleanMarker, Removes
<1>. QED
  BY <1>1, <1>7, <1>8

LEMMA NeededAdded ==
    ASSUME [Next]_vars, NEW d \in needed', d \notin needed
    PROVE  \E v \in Updaters : run[v] = d /\ BackUp(v)
<1>1. ASSUME NEW u, MarkComplete(u) \/ MarkCompleteFails(u) \/ RevertCompletes(u)
      PROVE  FALSE
  BY <1>1 DEF MarkComplete, MarkCompleteFails, RevertCompletes, Settles
<1>2. ASSUME NEW u, CleanMarker(u) \/ CleanDirectory(u) PROVE FALSE
  BY <1>2 DEF CleanMarker, CleanerStep, CleanDirectory, Vanish
<1>3. ASSUME NEW u, BackUp(u) PROVE run[u] = d
  BY <1>3 DEF BackUp, Moves
<1>. QED
  BY <1>1, <1>2, <1>3, HistorySteps

LEMMA MarkedAdded ==
    ASSUME [Next]_vars, NEW d \in marked', d \notin marked
    PROVE  \E v \in Updaters : run[v] = d /\ MarkComplete(v)
<1>1. ASSUME NEW u, BackUp(u) \/ MarkCompleteFails(u) \/ RevertCompletes(u) PROVE FALSE
  BY <1>1 DEF BackUp, MarkCompleteFails, RevertCompletes
<1>2. ASSUME NEW u, CleanMarker(u) PROVE FALSE
  BY <1>2 DEF CleanMarker
<1>3. ASSUME NEW u, CleanDirectory(u) PROVE FALSE
  BY <1>3 DEF CleanDirectory, Vanish
<1>4. ASSUME NEW u, MarkComplete(u) PROVE run[u] = d
  BY <1>4 DEF MarkComplete
<1>. QED
  BY <1>1, <1>2, <1>3, <1>4, HistorySteps

LEMMA UndisputedWas ==
    ASSUME TypeOK, [Next]_vars, NEW d \in Undisputed'
    PROVE  d \in Undisputed \/ \E u \in Updaters : CleanDirectory(u) /\ Vanish({d})
BY ContestedStays DEF Undisputed

LEMMA RunsAreUndisputed == Runs \subseteq Undisputed
BY RunsAssumption DEF Undisputed, Dirs

LEMMA UnusedKeeps == ASSUME Marking, [Next]_vars PROVE UnusedIsEmpty'
<1>1. /\ has \in [Dirs -> SUBSET Entries]
      /\ place \in [Dirs -> {"unused", "run", "prune", "gone", "aside"}]
  BY DEF Marking, Orderly, TypeOK
<1> SUFFICES ASSUME NEW d \in Dirs, place'[d] = "unused"
             PROVE  has'[d] = {} /\ d \notin needed'
  BY DEF UnusedIsEmpty
<1>2. ASSUME NEW u \in Updaters, Work(u) PROVE run[u] \in Dirs /\ place[run[u]] = "run"
  <2>1. pc[u] \in Holding
    BY <1>2 DEF Work, BackUp, MarkComplete, MarkCompleteFails, RevertCompletes,
       DropBackup, KeepBackup, GiveUp, Works, Holding
  <2>. QED
    BY <2>1, WorkerHolds DEF Marking
<1>3. CASE place[d] = "unused"
  <2>1. has[d] = {} /\ d \notin needed
    BY <1>3 DEF Marking, UnusedIsEmpty
  <2>2. ASSUME d \in needed' PROVE FALSE
    <3>1. PICK v \in Updaters : run[v] = d /\ BackUp(v)
      BY <2>1, <2>2, NeededAdded
    <3>. QED
      BY <1>2, <1>3, <3>1 DEF Work
  <2>3. ASSUME NEW u, AcquireLock(u) PROVE has'[d] = has[d]
    BY <1>1, <1>3, <2>3 DEF AcquireLock, LockTaken, Changes
  <2>4. ASSUME NEW u, RemoveLock(u) PROVE has'[d] = {}
    BY <1>1, <2>1, <2>4 DEF RemoveLock
  <2>5. ASSUME NEW u, NEW e, CleanMarker(u) \/ CleanChild(u, e) PROVE has'[d] = {}
    BY <1>1, <2>1, <2>5 DEF CleanMarker, CleanChild, Removes
  <2>6. ASSUME NEW u, CleanDirectory(u) PROVE has'[d] = {}
    BY <1>1, <2>1, <2>6 DEF CleanDirectory, Vanish
  <2>7. ASSUME NEW u \in Updaters, Work(u), has' # has PROVE has'[d] = has[d]
    <3>1. Rewrites(u) /\ run[u] # d
      BY <1>1, <1>2, <1>3, <2>7, WorkChanges DEF Marking, Orderly
    <3>. QED
      BY <1>1, <3>1 DEF Rewrites
  <2>. QED
    BY <2>1, <2>2, <2>3, <2>4, <2>5, <2>6, <2>7, HasSteps
<1>4. CASE place[d] # "unused"
  <2>1. ASSUME NEW u, Quarantine(u) PROVE FALSE
    BY <1>1, <1>4, <2>1 DEF Quarantine
  <2>2. ASSUME NEW u, NEW e, ClaimRun(u, e) PROVE FALSE
    BY <1>1, <1>4, <2>2 DEF ClaimRun
  <2>3. ASSUME NEW u, NEW e, Made(u, e) PROVE FALSE
    BY <1>1, <1>4, <2>3 DEF Made
  <2>4. ASSUME NEW u, CleanDirectory(u) PROVE has'[d] = {} /\ d \notin needed'
    BY <1>1, <1>4, <2>4 DEF CleanDirectory, Vanish
  <2>. QED
    BY <1>4, <2>1, <2>2, <2>3, <2>4, PlaceSteps
<1>. QED
  BY <1>3, <1>4

LEMMA FreshKeeps == ASSUME Marking, [Next]_vars PROVE FreshRun'
<1>1. /\ pc \in [Updaters -> Phases] /\ has \in [Dirs -> SUBSET Entries]
      /\ run \in [Updaters -> Dirs \cup {NoRun}]
  BY DEF Marking, Orderly, TypeOK
<1> SUFFICES ASSUME NEW u \in Updaters, NEW d \in Runs, Uses(u, d)'
             PROVE  /\ pc'[u] \in {"lock", "work"} => has'[d] \cap {"old", "complete"} = {}
                    /\ pc'[u] = "moving" => "complete" \notin has'[d]
  BY DEF FreshRun
<1>2. d \in Dirs /\ d \notin Explicit /\ d \in Undisputed
  BY RunsAssumption, RunsAreUndisputed DEF Dirs
<1>3. ASSUME UsedBy(u, d), place[d] = "unused", Made(u, d) PROVE has'[d] = {}
  BY <1>2, <1>3 DEF Made, Marking, UnusedIsEmpty
<1>4. CASE Uses(u, d)
  <2>1. place[d] # "unused"
    BY <1>4 DEF Marking, Orderly, IInv, RunIsMade, Uses
  <2>2. ASSUME NEW v \in Updaters, run[v] = d, BackUp(v) \/ MarkComplete(v)
        PROVE  u = v
    BY <1>2, <1>4, <2>1, <2>2 DEF Marking, Orderly, AloneInRun, Uses, Using, BackUp,
       MarkComplete, Works
  <2>3. "old" \in has'[d] => "old" \in has[d] \/ pc'[u] = "moving"
    <3>1. ASSUME BackUp(u) PROVE pc'[u] = "moving"
      BY <1>1, <3>1 DEF BackUp, Works, Goes
    <3>. QED
      BY <1>2, <2>2, <3>1, EntriesAdded DEF Marking
  <2>4. "complete" \in has'[d] => "complete" \in has[d] \/ pc'[u] = "ending"
    <3>1. ASSUME MarkComplete(u) PROVE pc'[u] = "ending"
      BY <1>1, <3>1 DEF MarkComplete, Works, Goes
    <3>. QED
      BY <1>2, <2>2, <3>1, EntriesAdded DEF Marking
  <2>5. /\ pc'[u] \in {"lock", "work"} => pc[u] \in {"lock", "work"}
        /\ pc'[u] = "moving" => pc[u] \in {"moving", "work"}
    <3>1. ASSUME NEW v \in Updaters, Ends(v) PROVE pc'[u] \in {"off", pc[u]}
      BY <1>1, <3>1 DEF Ends, Goes
    <3>2. ASSUME NEW v \in Updaters, Proceeds(v)
          PROVE  \/ pc'[u] = pc[u]
                 \/ /\ pc'[u] \in {"lock", "work"} => pc[u] = "lock"
                    /\ pc'[u] = "moving" => BackUp(u)
      BY <1>1, <3>2 DEF Proceeds, Goes
    <3>3. ASSUME NEW v \in Updaters, NEW e, UsedBy(v, e), pc[v] \in {"off", "create"}
          PROVE  pc'[u] = pc[u]
      <4>1. u # v
        BY <1>4, <3>3 DEF Uses, Using
      <4>. QED
        BY <1>1, <3>3, <4>1 DEF UsedBy, Goes
    <3>. QED
      BY <3>1, <3>2, <3>3, PhaseSteps DEF BackUp, Works
  <2>6. /\ pc[u] \in {"lock", "work"} => "old" \notin has[d] /\ "complete" \notin has[d]
        /\ pc[u] = "moving" => "complete" \notin has[d]
    BY <1>4 DEF Marking, FreshRun
  <2>. QED
    BY <2>3, <2>4, <2>5, <2>6
<1>5. CASE ~Uses(u, d)
  <2>1. UsedBy(u, d) /\ place[d] = "unused" /\ Made(u, d)
    BY <1>2, <1>5, UsesSteps DEF Marking, Orderly
  <2>. QED
    BY <1>3, <2>1
<1>. QED
  BY <1>4, <1>5

LEMMA MarkerStaysKeeps == ASSUME Marking, [Next]_vars PROVE MarkerStays'
<1>1. has \in [Dirs -> SUBSET Entries] /\ TypeOK /\ Orderly
  BY DEF Marking, Orderly, TypeOK
<1> SUFFICES ASSUME NEW d \in Undisputed', d \in marked' PROVE "complete" \in has'[d]
  BY DEF MarkerStays
<1>2. d \in Dirs
  BY DEF Undisputed
<1>3. CASE d \notin marked
  <2>1. PICK v \in Updaters : run[v] = d /\ MarkComplete(v)
    BY <1>3, MarkedAdded
  <2>. QED
    BY <1>1, <1>2, <2>1 DEF MarkComplete, Works, Changes
<1>4. CASE d \in marked
  <2>1. d \in Undisputed
    BY <1>1, UndisputedWas DEF Vanish
  <2>2. "complete" \in has[d]
    BY <1>4, <2>1 DEF Marking, MarkerStays
  <2>3. ASSUME "complete" \notin has'[d] PROVE FALSE
    <3>1. PICK v \in Updaters : CleanMarker(v) /\ job[v].dir = d
      BY <1>1, <1>2, <2>2, <2>3, MarkerLost
    <3>2. "old" \notin has[d]
      BY <2>1, <3>1 DEF CleanMarker, Marking, StillWhole
    <3>. QED
      BY <3>1, <3>2 DEF CleanMarker
  <2>. QED
    BY <2>3
<1>. QED
  BY <1>3, <1>4

LEMMA FinishedKeeps == ASSUME Marking, [Next]_vars PROVE MarkerMeansFinished'
<1>1. has \in [Dirs -> SUBSET Entries] /\ Orderly
  BY DEF Marking, Orderly, TypeOK
<1> SUFFICES ASSUME NEW d \in Runs, "complete" \in has'[d], d \in needed' PROVE FALSE
  BY DEF MarkerMeansFinished
<1>2. d \in Dirs
  BY DEF Dirs
<1>3. CASE d \notin needed
  <2>1. PICK v \in Updaters : run[v] = d /\ BackUp(v)
    BY <1>3, NeededAdded
  <2>2. pc[v] = "work" /\ has' = [has EXCEPT ![d] = has[d] \cup {"old"}]
    BY <2>1 DEF BackUp, Works, Changes
  <2>3. "complete" \notin has[d]
    BY <2>1, <2>2 DEF Marking, FreshRun, Uses, Using
  <2>. QED
    BY <1>1, <1>2, <2>2, <2>3
<1>4. CASE d \in needed
  <2>1. "complete" \notin has[d]
    BY <1>4 DEF Marking, MarkerMeansFinished
  <2>2. PICK v \in Updaters : run[v] = d /\ MarkComplete(v)
    BY <1>1, <1>2, <2>1, EntriesAdded
  <2>. QED
    BY <2>2 DEF MarkComplete, Settles
<1>. QED
  BY <1>3, <1>4

LEMMA ChildrenSteps ==
    ASSUME Orderly, [Next]_vars, NEW u \in Updaters, job'[u].step = "children"
    PROVE  \/ job'[u] = job[u]
           \/ CleanOpen(u)
           \/ \E c : CleanChild(u, c) \/ CleanChildStuck(u, c)
<1>1. job \in [Updaters -> Jobs]
  BY DEF Orderly, TypeOK
<1>2. ASSUME NEW v \in Updaters, v # u,
             \/ Ends(v) \/ CleanupStarts(v) \/ Clean(v)
             \/ \E d \in Runs : PruneClaimed(v, d) \/ ClaimRun(v, d)
      PROVE  job'[u] = job[u]
  BY <1>1, <1>2 DEF Ends, CleanupStarts, PruneClaimed, ClaimRun, Clean, CleanOpen,
     CleanRefused, CleanLost, CleanStuck, CleanChild, CleanChildStuck, CleanMarker,
     CleanDirectory, CleanFails, Step
<1>3. ASSUME Ends(u) PROVE FALSE
  BY <1>1, <1>3 DEF Ends, NoJob
<1>4. ASSUME NEW d, CleanupStarts(u) \/ PruneClaimed(u, d) \/ ClaimRun(u, d) PROVE FALSE
  BY <1>1, <1>4 DEF CleanupStarts, PruneClaimed, ClaimRun, JobOn, NoJob
<1>5. ASSUME NEW s \in {"none", "directory"}, Step(u, s) PROVE FALSE
  BY <1>1, <1>5 DEF Step, NoJob, Jobs
<1>6. ASSUME Clean(u)
      PROVE  CleanOpen(u) \/ \E c : CleanChild(u, c) \/ CleanChildStuck(u, c)
  BY <1>5, <1>6 DEF Clean, CleanRefused, CleanLost, CleanStuck, CleanMarker,
     CleanDirectory, CleanFails
<1>. QED
  BY <1>2, <1>3, <1>4, <1>6, JobSteps

LEMMA StillKeeps == ASSUME Marking, [Next]_vars PROVE StillWhole'
<1>1. /\ has \in [Dirs -> SUBSET Entries] /\ job \in [Updaters -> Jobs]
      /\ place \in [Dirs -> {"unused", "run", "prune", "gone", "aside"}]
      /\ TypeOK /\ Orderly
  BY DEF Marking, Orderly, TypeOK
<1> SUFFICES ASSUME NEW u \in Updaters,
                    job'[u].step = "children", ~job'[u].stuck, Reaches(job[u])',
                    job'[u].dir \in Undisputed', "old" \in has'[job'[u].dir]
             PROVE  "old" \in job'[u].left
  BY DEF StillWhole, Reaches
<1> DEFINE d == job'[u].dir
<1>2. d \in Dirs /\ ~Vanish({d})
  <2>1. d \in Dirs
    BY DEF Undisputed
  <2>. QED
    BY <2>1 DEF Vanish
<1>3. d \in Undisputed
  BY <1>1, <1>2, UndisputedWas
<1>4. CASE job'[u] = job[u]
  <2>1. job[u].dir = d /\ place'[d] = job[u].at
    BY <1>4 DEF Reaches
  <2>2. place[d] = job[u].at
    <3> SUFFICES ASSUME place[d] # place'[d] PROVE FALSE
      BY <2>1
    <3>1. \/ /\ job[u].at = "run" /\ pc[u] = "cleanup" /\ d = run[u]
          \/ /\ job[u].at = "prune" /\ d \in Runs /\ place[d] \notin {"unused", "run"}
      BY <1>1, <1>4, <2>1 DEF Orderly, JobIsOwn
    <3>2. ASSUME NEW v, Quarantine(v) PROVE FALSE
      BY <1>1, <1>2, <2>1, <3>1, <3>2 DEF Quarantine
    <3>3. ASSUME NEW v, CleanDirectory(v) PROVE FALSE
      BY <1>1, <1>2, <2>1, <3>1, <3>3 DEF CleanDirectory, Vanish
    <3>4. ASSUME NEW v, NEW e \in Runs, ClaimRun(v, e) PROVE FALSE
      BY <1>1, <1>2, <2>1, <3>1, <3>4 DEF ClaimRun
    <3>5. ASSUME NEW v, NEW e \in Dirs, place[e] = "unused", Made(v, e) PROVE FALSE
      <4>1. e = d /\ place' [d] = "run"
        BY <1>1, <1>2, <3>5 DEF Made
      <4>2. pc[u] = "cleanup" /\ d = run[u]
        BY <2>1, <3>1, <4>1
      <4>3. d \notin Runs
        BY <1>1, <3>5, <4>1, <4>2 DEF Orderly, IInv, RunIsMade, Using
      <4>4. d \in contested'
        BY <3>5, <4>1, <4>2 DEF Made, UsedBy, InUse
      <4>. QED
        BY <1>2, <4>3, <4>4 DEF Undisputed, Dirs
    <3>. QED
      BY <3>2, <3>3, <3>4, <3>5, PlaceSteps
  <2>3. "old" \in has[d]
    <3> SUFFICES ASSUME "old" \notin has[d] PROVE FALSE
      OBVIOUS
    <3>1. PICK v \in Updaters : run[v] = d /\ BackUp(v)
      BY <1>1, <1>2, EntriesAdded
    <3>2. pc[v] = "work" /\ place[d] = "run"
      BY <1>1, <3>1, WorkerHolds DEF BackUp, Works, Holding
    <3>3. pc[u] = "cleanup" /\ run[u] = d
      BY <1>1, <1>4, <2>1, <2>2, <3>2 DEF Orderly, JobIsOwn
    <3>4. u = v
      BY <1>1, <1>3, <3>1, <3>2, <3>3 DEF Orderly, AloneInRun, Uses, Using
    <3>. QED
      BY <3>2, <3>3, <3>4
  <2>. QED
    BY <1>3, <1>4, <2>1, <2>2, <2>3 DEF Marking, StillWhole, Reaches
<1>5. CASE CleanOpen(u)
  <2>1. job'[u].dir = job[u].dir /\ job'[u].left = has[job[u].dir] \cap Children
        /\ has' = has
    BY <1>1, <1>5 DEF CleanOpen, Jobs
  <2>. QED
    BY <2>1 DEF Children, Entries
<1>6. ASSUME NEW c, CleanChild(u, c) PROVE "old" \in job'[u].left
  <2>1. /\ job[u].step = "children" /\ Reaches(job[u])
        /\ job'[u] = [job[u] EXCEPT !.left = job[u].left \ {c}]
        /\ has' = [has EXCEPT ![job[u].dir] = has[job[u].dir] \ {c}]
    BY <1>1, <1>6 DEF CleanChild, Removes
  <2>2. /\ job'[u].dir = job[u].dir /\ job'[u].stuck = job[u].stuck
        /\ job'[u].left = job[u].left \ {c}
    BY <1>1, <2>1 DEF Jobs
  <2>3. "old" \in has[d] /\ c # "old"
    BY <1>1, <1>2, <2>1, <2>2
  <2>. QED
    BY <1>3, <2>1, <2>2, <2>3 DEF Marking, StillWhole
<1>7. ASSUME NEW c, CleanChildStuck(u, c) PROVE FALSE
  BY <1>1, <1>7 DEF CleanChildStuck, Jobs
<1>. QED
  BY <1>1, <1>4, <1>5, <1>6, <1>7, ChildrenSteps

LEMMA InitMarking == Init => Marking
<1> SUFFICES ASSUME Init PROVE Marking
  OBVIOUS
<1>1. UnusedIsEmpty /\ FreshRun /\ MarkerStays /\ MarkerMeansFinished
  BY DEF Init, UnusedIsEmpty, FreshRun, MarkerStays, MarkerMeansFinished, Uses, Using,
     Dirs
<1>2. StillWhole
  BY DEF Init, StillWhole, NoJob
<1>. QED
  BY <1>1, <1>2, InitOrderly DEF Marking

LEMMA MarkingKeeps == ASSUME Marking, [Next]_vars PROVE Marking'
<1>1. Orderly'
  BY OrderlyKeeps DEF Marking
<1>. QED
  BY <1>1, UnusedKeeps, FreshKeeps, StillKeeps, MarkerStaysKeeps, FinishedKeeps DEF Marking

LEMMA MarkingHolds == Spec => []Marking
<1>. QED
  BY InitMarking, MarkingKeeps, PTL DEF Spec

\* A run is marked only when nobody needs its originals, and its marker is never gone
\* before them, whichever updater dies at whichever step (mark_updater_run_complete,
\* the order of the removals in cleanup_updater_temp_dir).
THEOREM MarkersAreSound == Spec => []MarkerSound
<1>1. Marking => MarkerSound
  BY DEF Marking, Orderly, MarkerSound, MarkerOutlivesBackup, MarkerStays
<1>. QED
  BY <1>1, MarkingHolds, PTL

-----------------------------------------------------------------------------
(* Time *)

TimeIsPast ==
    /\ \A u \in Updaters : now[u] <= clock
    /\ \A d \in Runs : /\ mtime[d] <= clock /\ backedUp[d] <= clock
                       /\ d \in needed => backedUp[d] <= mtime[d]

\* An updater that will remove its directory needs nothing in it any more.
OwnIsSettled ==
    \A u \in Updaters, d \in Undisputed :
        Uses(u, d) /\ owns[u] /\ ~retain[u] /\ pc[u] # "moving" => d \notin needed

\* What a pruning updater has found old enough stays so until it is claimed, and after.
Judged(d) == place[d] = "prune" \/ \E u \in Updaters : d \in stale[u]

JudgedIsOld ==
    \A d \in Runs : Judged(d) /\ Exists(d) /\ d \notin contested =>
        /\ \A u \in Updaters : ~Uses(u, d)
        /\ d \in needed /\ "old" \in has[d] => clock >= backedUp[d] + RecoveryRunAge

Keeping ==
    /\ Marking
    /\ TimeIsPast
    /\ OwnIsSettled
    /\ JudgedIsOld
    /\ NeededBackupKept

LEMMA ClockTypes ==
    ASSUME Keeping
    PROVE  /\ clock \in Nat /\ mtime \in [Runs -> Nat] /\ backedUp \in [Runs -> Nat]
           /\ now \in [Updaters -> Nat]
<1>1. 0 .. MaxClock \subseteq Nat
  BY ClockAssumption
<1>2. /\ clock \in 0 .. MaxClock /\ mtime \in [Runs -> 0 .. MaxClock]
      /\ backedUp \in [Runs -> 0 .. MaxClock] /\ now \in [Updaters -> 0 .. MaxClock]
  BY DEF Keeping, Marking, Orderly, TypeOK
<1>. QED
  BY <1>1, <1>2

LEMMA ClockGrows == ASSUME Keeping, [Next]_vars PROVE clock' \in Nat /\ clock <= clock'
BY ClockSteps, ClockTypes DEF Tick

LEMMA BackedUpSteps ==
    ASSUME [Next]_vars, NEW d \in Runs, backedUp \in [Runs -> Nat],
           backedUp'[d] # backedUp[d]
    PROVE  \/ \E v \in Updaters : /\ run[v] = d /\ pc[v] \in {"work", "moving"}
                                  /\ BackUp(v) \/ Settles(d)
           \/ Vanish({d})
<1>1. ASSUME NEW u \in Updaters, BackUp(u) PROVE run[u] = d /\ pc[u] = "work"
  BY <1>1 DEF BackUp, Works, Moves
<1>2. ASSUME NEW u \in Updaters,
             MarkComplete(u) \/ MarkCompleteFails(u) \/ RevertCompletes(u)
      PROVE  run[u] = d /\ pc[u] \in {"work", "moving"} /\ Settles(d)
  <2>1. Settles(run[u]) /\ pc[u] \in {"work", "moving"}
    BY <1>2 DEF MarkComplete, MarkCompleteFails, RevertCompletes, Works
  <2>2. run[u] = d
    BY <2>1 DEF Settles
  <2>. QED
    BY <2>1, <2>2
<1>3. ASSUME NEW u, CleanMarker(u) PROVE FALSE
  BY <1>3 DEF CleanMarker, CleanerStep
<1>4. ASSUME NEW u, CleanDirectory(u) PROVE Vanish({d})
  <2>1. Vanish({job[u].dir})
    BY <1>4 DEF CleanDirectory
  <2>2. job[u].dir = d
    BY <2>1 DEF Vanish
  <2>. QED
    BY <2>1, <2>2
<1>. QED
  BY <1>1, <1>2, <1>3, <1>4, HistorySteps

LEMMA BackUpStamps ==
    ASSUME Keeping, NEW u \in Updaters, NEW d \in Runs, run[u] = d, BackUp(u)
    PROVE  mtime'[d] = clock /\ backedUp'[d] = clock
<1>1. /\ has \in [Dirs -> SUBSET Entries] /\ mtime \in [Runs -> Nat]
      /\ backedUp \in [Runs -> Nat]
  BY ClockTypes DEF Keeping, Marking, Orderly, TypeOK
<1>2. Changes(d, has[d] \cup {"old"}) /\ pc[u] = "work" /\ Moves(d)
  BY DEF BackUp, Works
<1>3. "old" \notin has[d]
  BY <1>2 DEF Keeping, Marking, FreshRun, Uses, Using
<1>4. Stamp(d)
  BY <1>2, <1>3 DEF Changes
<1>. QED
  BY <1>1, <1>2, <1>4 DEF Stamp, Moves

LEMMA TimeKeeps == ASSUME Keeping, [Next]_vars PROVE TimeIsPast'
<1>1. /\ clock \in Nat /\ mtime \in [Runs -> Nat] /\ backedUp \in [Runs -> Nat]
      /\ now \in [Updaters -> Nat] /\ clock' \in Nat /\ clock <= clock'
  BY ClockTypes, ClockGrows
<1>2. ASSUME NEW u \in Updaters PROVE now'[u] <= clock'
  <2>1. now[u] <= clock
    BY DEF Keeping, TimeIsPast
  <2>2. \/ now' = now
        \/ \E v : now' = [now EXCEPT ![v] = 0] \/ now' = [now EXCEPT ![v] = clock]
    BY ZenonT(40), PruningSteps DEF Ends, Prune, PruneBegins, PruneEnds, ListRun, SkipRun,
       PruneClaimed, ClaimRun, ClaimFails
  <2>3. now'[u] \in {now[u], 0, clock}
    BY <1>1, <2>2
  <2>. QED
    BY <1>1, <2>1, <2>3
<1>3. ASSUME NEW d \in Runs
      PROVE  mtime'[d] \in {mtime[d], clock} \/ (mtime'[d] = 0 /\ d \notin needed')
  BY <1>1, MtimeSteps DEF Stamp, Vanish
<1>4. ASSUME NEW d \in Runs PROVE mtime'[d] <= clock'
  <2>1. mtime[d] <= clock /\ mtime[d] \in Nat
    BY <1>1 DEF Keeping, TimeIsPast
  <2>. QED
    BY <1>1, <1>3, <2>1
<1>5. ASSUME NEW d \in Runs
      PROVE  \/ backedUp'[d] = backedUp[d]
             \/ backedUp'[d] = clock /\ mtime'[d] = clock
             \/ backedUp'[d] = 0 /\ d \notin needed'
  <2>1. ASSUME Settles(d) \/ Vanish({d}) PROVE backedUp'[d] = 0 /\ d \notin needed'
    BY <1>1, <2>1 DEF Settles, Vanish
  <2>. QED
    BY <1>1, <2>1, BackedUpSteps, BackUpStamps
<1>6. ASSUME NEW d \in Runs PROVE backedUp'[d] <= clock'
  <2>1. backedUp[d] <= clock /\ backedUp[d] \in Nat
    BY <1>1 DEF Keeping, TimeIsPast
  <2>. QED
    BY <1>1, <1>5, <2>1
<1>7. ASSUME NEW d \in Runs, d \in needed' PROVE backedUp'[d] <= mtime'[d]
  <2>1. /\ mtime[d] <= clock /\ backedUp[d] <= clock
        /\ mtime[d] \in Nat /\ backedUp[d] \in Nat
    BY <1>1 DEF Keeping, TimeIsPast
  <2>2. CASE d \in needed
    <3>1. backedUp[d] <= mtime[d]
      BY <2>2 DEF Keeping, TimeIsPast
    <3>. QED
      BY <1>1, <1>3, <1>5, <1>7, <2>1, <3>1
  <2>3. CASE d \notin needed
    <3>1. backedUp'[d] = clock /\ mtime'[d] = clock
      BY <1>7, <2>3, NeededAdded, BackUpStamps
    <3>. QED
      BY <1>1, <3>1
  <2>. QED
    BY <2>2, <2>3
<1>. QED
  BY <1>2, <1>4, <1>6, <1>7 DEF TimeIsPast

LEMMA SettledKeeps == ASSUME Keeping, [Next]_vars PROVE OwnIsSettled'
<1>1. /\ pc \in [Updaters -> Phases] /\ run \in [Updaters -> Dirs \cup {NoRun}]
      /\ owns \in [Updaters -> BOOLEAN] /\ retain \in [Updaters -> BOOLEAN]
      /\ Orderly /\ TypeOK
  BY DEF Keeping, Marking, Orderly, TypeOK
<1> SUFFICES ASSUME NEW u \in Updaters, NEW d \in Undisputed', Uses(u, d)',
                    owns'[u], ~retain'[u], pc'[u] # "moving", d \in needed'
             PROVE  FALSE
  BY DEF OwnIsSettled
<1>2. d \in Dirs /\ d \in Undisputed
  <2>1. d \in Dirs
    BY DEF Undisputed
  <2>2. ~Vanish({d})
    BY DEF Vanish
  <2>. QED
    BY <1>1, <2>1, <2>2, UndisputedWas
<1>3. CASE ~Uses(u, d)
  <2>1. CASE place[d] = "unused" /\ Made(u, d)
    BY <1>2, <2>1 DEF Made, Keeping, Marking, UnusedIsEmpty
  <2>2. CASE ReuseExplicit(u, d)
    BY <1>1, <2>2 DEF ReuseExplicit, Orderly, OwnersClean, Using
  <2>. QED
    BY <1>1, <1>2, <1>3, <2>1, <2>2, UsesSteps
<1>4. CASE Uses(u, d) /\ d \notin needed
  <2>1. PICK v \in Updaters : run[v] = d /\ BackUp(v)
    BY <1>4, NeededAdded
  <2>2. pc[v] = "work" /\ place[d] = "run" /\ pc' = [pc EXCEPT ![v] = "moving"]
    BY <1>1, <2>1, WorkerHolds DEF BackUp, Works, Goes, Holding
  <2>3. u = v
    BY <1>1, <1>2, <1>4, <2>1, <2>2 DEF Orderly, AloneInRun, Uses, Using
  <2>. QED
    BY <1>1, <2>2, <2>3
<1>5. CASE Uses(u, d) /\ d \in needed
  <2>1. ~Ends(u)
    BY <1>1 DEF Ends, Goes, Uses, Using
  <2>2. pc[u] \in Using
    BY <1>5 DEF Uses
  <2>3. owns'[u] = owns[u]
    <3>1. ASSUME NEW v \in Updaters, v # u, Ends(v) PROVE owns'[u] = owns[u]
      BY <1>1, <3>1 DEF Ends
    <3>2. ASSUME NEW v \in Updaters, AcquireLock(v) \/ KeepBackup(v)
          PROVE  owns'[u] = owns[u]
      BY <3>2 DEF AcquireLock, LockTaken, KeepBackup
    <3>3. ASSUME NEW v \in Updaters, v # u, NEW e, Made(v, e) PROVE owns'[u] = owns[u]
      BY <1>1, <3>3 DEF Made
    <3>. QED
      BY <2>1, <2>2, <3>1, <3>2, <3>3, ParamsSteps DEF Using
  <2>4. ~retain[u]
    <3>1. ASSUME NEW v \in Updaters, v # u, Ends(v) PROVE retain'[u] = retain[u]
      BY <1>1, <3>1 DEF Ends
    <3>2. ASSUME NEW v \in Updaters, NEW e, AcquireLock(v) \/ Made(v, e)
          PROVE  retain'[u] = retain[u]
      BY <3>2 DEF AcquireLock, LockTaken, Made
    <3>3. ASSUME NEW v \in Updaters, KeepBackup(v), retain[u] PROVE retain'[u]
      BY <1>1, <3>3 DEF KeepBackup
    <3>. QED
      BY <2>1, <3>1, <3>2, <3>3, ParamsSteps
  <2>5. pc[u] = "moving"
    BY <1>2, <1>5, <2>3, <2>4 DEF Keeping, OwnIsSettled
  <2>6. ASSUME NEW v \in Updaters, v # u, NEW e, Ends(v) \/ Proceeds(v) \/ UsedBy(v, e)
        PROVE  pc'[u] = pc[u]
    BY <1>1, <2>6 DEF Ends, Proceeds, UsedBy, Goes
  <2>7. Proceeds(u)
    BY <2>1, <2>5, <2>6, PhaseSteps
  <2>8. CASE MarkComplete(u) \/ MarkCompleteFails(u) \/ RevertCompletes(u)
    <3>1. Settles(d)
      BY <1>5, <2>8 DEF Uses, MarkComplete, MarkCompleteFails, RevertCompletes
    <3>. QED
      BY <3>1 DEF Settles
  <2>9. CASE KeepBackup(u)
    BY <1>1, <2>9 DEF KeepBackup
  <2>. QED
    BY <2>5, <2>7, <2>8, <2>9 DEF Proceeds
<1>. QED
  BY <1>3, <1>4, <1>5

LEMMA StaleSteps ==
    ASSUME [Next]_vars, TypeOK, NEW d \in Runs, NEW u \in Updaters,
           d \in stale'[u], d \notin stale[u]
    PROVE  ListRun(u, d) /\ IsStale(u, d)
<1>1. stale \in [Updaters -> SUBSET Runs]
  BY DEF TypeOK
<1>2. ASSUME NEW v, Ends(v) PROVE FALSE
  BY <1>1, <1>2 DEF Ends
<1>3. ASSUME NEW v, NEW e, ListRun(v, e) PROVE v = u /\ e = d /\ IsStale(u, d)
  BY <1>1, <1>3 DEF ListRun
<1>4. ASSUME NEW v, PruneBegins(v) \/ PruneEnds(v) PROVE FALSE
  BY <1>4 DEF PruneBegins, PruneEnds
<1>5. ASSUME NEW v, NEW e,
             SkipRun(v, e) \/ PruneClaimed(v, e) \/ ClaimRun(v, e) \/ ClaimFails(v, e)
      PROVE  FALSE
  BY <1>1, <1>5 DEF SkipRun, PruneClaimed, ClaimRun, ClaimFails, Takes
<1>. QED
  BY <1>2, <1>3, <1>4, <1>5, PruningSteps DEF Prune

LEMMA JudgedKeeps == ASSUME Keeping, [Next]_vars PROVE JudgedIsOld'
<1>1. /\ place \in [Dirs -> {"unused", "run", "prune", "gone", "aside"}]
      /\ Orderly /\ TypeOK
  BY DEF Keeping, Marking, Orderly, TypeOK
<1>2. /\ clock \in Nat /\ mtime \in [Runs -> Nat] /\ backedUp \in [Runs -> Nat]
      /\ now \in [Updaters -> Nat] /\ clock' \in Nat /\ clock <= clock'
  BY ClockTypes, ClockGrows
<1> SUFFICES ASSUME NEW d \in Runs, Judged(d)', Exists(d)', d \notin contested'
             PROVE  /\ \A u \in Updaters : ~Uses(u, d)'
                    /\ d \in needed' /\ "old" \in has'[d]
                          => clock' >= backedUp'[d] + RecoveryRunAge
  BY DEF JudgedIsOld
<1>3. d \in Dirs /\ d \notin Explicit
  BY RunsAssumption DEF Dirs
<1>4. ~Vanish({d})
  BY <1>3 DEF Vanish, Exists
<1>5. d \notin contested
  BY <1>1, <1>4, ContestedStays
<1>6. place[d] = "unused" => /\ place'[d] = "run"
                             /\ \A u \in Updaters : stale'[u] = stale[u]
  <2> SUFFICES ASSUME place[d] = "unused"
               PROVE  place'[d] = "run" /\ \A u \in Updaters : stale'[u] = stale[u]
    OBVIOUS
  <2>1. ASSUME NEW v, Quarantine(v) PROVE FALSE
    BY <1>1, <1>3, <2>1 DEF Quarantine, Exists
  <2>2. ASSUME NEW v, NEW e, ClaimRun(v, e) PROVE FALSE
    BY <1>1, <1>3, <2>2 DEF ClaimRun, Exists
  <2>3. ASSUME NEW v, CleanDirectory(v) PROVE FALSE
    BY <1>1, <1>3, <2>3 DEF CleanDirectory, Vanish, Exists
  <2>4. ASSUME NEW v, NEW e, Made(v, e)
        PROVE  place'[d] = "run" /\ \A u \in Updaters : stale'[u] = stale[u]
    BY <1>1, <1>3, <2>4 DEF Made, pruning, Exists
  <2>. QED
    BY <2>1, <2>2, <2>3, <2>4, PlaceSteps DEF Exists
<1>7. place[d] # "unused"
  <2> SUFFICES ASSUME place[d] = "unused" PROVE FALSE
    OBVIOUS
  <2>1. PICK u \in Updaters : d \in stale[u]
    BY <1>6 DEF Judged
  <2>. QED
    BY <1>1, <2>1 DEF Orderly, ListedIsMade
<1>8. Exists(d)
  <2> SUFFICES ASSUME ~Exists(d) PROVE FALSE
    OBVIOUS
  <2>1. ASSUME NEW v, Quarantine(v) PROVE FALSE
    BY <1>1, <1>3, <2>1 DEF Quarantine, Exists
  <2>2. ASSUME NEW v, NEW e, ClaimRun(v, e) PROVE FALSE
    BY <1>1, <1>3, <2>2 DEF ClaimRun, Exists
  <2>3. ASSUME NEW v, CleanDirectory(v) PROVE FALSE
    BY <1>1, <1>3, <2>3 DEF CleanDirectory, Vanish, Exists
  <2>4. ASSUME NEW v, NEW e, place[e] = "unused", Made(v, e) PROVE FALSE
    BY <1>1, <1>3, <1>7, <2>4 DEF Made, Exists
  <2>. QED
    BY <2>1, <2>2, <2>3, <2>4, PlaceSteps DEF Exists
<1>9. ASSUME NEW u \in Updaters, Uses(u, d)' PROVE Uses(u, d)
  BY <1>1, <1>3, <1>7, <1>9, UsesSteps
<1>10. CASE Judged(d)
  <2>1. /\ \A u \in Updaters : ~Uses(u, d)
        /\ d \in needed /\ "old" \in has[d] => clock >= backedUp[d] + RecoveryRunAge
    BY <1>5, <1>8, <1>10 DEF Keeping, JudgedIsOld
  <2>2. ASSUME NEW v \in Updaters, run[v] = d, pc[v] \in {"work", "moving"} PROVE FALSE
    BY <2>1, <2>2 DEF Uses, Using
  <2>3. d \in needed' => d \in needed
    BY <2>2, NeededAdded DEF BackUp, Works
  <2>4. "old" \in has'[d] => "old" \in has[d]
    BY ZenonT(40), <1>1, <1>3, <2>2, EntriesAdded DEF BackUp, Works
  <2>5. backedUp'[d] = backedUp[d]
    BY <1>2, <1>4, <2>2, BackedUpSteps
  <2>6. backedUp[d] \in Nat
    BY <1>2
  <2>. QED
    BY <1>2, <1>9, <2>1, <2>3, <2>4, <2>5, <2>6 DEF RecoveryRunAge
<1>11. CASE ~Judged(d)
  <2>1. \E u \in Updaters : d \in stale'[u]
    <3> SUFFICES ASSUME place'[d] = "prune" PROVE FALSE
      BY DEF Judged
    <3>1. place[d] = "run"
      BY <1>8, <1>11 DEF Exists, Judged
    <3>2. ASSUME NEW v, Quarantine(v) PROVE FALSE
      BY <1>1, <1>3, <3>1, <3>2 DEF Quarantine
    <3>3. ASSUME NEW v \in Updaters, NEW e, ClaimRun(v, e) PROVE FALSE
      <4>1. d = e /\ d \in stale[v]
        BY <1>1, <1>3, <3>1, <3>3 DEF ClaimRun, Takes
      <4>. QED
        BY <1>11, <4>1 DEF Judged
    <3>4. ASSUME NEW v, CleanDirectory(v) PROVE FALSE
      BY <1>1, <1>3, <3>1, <3>4 DEF CleanDirectory, Vanish
    <3>5. ASSUME NEW v, NEW e, Made(v, e) PROVE FALSE
      BY <1>1, <1>3, <3>1, <3>5 DEF Made
    <3>. QED
      BY <3>1, <3>2, <3>3, <3>4, <3>5, PlaceSteps
  <2>2. PICK u \in Updaters : d \in stale'[u]
    BY <2>1
  <2>3. ListRun(u, d) /\ IsStale(u, d)
    BY <1>1, <1>11, <2>2, StaleSteps DEF Judged
  <2>4. ~InUse(d) /\ UNCHANGED <<clock, has, needed, backedUp>>
    BY <2>3 DEF ListRun, disk
  <2>5. \A v \in Updaters : ~Uses(v, d)
    BY <2>4 DEF InUse, Uses, Using
  <2>6. ASSUME d \in needed, "old" \in has[d]
        PROVE  clock >= backedUp[d] + RecoveryRunAge
    <3>1. ~RunIsComplete(d)
      BY <2>6 DEF RunIsComplete, Keeping, Marking, MarkerMeansFinished
    <3>2. now[u] >= mtime[d] + RecoveryRunAge
      BY <2>3, <2>6, <3>1 DEF IsStale, Retention
    <3>3. /\ now[u] <= clock /\ backedUp[d] <= mtime[d]
          /\ now[u] \in Nat /\ mtime[d] \in Nat /\ backedUp[d] \in Nat
      BY <1>2, <2>6 DEF Keeping, TimeIsPast
    <3>. QED
      BY <1>2, <3>2, <3>3 DEF RecoveryRunAge
  <2>. QED
    BY <1>9, <2>4, <2>5, <2>6
<1>. QED
  BY <1>10, <1>11

LEMMA KeptKeeps == ASSUME Keeping, [Next]_vars PROVE NeededBackupKept'
<1>1. Orderly /\ TypeOK /\ clock \in Nat /\ backedUp \in [Runs -> Nat]
  BY ClockTypes DEF Keeping, Marking, Orderly
<1> SUFFICES ASSUME NEW d \in early', d \notin contested' PROVE FALSE
  BY DEF NeededBackupKept
<1>2. d \notin contested
  BY <1>1, ContestedStays DEF Vanish
<1>3. d \notin early
  BY <1>2 DEF Keeping, NeededBackupKept
<1>4. ASSUME NEW u, CleanDirectory(u) PROVE FALSE
  BY <1>3, <1>4 DEF CleanDirectory, Vanish
<1>5. ASSUME NEW u \in Updaters, NEW c, CleanChild(u, c) \/ CleanChildStuck(u, c)
      PROVE  FALSE
  <2>1. /\ job[u].dir = d /\ c = "old" /\ "old" \in has[d] /\ d \in needed
        /\ d \in Runs => clock < backedUp[d] + RecoveryRunAge
    BY <1>3, <1>5 DEF CleanChild, CleanChildStuck, Touches
  <2>2. job[u].step # "none" /\ Reaches(job[u])
    BY <1>5 DEF CleanChild, CleanChildStuck
  <2>3. d \in Dirs /\ d \in Undisputed
    BY <1>1, <1>2, <2>1 DEF TypeOK, Undisputed
  <2>4. CASE job[u].at = "run" /\ pc[u] = "cleanup" /\ d = run[u]
    BY <1>1, <2>1, <2>3, <2>4 DEF Orderly, OwnersClean, Keeping, OwnIsSettled, Uses, Using
  <2>5. CASE job[u].at = "prune" /\ d \in Runs
    <3>1. place[d] = "prune"
      BY <2>1, <2>2, <2>5 DEF Reaches
    <3>2. clock >= backedUp[d] + RecoveryRunAge
      BY <1>2, <2>1, <2>5, <3>1 DEF Keeping, JudgedIsOld, Judged, Exists
    <3>. QED
      BY <1>1, <2>1, <2>5, <3>2 DEF RecoveryRunAge
  <2>. QED
    BY <1>1, <2>1, <2>2, <2>4, <2>5 DEF Orderly, JobIsOwn
<1>. QED
  BY <1>3, <1>4, <1>5, EarlySteps

LEMMA KeepingHolds == Spec => []Keeping
<1>1. Init => Keeping
  <2> SUFFICES ASSUME Init PROVE Keeping
    OBVIOUS
  <2>1. TimeIsPast
    BY DEF Init, TimeIsPast
  <2>2. OwnIsSettled /\ NeededBackupKept
    BY DEF Init, OwnIsSettled, NeededBackupKept
  <2>3. JudgedIsOld
    BY DEF Init, JudgedIsOld, Exists, Dirs
  <2>. QED
    BY <2>1, <2>2, <2>3, InitMarking DEF Keeping
<1>2. Keeping /\ [Next]_vars => Keeping'
  <2>1. ASSUME Keeping, [Next]_vars PROVE Marking'
    BY <2>1, MarkingKeeps DEF Keeping
  <2>. QED
    BY <2>1, TimeKeeps, SettledKeeps, JudgedKeeps, KeptKeeps DEF Keeping
<1>. QED
  BY <1>1, <1>2, PTL DEF Spec

\* The originals of an update that did not finish are not touched before the recovery
\* age, except in a run that another updater used when it was judged: the age is taken
\* from the directory's time, which the backup moves on and nothing moves back.
THEOREM BackupsAreKept == Spec => []NeededBackupKept
<1>1. Keeping => NeededBackupKept
  BY DEF Keeping
<1>. QED
  BY <1>1, KeepingHolds, PTL
=============================================================================
