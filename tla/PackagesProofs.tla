---------------------------- MODULE PackagesProofs ----------------------------
(***************************************************************************)
(* What `ez install` promises, for any registry and any number of          *)
(* commands, faults and kills.                                             *)
(*                                                                         *)
(* The argument.  From the step that compares checksums until the archive  *)
(* is unpacked nothing writes to the cache, so what is unpacked for a      *)
(* package with a checksum is the published archive (ArchiveVerified).  An *)
(* install works down a plan that names every package once: the packages   *)
(* before the current one are in place and are not touched again, those    *)
(* outside the plan are as they were, and ez.lock is as it was until it is *)
(* rewritten with the plan merged in (Progress).  A write of package.ez or *)
(* ez.lock that fails is noted in unwritten, and then there is nothing to  *)
(* say about that file.                                                    *)
(***************************************************************************)
EXTENDS Packages, FiniteSetTheorems, SequenceTheorems, TLAPS

Working == {"fetch", "verify", "guard", "remove", "create", "extract"}
Recording == {"record", "writeManifest", "lock", "writeLock", "done"}
Manifests == [exists : BOOLEAN, deps : Ranges, torn : BOOLEAN]

\* Which command is at which step.
StepsOf ==
  /\ cmd.at \in {"resolve", "record", "lock"} \union Working => cmd.op = "install"
  /\ cmd.at \in {"delete", "unlock", "unlist"} => cmd.op = "uninstall"
  /\ cmd.op = "uninstall" /\ cmd.at = "delete" => cmd.name \in Packages
  /\ cmd.at \in Working => cmd.next \in 1..Len(cmd.plan)

\* A plan names each package once.
PlanSound ==
  \A i, j \in 1..Len(cmd.plan) : cmd.plan[i].name = cmd.plan[j].name => i = j

\* There is an archive to verify, and the one about to be unpacked is the
\* registry's.
ArchiveVerified ==
  /\ cmd.at = "verify" => cache[Archive] # "none"
  /\ cmd.at \in {"guard", "remove", "create", "extract"} /\ Package.name \notin Unsummed
       => cache[Archive] = "good"

\* Item i of the plan is in the library folder.
Placed(i) ==
  LET d == lib[cmd.plan[i].name]
  IN d.files = "whole" /\ d.from = "ez" /\ d.version = cmd.plan[i].version

\* The entries l hold the plan, and otherwise what the lock held before.
Recorded(l) ==
  /\ \A i \in 1..Len(cmd.plan) :
       /\ cmd.plan[i].name \in DOMAIN l
       /\ l[cmd.plan[i].name].version = cmd.plan[i].version
       /\ cmd.plan[i].direct => l[cmd.plan[i].name].direct
  /\ \A p \in Packages : ~InPlan(p) =>
       /\ (p \in DOMAIN l) = (p \in DOMAIN before.lock)
       /\ p \in DOMAIN l => l[p] = before.lock[p]

\* How far an install has come.
LibProgress ==
  /\ cmd.at \in {"resolve"} \union Working \union Recording =>
       \A p \in Packages : ~InPlan(p) => lib[p] = before.lib[p]
  /\ cmd.at \in Working => \A i \in 1..Len(cmd.plan) : i < cmd.next => Placed(i)
  /\ cmd.at \in Recording => \A i \in 1..Len(cmd.plan) : Placed(i)
LockProgress ==
  /\ cmd.at \in {"resolve", "record", "writeManifest", "lock"} \union Working => lock = before.lock
  /\ cmd.at = "writeLock" => Recorded(cmd.entries)
  /\ cmd.at = "done" => "ez.lock" \in cmd.unwritten \/ Recorded(lock)
ManifestProgress ==
  /\ cmd.added \subseteq DOMAIN cmd.deps
  /\ cmd.at \in {"lock", "writeLock", "done"} /\ manifest.exists =>
       "package.ez" \in cmd.unwritten \/ cmd.added \subseteq DOMAIN manifest.deps
Progress ==
  /\ cmd.at = "resolve" => cmd.plan = <<>> /\ cmd.next = 1 /\ DOMAIN cmd.deps # {}
  /\ cmd.op = "install" => LibProgress /\ LockProgress /\ ManifestProgress

\* The inductive invariant.
IInv == TypeOK /\ StepsOf /\ PlanSound /\ ArchiveVerified /\ OnlyVerifiedUnpacked /\ Progress

-----------------------------------------------------------------------------
\* Maps from names stay maps when they are merged, cut and built.
LEMMA Maps ==
  /\ Empty \in Ranges /\ Empty \in Locks /\ DOMAIN Empty = {}
  /\ \A r \in Ranges : DOMAIN r \subseteq Packages /\ \A p \in DOMAIN r : r[p] \in 0..MaxVersion
  /\ \A l \in Locks : DOMAIN l \subseteq Packages
       /\ \A p \in DOMAIN l : l[p] \in [version : Versions, direct : BOOLEAN]
  /\ \A D \in SUBSET Packages : \A f : (\A p \in D : f[p] \in 0..MaxVersion) => [p \in D |-> f[p]] \in Ranges
<1>1. /\ Empty \in [{} -> 0..MaxVersion]
      /\ Empty \in [{} -> [version : Versions, direct : BOOLEAN]]
      /\ DOMAIN Empty = {}
  BY DEF Empty
<1>2. {} \in SUBSET Packages
  OBVIOUS
<1>3. Empty \in Ranges /\ Empty \in Locks /\ DOMAIN Empty = {}
  BY <1>1, <1>2 DEF Ranges, Locks
<1>4. \A r \in Ranges : DOMAIN r \subseteq Packages /\ \A p \in DOMAIN r : r[p] \in 0..MaxVersion
  BY DEF Ranges
<1>5. \A l \in Locks : DOMAIN l \subseteq Packages
       /\ \A p \in DOMAIN l : l[p] \in [version : Versions, direct : BOOLEAN]
  BY DEF Locks
<1>6. ASSUME NEW D \in SUBSET Packages, NEW f, \A p \in D : f[p] \in 0..MaxVersion
      PROVE  [p \in D |-> f[p]] \in Ranges
  <2>1. [p \in D |-> f[p]] \in [D -> 0..MaxVersion]
    BY <1>6
  <2> QED
    BY <2>1 DEF Ranges
<1> QED
  BY <1>3, <1>4, <1>5, <1>6

\* Cutting a name out of a map and merging two leaves a map.
LEMMA MapOperators ==
  /\ \A r \in Ranges : \A p : Without(r, p) \in Ranges /\ DOMAIN Without(r, p) = DOMAIN r \ {p}
  /\ \A l \in Locks : \A p : Without(l, p) \in Locks
  /\ \A r, s \in Ranges : Merged(r, s) \in Ranges
  /\ \A l, m \in Locks : Merged(l, m) \in Locks
  /\ \A p \in Packages : [q \in {p} |-> 0] \in Ranges
<1>1. ASSUME NEW V, NEW D \in SUBSET Packages, NEW r \in [D -> V], NEW p
      PROVE  Without(r, p) \in [D \ {p} -> V]
  BY DEF Without
<1>2. ASSUME NEW V, NEW D \in SUBSET Packages, NEW r \in [D -> V],
             NEW E \in SUBSET Packages, NEW s \in [E -> V]
      PROVE  Merged(r, s) \in [D \union E -> V]
  BY DEF Merged
<1>3. \A r \in Ranges : \A p : Without(r, p) \in Ranges /\ DOMAIN Without(r, p) = DOMAIN r \ {p}
  <2> SUFFICES ASSUME NEW r \in Ranges, NEW p
               PROVE  Without(r, p) \in Ranges /\ DOMAIN Without(r, p) = DOMAIN r \ {p}
    OBVIOUS
  <2>1. PICK D \in SUBSET Packages : r \in [D -> 0..MaxVersion]
    BY DEF Ranges
  <2>2. D \ {p} \in SUBSET Packages /\ Without(r, p) \in [D \ {p} -> 0..MaxVersion]
    BY <1>1, <2>1
  <2> QED
    BY <2>1, <2>2 DEF Ranges
<1>4. \A l \in Locks : \A p : Without(l, p) \in Locks
  <2> SUFFICES ASSUME NEW l \in Locks, NEW p
               PROVE  Without(l, p) \in Locks
    OBVIOUS
  <2>1. PICK D \in SUBSET Packages : l \in [D -> [version : Versions, direct : BOOLEAN]]
    BY DEF Locks
  <2>2. D \ {p} \in SUBSET Packages /\ Without(l, p) \in [D \ {p} -> [version : Versions, direct : BOOLEAN]]
    BY <1>1, <2>1
  <2> QED
    BY <2>2 DEF Locks
<1>5. \A r, s \in Ranges : Merged(r, s) \in Ranges
  <2> SUFFICES ASSUME NEW r \in Ranges, NEW s \in Ranges
               PROVE  Merged(r, s) \in Ranges
    OBVIOUS
  <2>1. PICK D \in SUBSET Packages : r \in [D -> 0..MaxVersion]
    BY DEF Ranges
  <2>2. PICK E \in SUBSET Packages : s \in [E -> 0..MaxVersion]
    BY DEF Ranges
  <2>3. D \union E \in SUBSET Packages /\ Merged(r, s) \in [D \union E -> 0..MaxVersion]
    BY <1>2, <2>1, <2>2
  <2> QED
    BY <2>3 DEF Ranges
<1>6. \A l, m \in Locks : Merged(l, m) \in Locks
  <2> SUFFICES ASSUME NEW l \in Locks, NEW m \in Locks
               PROVE  Merged(l, m) \in Locks
    OBVIOUS
  <2>1. PICK D \in SUBSET Packages : l \in [D -> [version : Versions, direct : BOOLEAN]]
    BY DEF Locks
  <2>2. PICK E \in SUBSET Packages : m \in [E -> [version : Versions, direct : BOOLEAN]]
    BY DEF Locks
  <2>3. D \union E \in SUBSET Packages
        /\ Merged(l, m) \in [D \union E -> [version : Versions, direct : BOOLEAN]]
    BY <1>2, <2>1, <2>2
  <2> QED
    BY <2>3 DEF Locks
<1>7. \A p \in Packages : [q \in {p} |-> 0] \in Ranges
  <2> SUFFICES ASSUME NEW p \in Packages
               PROVE  [q \in {p} |-> 0] \in Ranges
    OBVIOUS
  <2>1. 0 \in 0..MaxVersion
    BY RegistryAssumption
  <2>2. {p} \in SUBSET Packages /\ [q \in {p} |-> 0] \in [{p} -> 0..MaxVersion]
    BY <2>1
  <2> QED
    BY <2>2 DEF Ranges
<1> QED
  BY <1>3, <1>4, <1>5, <1>6, <1>7

\* The registry's answer is a plan: every item once, none without a version.
LEMMA PlanTypes ==
  ASSUME latest \in [Packages -> Versions], NEW deps \in Ranges, NEW plan \in PlansFor(deps)
  PROVE  /\ plan \in Seq(Items) /\ Len(plan) \in Nat /\ DOMAIN plan = 1..Len(plan)
         /\ DOMAIN deps # {} => 1 \in 1..Len(plan)
         /\ \A i, j \in 1..Len(plan) : plan[i].name = plan[j].name => i = j
<1> DEFINE n == Cardinality(Wanted(deps))
<1>1. DOMAIN deps \subseteq Packages
  BY Maps
<1>2. Wanted(deps) \in SUBSET Packages
  BY <1>1, RegistryAssumption DEF Wanted
<1>3. IsFiniteSet(Wanted(deps)) /\ n \in Nat /\ (Wanted(deps) # {} => n # 0)
  BY <1>2, RegistryAssumption, FS_Subset, FS_CardinalityType, FS_EmptySet
<1>4. {Planned(p, deps) : p \in Wanted(deps)} \subseteq Items
  <2>1. ASSUME NEW p \in Wanted(deps)
        PROVE  Planned(p, deps) \in Items
    <3>1. p \in Packages /\ latest[p] \in Versions /\ (p \in DOMAIN deps) \in BOOLEAN
      BY <1>2
    <3> QED
      BY <3>1 DEF Planned, Items
  <2> QED
    BY <2>1
<1>5. plan \in [1..n -> Items]
  BY <1>4 DEF PlansFor
<1>6. plan \in Seq(Items) /\ Len(plan) = n /\ DOMAIN plan = 1..n
  BY <1>3, <1>5, SeqDef
<1>7. DOMAIN deps # {} => Wanted(deps) # {}
  BY DEF Wanted
<1>8. DOMAIN deps # {} => 1 \in 1..n
  BY <1>3, <1>7
<1>9. \A i, j \in 1..n : plan[i].name = plan[j].name => i = j
  BY <1>6 DEF PlansFor
<1> QED
  BY <1>3, <1>6, <1>8, <1>9

-----------------------------------------------------------------------------
\* An item of the plan.
LEMMA PlannedItem ==
  ASSUME TypeOK, NEW i \in 1..Len(cmd.plan)
  PROVE  /\ cmd.plan[i] \in Items
         /\ cmd.plan[i].name \in Packages /\ cmd.plan[i].version \in Versions
<1>1. cmd.plan \in Seq(Items)
  BY DEF TypeOK, Commands
<1>2. cmd.plan[i] \in Items
  BY <1>1, ElementOfSeq
<1> QED
  BY <1>2 DEF Items

\* The package of the current item and its archive.
LEMMA CurrentItem ==
  ASSUME TypeOK, cmd.next \in 1..Len(cmd.plan)
  PROVE  /\ Package \in Items /\ Package = cmd.plan[cmd.next]
         /\ Package.name \in Packages /\ Package.version \in Versions
         /\ Archive \in Packages \X Versions
         /\ InPlan(Package.name)
<1>1. cmd.plan \in Seq(Items)
  BY DEF TypeOK, Commands
<1>2. Package \in Items
  BY <1>1, ElementOfSeq DEF Package
<1> QED
  BY <1>2 DEF Items, Archive, InPlan, Package

\* The item of the plan that is for a package.
LEMMA ChosenItem ==
  ASSUME TypeOK, NEW p, InPlan(p)
  PROVE  /\ Chosen(p) \in 1..Len(cmd.plan) /\ cmd.plan[Chosen(p)].name = p
         /\ cmd.plan[Chosen(p)] \in Items
<1>1. Chosen(p) \in 1..Len(cmd.plan) /\ cmd.plan[Chosen(p)].name = p
  BY DEF Chosen, InPlan
<1>2. cmd.plan \in Seq(Items)
  BY DEF TypeOK, Commands
<1> QED
  BY <1>1, <1>2, ElementOfSeq

\* What is written to package.ez and to ez.lock.
LEMMA WrittenTypes ==
  ASSUME TypeOK
  PROVE  /\ Updated \in Ranges /\ DOMAIN Updated = DOMAIN cmd.deps
         /\ PlanEntries \in Locks /\ Entries \in Locks
<1>0. /\ cmd.deps \in Ranges /\ cmd.plan \in Seq(Items) /\ lock \in Locks
      /\ DOMAIN cmd.deps \in SUBSET Packages
  BY Maps DEF TypeOK, Commands
<1>1. ASSUME NEW p \in DOMAIN cmd.deps
      PROVE  (IF p \in cmd.added /\ InPlan(p) THEN cmd.plan[Chosen(p)].version ELSE cmd.deps[p])
               \in 0..MaxVersion
  <2>1. CASE p \in cmd.added /\ InPlan(p)
    <3>1. cmd.plan[Chosen(p)].version \in Versions
      BY <2>1, ChosenItem DEF Items
    <3> QED
      BY <2>1, <3>1, RegistryAssumption DEF Versions
  <2>2. CASE ~(p \in cmd.added /\ InPlan(p))
    BY <1>0, <2>2, Maps
  <2> QED
    BY <2>1, <2>2
<1>2. Updated \in [DOMAIN cmd.deps -> 0..MaxVersion]
  BY <1>1 DEF Updated
<1>3. Updated \in Ranges /\ DOMAIN Updated = DOMAIN cmd.deps
  BY <1>0, <1>2 DEF Ranges
<1> DEFINE names == {cmd.plan[i].name : i \in 1..Len(cmd.plan)}
<1>4. names \in SUBSET Packages
  <2>1. ASSUME NEW i \in 1..Len(cmd.plan)
        PROVE  cmd.plan[i].name \in Packages
    <3>1. cmd.plan[i] \in Items
      BY <1>0, ElementOfSeq
    <3> QED
      BY <3>1 DEF Items
  <2> QED
    BY <2>1
<1>5. ASSUME NEW n \in names
      PROVE  Entry(cmd.plan[Chosen(n)]) \in [version : Versions, direct : BOOLEAN]
  <2>1. InPlan(n)
    BY DEF InPlan
  <2>2. cmd.plan[Chosen(n)] \in Items
    BY <2>1, ChosenItem
  <2>3. /\ cmd.plan[Chosen(n)].version \in Versions
        /\ cmd.plan[Chosen(n)].direct \in BOOLEAN
        /\ cmd.plan[Chosen(n)].name \in DOMAIN lock =>
             lock[cmd.plan[Chosen(n)].name].direct \in BOOLEAN
    BY <1>0, <2>2, Maps DEF Items
  <2>4. (cmd.plan[Chosen(n)].direct
          \/ (/\ cmd.plan[Chosen(n)].name \in DOMAIN lock
              /\ lock[cmd.plan[Chosen(n)].name].direct)) \in BOOLEAN
    OBVIOUS
  <2> QED
    BY <2>3, <2>4 DEF Entry
<1>6. PlanEntries \in [names -> [version : Versions, direct : BOOLEAN]]
  BY <1>5 DEF PlanEntries
<1>7. PlanEntries \in Locks
  BY <1>4, <1>6 DEF Locks
<1>8. Entries \in Locks
  BY <1>0, <1>7, MapOperators DEF Entries
<1> QED
  BY <1>3, <1>7, <1>8

\* Moving on changes nothing of the command but its place.
LEMMA Moves ==
  ASSUME cmd \in Commands, NEW at \in Places, Goto(at)
  PROVE  /\ cmd' \in Commands /\ cmd'.at = at
         /\ cmd'.op = cmd.op /\ cmd'.force = cmd.force /\ cmd'.added = cmd.added
         /\ cmd'.name = cmd.name /\ cmd'.deps = cmd.deps /\ cmd'.plan = cmd.plan
         /\ cmd'.next = cmd.next /\ cmd'.entries = cmd.entries
         /\ cmd'.unwritten = cmd.unwritten
  BY DEF Goto, Commands

\* The steps that write package.ez and ez.lock leave this of the command as it is.
SameCommand ==
  /\ cmd'.op = cmd.op /\ cmd'.force = cmd.force /\ cmd'.added = cmd.added
  /\ cmd'.name = cmd.name /\ cmd'.plan = cmd.plan /\ cmd'.next = cmd.next
  /\ cmd.unwritten \subseteq cmd'.unwritten
Files == {"package.ez", "ez.lock"}

\* A write that fails is noted, and the command goes on.
LEMMA GoesOn ==
  ASSUME cmd \in Commands, NEW at \in Places, NEW file \in Files, GoOnWithout(file, at)
  PROVE  /\ cmd' \in Commands /\ cmd'.at = at /\ SameCommand /\ file \in cmd'.unwritten
         /\ cmd'.deps = cmd.deps /\ cmd'.entries = cmd.entries
  BY DEF GoOnWithout, Commands, SameCommand, Files

\* Where a command goes from package.ez and from ez.lock.
LEMMA Onward ==
  /\ AfterManifest \in Places /\ AfterManifest \in {"lock", "done"}
  /\ AfterManifest = "lock" <=> cmd.op = "install"
  /\ AfterLock \in Places /\ AfterLock \in {"done", "unlist"}
  /\ AfterLock = "done" <=> cmd.op = "install"
BY DEF AfterManifest, AfterLock, Places

\* Truncating package.ez, or going on without it.
LEMMA TruncatesManifest ==
  ASSUME TypeOK, NEW deps \in Ranges, TruncateManifest(deps)
  PROVE  /\ manifest' \in Manifests /\ cmd' \in Commands /\ faults' \in Nat /\ SameCommand
         /\ \/ /\ cmd'.at = AfterManifest /\ cmd'.deps = cmd.deps
               /\ "package.ez" \in cmd'.unwritten
            \/ cmd'.at = "writeManifest" /\ cmd'.deps = deps
<1>1. cmd \in Commands /\ manifest \in Manifests /\ faults \in Nat
  BY DEF TypeOK, Manifests
<1>2. "package.ez" \in Files
  BY DEF Files
<1>3. CASE GoOnWithout("package.ez", AfterManifest) /\ UNCHANGED manifest /\ faults' \in Nat
  BY <1>1, <1>2, <1>3, GoesOn, Onward
<1>4. CASE /\ manifest' = [manifest EXCEPT !.deps = Empty, !.torn = FALSE]
           /\ cmd' = [cmd EXCEPT !.at = "writeManifest", !.deps = deps,
                                 !.unwritten = @ \union (IF manifest.torn THEN {"package.ez"} ELSE {})]
           /\ UNCHANGED faults
  <2>1. manifest' \in Manifests
    BY <1>1, <1>4, Maps DEF Manifests
  <2>2. cmd' \in Commands /\ SameCommand /\ cmd'.at = "writeManifest" /\ cmd'.deps = deps
    BY <1>1, <1>4 DEF Commands, SameCommand, Places
  <2> QED
    BY <1>1, <1>4, <2>1, <2>2
<1> QED
  BY <1>1, <1>3, <1>4 DEF TruncateManifest, WriteFails

\* Writing package.ez, or some of it.
LEMMA WritesManifest ==
  ASSUME TypeOK, WriteManifest
  PROVE  /\ manifest' \in Manifests /\ cmd' \in Commands /\ faults' \in Nat /\ SameCommand
         /\ cmd'.at = AfterManifest /\ cmd'.deps = cmd.deps
         /\ "package.ez" \in cmd'.unwritten \/ manifest'.deps = cmd.deps
<1>1. cmd \in Commands /\ cmd.deps \in Ranges /\ manifest \in Manifests /\ faults \in Nat
  BY DEF TypeOK, Commands, Manifests
<1>2. "package.ez" \in Files
  BY DEF Files
<1>3. CASE /\ manifest' = IF "package.ez" \in cmd.unwritten THEN [manifest EXCEPT !.torn = TRUE]
                          ELSE [manifest EXCEPT !.deps = cmd.deps]
           /\ Going(AfterManifest)
  <2>1. /\ cmd' \in Commands /\ cmd'.at = AfterManifest /\ SameCommand /\ cmd'.deps = cmd.deps
        /\ cmd'.unwritten = cmd.unwritten
    BY <1>1, <1>3, Moves, Onward DEF Going, SameCommand
  <2>2. manifest' \in Manifests /\ ("package.ez" \in cmd.unwritten \/ manifest'.deps = cmd.deps)
    BY <1>1, <1>3 DEF Manifests
  <2> QED
    BY <1>1, <1>3, <2>1, <2>2 DEF Going
<1>4. CASE /\ WriteFails("package.ez", AfterManifest)
           /\ \E torn \in BOOLEAN : manifest' = [manifest EXCEPT !.torn = torn]
  <2>1. manifest' \in Manifests
    BY <1>1, <1>4 DEF Manifests
  <2> QED
    BY <1>1, <1>2, <1>4, <2>1, GoesOn, Onward DEF WriteFails
<1> QED
  BY <1>3, <1>4 DEF WriteManifest

\* Truncating ez.lock, or going on without it.
LEMMA TruncatesLock ==
  ASSUME TypeOK, NEW entries \in Locks, TruncateLock(entries)
  PROVE  /\ lock' \in Locks /\ cmd' \in Commands /\ faults' \in Nat /\ SameCommand
         /\ cmd'.deps = cmd.deps
         /\ \/ cmd'.at = AfterLock /\ "ez.lock" \in cmd'.unwritten
            \/ cmd'.at = "writeLock" /\ cmd'.entries = entries
<1>1. cmd \in Commands /\ lock \in Locks /\ faults \in Nat
  BY DEF TypeOK
<1>2. CASE WriteFails("ez.lock", AfterLock) /\ UNCHANGED lock
  BY <1>1, <1>2, GoesOn, Onward DEF WriteFails, Files
<1>3. CASE /\ lock' = Empty /\ UNCHANGED faults
           /\ cmd' = [cmd EXCEPT !.at = "writeLock", !.entries = entries]
  BY <1>1, <1>3, Maps DEF Commands, SameCommand, Places
<1> QED
  BY <1>2, <1>3 DEF TruncateLock

\* Writing ez.lock, or failing to.
LEMMA WritesLock ==
  ASSUME TypeOK, WriteLock
  PROVE  /\ lock' \in Locks /\ cmd' \in Commands /\ faults' \in Nat /\ SameCommand
         /\ cmd'.at = AfterLock /\ cmd'.deps = cmd.deps
         /\ "ez.lock" \in cmd'.unwritten \/ lock' = cmd.entries
<1>1. cmd \in Commands /\ cmd.entries \in Locks /\ lock \in Locks /\ faults \in Nat
  BY DEF TypeOK, Commands
<1>2. CASE lock' = cmd.entries /\ Going(AfterLock)
  BY <1>1, <1>2, Moves, Onward DEF Going, SameCommand
<1>3. CASE WriteFails("ez.lock", AfterLock) /\ UNCHANGED lock
  BY <1>1, <1>3, GoesOn, Onward DEF WriteFails, Files
<1> QED
  BY <1>2, <1>3 DEF WriteLock

\* The directories that the steps write.
LEMMA DirectoryTypes ==
  /\ Missing \in Directories /\ Local \in Directories
  /\ Missing.good /\ Local.good
  /\ \A files \in {"part", "whole"}, v \in Versions, good \in BOOLEAN, stale \in BOOLEAN :
       /\ Directory(files, "ez", v, good, stale) \in Directories
       /\ Directory(files, "ez", v, good, stale).good = good
       /\ Directory(files, "ez", v, good, stale).files = files
       /\ Directory(files, "ez", v, good, stale).from = "ez"
       /\ Directory(files, "ez", v, good, stale).version = v
  /\ \A d \in Directories : \A e \in Removed(d) : e \in Directories /\ (d.good => e.good)
<1>1. 0 \in 0..MaxVersion /\ Versions \subseteq 0..MaxVersion
  BY RegistryAssumption DEF Versions
<1>2. ASSUME NEW d \in Directories, NEW e \in Removed(d)
      PROVE  e \in Directories /\ (d.good => e.good)
  <2>1. CASE e = Missing
    BY <1>1, <2>1 DEF Missing, Directory, Directories
  <2>2. CASE e = [d EXCEPT !.files = "part", !.stale = TRUE]
    BY <2>2 DEF Directories
  <2> QED
    BY <2>1, <2>2 DEF Removed
<1> QED
  BY <1>1, <1>2 DEF Missing, Local, Directory, Directories

\* The types of a new command.
LEMMA StartTypes ==
  ASSUME TypeOK
  PROVE  /\ NoCommand \in Commands
         /\ \A p \in Packages : Merged([q \in {p} |-> 0], manifest.deps) \in Ranges
         /\ \A p \in Packages : p \in DOMAIN Merged([q \in {p} |-> 0], manifest.deps)
         /\ manifest.deps \in Ranges
<1>1. manifest.deps \in Ranges
  BY DEF TypeOK
<1>2. <<>> \in Seq(Items) /\ 1 \in Nat
  BY EmptySeq
<1>3. NoCommand \in Commands
  BY <1>2, Maps DEF NoCommand, Commands, Places
<1> QED
  BY <1>1, <1>3, MapOperators DEF Merged

-----------------------------------------------------------------------------
\* Whatever a step of the command does to the library folder leaves a folder.
LEMMA LibTypes ==
  ASSUME lib \in [Packages -> Directories], NEW p, NEW d \in Directories,
         lib' = [lib EXCEPT ![p] = d]
  PROVE  lib' \in [Packages -> Directories]
  OBVIOUS

\* Unpacking writes one directory and no other.
LEMMA UnpackedTypes ==
  ASSUME TypeOK, cmd.next \in 1..Len(cmd.plan), NEW files \in {"part", "whole"}
  PROVE  /\ Unpacked(files) \in [Packages -> Directories]
         /\ \A p \in Packages \ {Package.name} : Unpacked(files)[p] = lib[p]
         /\ Unpacked(files)[Package.name].files = files
         /\ Unpacked(files)[Package.name].from = "ez"
         /\ Unpacked(files)[Package.name].version = Package.version
         /\ Unpacked(files)[Package.name].good = (cache[Archive] = "good")
<1>1. /\ lib \in [Packages -> Directories] /\ Package.name \in Packages
      /\ Package.version \in Versions
  BY CurrentItem DEF TypeOK
<1>2. /\ lib[Package.name].stale \in BOOLEAN /\ (cache[Archive] = "good") \in BOOLEAN
      /\ Package.version \in 0..MaxVersion
  BY <1>1, RegistryAssumption DEF Directories, Versions
<1> DEFINE d == Directory(files, "ez", Package.version, cache[Archive] = "good",
                          lib[Package.name].stale)
<1>3. /\ d \in Directories /\ d.files = files /\ d.from = "ez" /\ d.version = Package.version
      /\ d.good = (cache[Archive] = "good")
  BY <1>2 DEF Directory, Directories
<1>4. Unpacked(files) = [lib EXCEPT ![Package.name] = d]
  BY DEF Unpacked
<1> HIDE DEF d
<1> QED
  BY <1>1, <1>3, <1>4

\* What a kill leaves of the library folder.
LEMMA TornTypes ==
  ASSUME TypeOK, StepsOf, NEW l \in Torn
  PROVE  /\ l \in [Packages -> Directories]
         /\ \A p \in Packages : l[p].good \/ ~lib[p].good
                                \/ (cmd.at = "extract" /\ p = Package.name /\ cache[Archive] # "good")
<1>1. lib \in [Packages -> Directories]
  BY DEF TypeOK
<1>2. CASE l = lib
  BY <1>1, <1>2
<1>3. CASE cmd.at = "extract" /\ l = Unpacked("part")
  <2>1. cmd.next \in 1..Len(cmd.plan)
    BY <1>3 DEF StepsOf, Working
  <2> QED
    BY <1>3, <2>1, UnpackedTypes
<1>4. CASE /\ cmd.at \in {"remove", "delete"}
           /\ l = [lib EXCEPT ![Touched].files = "part", ![Touched].stale = TRUE]
  <2>1. Touched \in Packages
    <3>1. CASE cmd.at = "delete"
      BY <3>1 DEF StepsOf, Touched
    <3>2. CASE cmd.at = "remove"
      BY <3>2, CurrentItem DEF StepsOf, Touched, Working
    <3> QED
      BY <1>4, <3>1, <3>2
  <2>2. \A p \in Packages : lib[p] \in Directories
    BY <1>1
  <2>3. l = [lib EXCEPT ![Touched] = [lib[Touched] EXCEPT !.files = "part", !.stale = TRUE]]
    BY <1>1, <1>4, <2>1, <2>2 DEF Directories
  <2>4. /\ [lib[Touched] EXCEPT !.files = "part", !.stale = TRUE] \in Directories
        /\ [lib[Touched] EXCEPT !.files = "part", !.stale = TRUE].good = lib[Touched].good
    BY <2>1, <2>2 DEF Directories
  <2> QED
    BY <1>1, <2>1, <2>2, <2>3, <2>4
<1> QED
  BY <1>2, <1>3, <1>4 DEF Torn

-----------------------------------------------------------------------------
\* Every step keeps the types of the disk and of the command.
LEMMA TypeStep ==
  ASSUME TypeOK, StepsOf, [Next]_vars
  PROVE  TypeOK'
<1>0. /\ latest \in [Packages -> Versions]
      /\ lib \in [Packages -> Directories]
      /\ cache \in [Packages \X Versions -> {"none", "good", "bad"}]
      /\ lock \in Locks
      /\ manifest \in Manifests
      /\ cmd \in Commands
      /\ before \in [lib : [Packages -> Directories], lock : Locks]
      /\ commands \in Nat /\ faults \in Nat
      /\ 1 \in Nat /\ \A n \in Nat : n + 1 \in Nat
  BY DEF TypeOK, Manifests
<1>a. \A at \in Places : Goto(at) => cmd' \in Commands
  BY <1>0, Moves
<1>b. \A at \in {"fetch", "verify", "guard", "remove", "create", "extract", "record", "failed",
                 "writeManifest", "lock", "writeLock", "unlock", "unlist", "done", "killed"} :
        at \in Places
  BY DEF Places
<1>c. Failing => cmd' \in Commands /\ faults' \in Nat
  BY <1>0, <1>a, <1>b DEF Failing
<1>d. \A d \in Directories : FaultsIn(d) => faults' \in Nat
  BY <1>0 DEF FaultsIn
<1>e. \A command \in Commands : Start(command) => TypeOK'
  <2> SUFFICES ASSUME NEW command \in Commands, Start(command)
               PROVE  TypeOK'
    OBVIOUS
  <2>1. /\ cmd' = command /\ commands' = commands + 1
        /\ before' = [lib |-> lib, lock |-> lock]
        /\ UNCHANGED <<latest, disk, faults>>
    BY DEF Start
  <2> QED
    BY <1>0, <2>1 DEF TypeOK, disk
<1>1. ASSUME NEW p \in Packages, Publish(p)
      PROVE  TypeOK'
  <2>1. latest' = [latest EXCEPT ![p] = latest[p] + 1] /\ latest[p] + 1 \in Versions
    BY <1>0, <1>1, RegistryAssumption DEF Publish, Versions
  <2>2. UNCHANGED <<disk, cmd, before, commands, faults>>
    BY <1>1 DEF Publish
  <2>3. latest' \in [Packages -> Versions]
    BY <1>0, <2>1
  <2> QED
    BY <1>0, <2>2, <2>3 DEF TypeOK, disk
<1>2. ASSUME NEW p \in Packages, WriteLocal(p)
      PROVE  TypeOK'
  <2>1. /\ lib' = [lib EXCEPT ![p] = Local]
        /\ before' = [before EXCEPT !.lib[p] = Local]
        /\ UNCHANGED <<latest, cache, lock, manifest, cmd, commands, faults>>
    BY <1>2 DEF WriteLocal
  <2>2. before' \in [lib : [Packages -> Directories], lock : Locks]
    BY <1>0, <2>1, DirectoryTypes
  <2>3. lib' \in [Packages -> Directories]
    BY <1>0, <2>1, DirectoryTypes
  <2> QED
    BY <1>0, <2>1, <2>2, <2>3 DEF TypeOK
<1>3. ASSUME NEW p \in Packages, uninstall(p)
      PROVE  TypeOK'
  <2>1. [NoCommand EXCEPT !.op = "uninstall", !.at = "delete", !.name = p, !.deps = manifest.deps]
          \in Commands
    BY StartTypes DEF Commands, Places
  <2> QED
    BY <1>3, <1>e, <2>1 DEF uninstall
<1>4. ASSUME NEW force \in BOOLEAN, installAll(force)
      PROVE  TypeOK'
  <2>1. [NoCommand EXCEPT !.at = "resolve", !.force = force, !.deps = manifest.deps] \in Commands
    BY StartTypes DEF Commands, Places
  <2> QED
    BY <1>4, <1>e, <2>1 DEF installAll
<1>5. ASSUME NEW force \in BOOLEAN, NEW p \in Packages, installOne(p, force)
      PROVE  TypeOK'
  <2>1. [NoCommand EXCEPT !.at = "resolve", !.force = force, !.added = {p},
                          !.deps = Merged([q \in {p} |-> 0], manifest.deps)] \in Commands
    BY StartTypes DEF Commands, Places
  <2> QED
    BY <1>5, <1>e, <2>1 DEF installOne
<1>6. CASE resolvePlan
  <2>1. UNCHANGED <<latest, disk, before, commands>>
    BY <1>6 DEF resolvePlan
  <2>2. cmd.deps \in Ranges
    BY <1>0 DEF Commands
  <2>3. ASSUME NEW plan \in PlansFor(cmd.deps), cmd' = [cmd EXCEPT !.at = "fetch", !.plan = plan]
        PROVE  cmd' \in Commands
    <3>1. plan \in Seq(Items)
      BY <1>0, <2>2, PlanTypes
    <3> QED
      BY <1>0, <2>3, <3>1 DEF Commands, Places
  <2>4. cmd' \in Commands /\ faults' \in Nat
    BY <1>0, <1>6, <1>c, <2>3 DEF resolvePlan
  <2> QED
    BY <1>0, <2>1, <2>4 DEF TypeOK, disk
<1>7. CASE Fetch
  <2>1. Archive \in Packages \X Versions
    BY <1>7, CurrentItem DEF Fetch, StepsOf, Working
  <2>2. /\ [cache EXCEPT ![Archive] = "none"] \in [Packages \X Versions -> {"none", "good", "bad"}]
        /\ [cache EXCEPT ![Archive] = "good"] \in [Packages \X Versions -> {"none", "good", "bad"}]
        /\ [cache EXCEPT ![Archive] = "bad"] \in [Packages \X Versions -> {"none", "good", "bad"}]
    BY <1>0, <2>1
  <2>3. /\ cache' \in [Packages \X Versions -> {"none", "good", "bad"}]
        /\ cmd' \in Commands /\ faults' \in Nat
    BY <1>0, <1>7, <1>a, <1>b, <1>c, <2>2 DEF Fetch, Going
  <2> QED
    BY <1>0, <1>7, <2>3 DEF TypeOK, Fetch
<1>8. CASE Verify
  <2>1. Archive \in Packages \X Versions
    BY <1>8, CurrentItem DEF Verify, StepsOf, Working
  <2>2. [cache EXCEPT ![Archive] = "none"] \in [Packages \X Versions -> {"none", "good", "bad"}]
    BY <1>0, <2>1
  <2>3. /\ cache' \in [Packages \X Versions -> {"none", "good", "bad"}]
        /\ cmd' \in Commands
    BY <1>0, <1>8, <1>a, <1>b, <2>2 DEF Verify
  <2> QED
    BY <1>0, <1>8, <2>3 DEF TypeOK, Verify
<1>9. CASE Guard
  <2>1. cmd' \in Commands /\ UNCHANGED faults
    BY <1>9, <1>a, <1>b DEF Guard, Going
  <2> QED
    BY <1>0, <1>9, <2>1 DEF TypeOK, Guard, disk
<1>10. CASE RemoveTarget
  <2>1. Package.name \in Packages
    BY <1>10, CurrentItem DEF RemoveTarget, StepsOf, Working
  <2>2. PICK d \in Removed(lib[Package.name]) : lib' = [lib EXCEPT ![Package.name] = d] /\ FaultsIn(d)
    BY <1>10 DEF RemoveTarget
  <2>3. d \in Directories
    BY <1>0, <2>1, DirectoryTypes
  <2>4. lib' \in [Packages -> Directories] /\ faults' \in Nat /\ cmd' \in Commands
    BY <1>0, <1>10, <1>a, <1>b, <1>d, <2>2, <2>3, LibTypes DEF RemoveTarget
  <2> QED
    BY <1>0, <1>10, <2>4 DEF TypeOK, RemoveTarget
<1>11. CASE CreateTarget
  <2>1. Package.name \in Packages /\ Package.version \in Versions
    BY <1>11, CurrentItem DEF CreateTarget, StepsOf, Working
  <2>2. Directory("part", "ez", Package.version, TRUE, FALSE) \in Directories
    BY <2>1, DirectoryTypes
  <2>3. lib' \in [Packages -> Directories] /\ faults' \in Nat /\ cmd' \in Commands
    <3>1. CASE Failing /\ UNCHANGED lib
      BY <1>0, <1>c, <3>1
    <3>2. CASE /\ Going("extract")
               /\ lib' = [lib EXCEPT ![Package.name] =
                     IF @.files = "none" THEN Directory("part", "ez", Package.version, TRUE, FALSE)
                     ELSE @]
      <4>1. PICK d \in Directories : lib' = [lib EXCEPT ![Package.name] = d]
        BY <1>0, <2>1, <2>2, <3>2
      <4> QED
        BY <1>0, <1>a, <1>b, <3>2, <4>1, LibTypes DEF Going
    <3> QED
      BY <1>11, <3>1, <3>2 DEF CreateTarget
  <2> QED
    BY <1>0, <1>11, <2>3 DEF TypeOK, CreateTarget
<1>12. CASE ExtractTarball
  <2>1. cmd.next \in 1..Len(cmd.plan) /\ cmd.next \in Nat
    BY <1>0, <1>12 DEF ExtractTarball, StepsOf, Working, Commands
  <2>2. lib' \in [Packages -> Directories]
    BY <1>12, <2>1, UnpackedTypes DEF ExtractTarball
  <2>3. ASSUME cmd' = [cmd EXCEPT !.next = @ + 1,
                              !.at = IF cmd.next < Len(cmd.plan) THEN "fetch" ELSE "record"]
        PROVE  cmd' \in Commands
    <3>1. PICK at \in Places : cmd' = [cmd EXCEPT !.next = cmd.next + 1, !.at = at]
      BY <1>b, <2>3
    <3>2. cmd.next + 1 \in Nat
      BY <2>1
    <3> QED
      BY <1>0, <3>1, <3>2 DEF Commands
  <2>4. cmd' \in Commands /\ faults' \in Nat
    BY <1>0, <1>12, <1>c, <2>3 DEF ExtractTarball
  <2> QED
    BY <1>0, <1>12, <2>2, <2>4 DEF TypeOK, ExtractTarball
<1>13. CASE RecordManifest
  <2>1. Updated \in Ranges
    BY WrittenTypes
  <2>2. manifest' \in Manifests /\ cmd' \in Commands /\ faults' \in Nat
    BY <1>0, <1>13, <1>a, <1>b, <2>1, TruncatesManifest DEF RecordManifest, Going
  <2> QED
    BY <1>0, <1>13, <2>2 DEF TypeOK, RecordManifest, Manifests
<1>14. CASE WriteManifest
  BY <1>0, <1>14, WritesManifest DEF TypeOK, WriteManifest, Manifests
<1>16. CASE MergeLock
  <2>1. lock' \in Locks /\ cmd' \in Commands /\ faults' \in Nat
    BY <1>16, WrittenTypes, TruncatesLock DEF MergeLock
  <2> QED
    BY <1>0, <1>16, <2>1 DEF TypeOK, MergeLock, Manifests
<1>17. CASE WriteLock
  BY <1>0, <1>17, WritesLock DEF TypeOK, WriteLock, Manifests
<1>18. CASE Delete
  <2>1. cmd.name \in Packages
    BY <1>18 DEF Delete, StepsOf
  <2>2. PICK d \in Removed(lib[cmd.name]) : lib' = [lib EXCEPT ![cmd.name] = d] /\ FaultsIn(d)
    BY <1>18 DEF Delete
  <2>3. d \in Directories
    BY <1>0, <2>1, DirectoryTypes
  <2>4. lib' \in [Packages -> Directories] /\ faults' \in Nat /\ cmd' \in Commands
    BY <1>0, <1>18, <1>a, <1>b, <1>d, <2>2, <2>3, LibTypes DEF Delete
  <2> QED
    BY <1>0, <1>18, <2>4 DEF TypeOK, Delete
<1>19. CASE removeFromLock
  <2>1. lock' \in Locks /\ cmd' \in Commands /\ faults' \in Nat
    BY <1>0, <1>19, <1>a, <1>b, MapOperators, TruncatesLock DEF removeFromLock, Going
  <2> QED
    BY <1>0, <1>19, <2>1 DEF TypeOK, removeFromLock, Manifests
<1>20. CASE Unlist
  <2>1. Without(cmd.deps, cmd.name) \in Ranges
    BY <1>0, MapOperators DEF Commands
  <2>2. manifest' \in Manifests /\ cmd' \in Commands /\ faults' \in Nat
    BY <1>0, <1>20, <1>a, <1>b, <2>1, TruncatesManifest DEF Unlist, Going
  <2> QED
    BY <1>0, <1>20, <2>2 DEF TypeOK, Unlist, Manifests
<1>21. CASE Kill
  <2>1. lib' \in [Packages -> Directories]
    BY <1>21, TornTypes DEF Kill
  <2>2. cmd' \in Commands /\ faults' \in Nat
    BY <1>0, <1>21, <1>a, <1>b DEF Kill
  <2>3. manifest' \in Manifests
    <3>1. [manifest EXCEPT !.torn = TRUE] \in Manifests
      BY <1>0 DEF Manifests
    <3> QED
      BY <1>0, <1>21, <3>1 DEF Kill
  <2> QED
    BY <1>0, <1>21, <2>1, <2>2, <2>3 DEF TypeOK, Kill, Manifests
<1>22. CASE UNCHANGED vars
  BY <1>0, <1>22 DEF TypeOK, vars
<1> QED
  BY <1>1, <1>2, <1>3, <1>4, <1>5, <1>6, <1>7, <1>8, <1>9, <1>10, <1>11, <1>12, <1>13, <1>14,
     <1>16, <1>17, <1>18, <1>19, <1>20, <1>21, <1>22 DEF Next

-----------------------------------------------------------------------------
\* Moving from place to place keeps the command's plan, and its kind when the
\* places are of one kind.
LEMMA MovesInStep ==
  ASSUME TypeOK, StepsOf, PlanSound, NEW at \in Places \ {"resolve", "delete"}, Goto(at),
         at \in {"record", "lock"} \union Working => cmd.op = "install",
         at \in {"unlock", "unlist"} => cmd.op = "uninstall",
         at \in Working => cmd.next \in 1..Len(cmd.plan)
  PROVE  StepsOf' /\ PlanSound'
<1>1. /\ cmd'.at = at /\ cmd'.op = cmd.op /\ cmd'.name = cmd.name /\ cmd'.plan = cmd.plan
      /\ cmd'.next = cmd.next
  BY Moves DEF TypeOK
<1>2. StepsOf'
  BY <1>1 DEF StepsOf, Working
<1>3. PlanSound'
  BY <1>1 DEF PlanSound
<1> QED
  BY <1>2, <1>3

\* A new command has no plan yet.
LEMMA StartsInStep ==
  ASSUME TypeOK, NEW command \in Commands, Start(command), command.plan = <<>>,
         \/ command.op = "install" /\ command.at = "resolve"
         \/ command.op = "uninstall" /\ command.at = "delete" /\ command.name \in Packages
  PROVE  StepsOf' /\ PlanSound'
<1>1. cmd' = command
  BY DEF Start
<1>2. StepsOf'
  BY <1>1 DEF StepsOf, Working
<1>3. 1..Len(cmd'.plan) = {}
  BY <1>1, EmptySeq
<1>4. PlanSound'
  BY <1>3 DEF PlanSound
<1> QED
  BY <1>2, <1>4

\* A step leads from a place of a command to the next place of that command.
LEMMA StepsStep ==
  ASSUME TypeOK, StepsOf, PlanSound, Progress, [Next]_vars
  PROVE  StepsOf' /\ PlanSound'
<1>a. cmd \in Commands /\ Places \ {"resolve", "delete"} =
        {"fetch", "verify", "guard", "remove", "create", "extract", "record",
         "writeManifest", "lock", "writeLock", "unlock", "unlist", "done", "failed", "killed"}
  BY DEF TypeOK, Places
<1>b. Failing => StepsOf' /\ PlanSound'
  BY <1>a, MovesInStep DEF Failing, Working
<1>c. ASSUME cmd.at \in Working, NEW at \in Working, Goto(at)
      PROVE  StepsOf' /\ PlanSound'
  BY <1>a, <1>c, MovesInStep DEF StepsOf, Working
<1>d. ASSUME NEW force \in BOOLEAN, installAll(force)
      PROVE  StepsOf' /\ PlanSound'
  <2> DEFINE all == [NoCommand EXCEPT !.at = "resolve", !.force = force, !.deps = manifest.deps]
  <2>1. all \in Commands /\ all.op = "install" /\ all.at = "resolve" /\ all.plan = <<>>
    BY StartTypes DEF Commands, Places, NoCommand
  <2> HIDE DEF all
  <2> QED
    BY <1>d, <2>1, StartsInStep DEF installAll, all
<1>e. ASSUME NEW p \in Packages, NEW force \in BOOLEAN, installOne(p, force) \/ uninstall(p)
      PROVE  StepsOf' /\ PlanSound'
  <2> DEFINE one == [NoCommand EXCEPT !.at = "resolve", !.force = force, !.added = {p},
                          !.deps = Merged([q \in {p} |-> 0], manifest.deps)]
             un == [NoCommand EXCEPT !.op = "uninstall", !.at = "delete", !.name = p,
                             !.deps = manifest.deps]
  <2>1. one \in Commands /\ one.op = "install" /\ one.at = "resolve" /\ one.plan = <<>>
    BY StartTypes DEF Commands, Places, NoCommand
  <2>2. /\ un \in Commands /\ un.op = "uninstall" /\ un.at = "delete" /\ un.plan = <<>>
        /\ un.name = p
    BY StartTypes DEF Commands, Places, NoCommand
  <2>3. Start(one) \/ Start(un)
    BY <1>e DEF installOne, uninstall
  <2> HIDE DEF one, un
  <2> QED
    BY <2>1, <2>2, <2>3, StartsInStep
<1>1. ASSUME NEW p \in Packages, Publish(p) \/ WriteLocal(p)
      PROVE  StepsOf' /\ PlanSound'
  BY <1>1 DEF Publish, WriteLocal, StepsOf, PlanSound
<1>2. CASE resolvePlan
  <2>1. ASSUME NEW plan \in PlansFor(cmd.deps), cmd' = [cmd EXCEPT !.at = "fetch", !.plan = plan]
        PROVE  StepsOf' /\ PlanSound'
    <3>1. /\ 1 \in 1..Len(plan)
          /\ \A i, j \in 1..Len(plan) : plan[i].name = plan[j].name => i = j
      <4>1. latest \in [Packages -> Versions] /\ cmd.deps \in Ranges /\ DOMAIN cmd.deps # {}
        BY <1>2 DEF TypeOK, Commands, Progress, resolvePlan
      <4> QED
        BY <4>1, PlanTypes
    <3>2. /\ cmd'.at = "fetch" /\ cmd'.plan = plan /\ cmd'.op = cmd.op /\ cmd'.next = cmd.next
      BY <1>a, <2>1 DEF Commands
    <3>3. cmd.op = "install" /\ cmd.next = 1
      BY <1>2 DEF resolvePlan, StepsOf, Progress
    <3>4. StepsOf'
      BY <3>1, <3>2, <3>3 DEF StepsOf, Working
    <3>5. PlanSound'
      BY <3>1, <3>2 DEF PlanSound
    <3> QED
      BY <3>4, <3>5
  <2> QED
    BY <1>2, <1>b, <2>1 DEF resolvePlan
<1>3. CASE Fetch
  BY <1>3, <1>b, <1>c DEF Fetch, Going, Working, Failing
<1>4. CASE Verify
  <2>1. cmd.at \in Working /\ (Goto("failed") \/ Goto("guard"))
    BY <1>4 DEF Verify, Working
  <2> QED
    BY <2>1, <1>a, <1>c, MovesInStep DEF Working
<1>5. CASE Guard
  <2>1. cmd.at \in Working /\ (Goto("failed") \/ Goto("remove"))
    BY <1>5 DEF Guard, Going, Working
  <2> QED
    BY <2>1, <1>a, <1>c, MovesInStep DEF Working
<1>6. CASE RemoveTarget \/ CreateTarget
  BY <1>6, <1>b, <1>c DEF RemoveTarget, CreateTarget, Going, Working
<1>7. CASE ExtractTarball
  <2>1. cmd.op = "install" /\ cmd.next \in 1..Len(cmd.plan) /\ cmd.next \in Nat /\ Len(cmd.plan) \in Nat
    BY <1>7, LenProperties DEF ExtractTarball, StepsOf, Working, TypeOK, Commands
  <2>2. ASSUME cmd' = [cmd EXCEPT !.next = @ + 1,
                              !.at = IF cmd.next < Len(cmd.plan) THEN "fetch" ELSE "record"]
        PROVE  StepsOf' /\ PlanSound'
    <3>1. /\ cmd'.plan = cmd.plan /\ cmd'.op = cmd.op /\ cmd'.next = cmd.next + 1
          /\ cmd'.at = IF cmd.next < Len(cmd.plan) THEN "fetch" ELSE "record"
      BY <1>a, <2>2 DEF Commands
    <3>2. StepsOf'
      BY <2>1, <3>1 DEF StepsOf, Working
    <3>3. PlanSound'
      BY <3>1 DEF PlanSound
    <3> QED
      BY <3>2, <3>3
  <2> QED
    BY <1>7, <1>b, <2>2 DEF ExtractTarball
<1>8. CASE RecordManifest
  <2>1. cmd.op = "install"
    BY <1>8 DEF RecordManifest, StepsOf
  <2>2. CASE TruncateManifest(Updated)
    <3>1. SameCommand /\ cmd'.at \in {"writeManifest", "lock"}
      BY <2>1, <2>2, WrittenTypes, TruncatesManifest, Onward
    <3> QED
      BY <2>1, <3>1 DEF StepsOf, PlanSound, Working, SameCommand
  <2> QED
    BY <1>8, <1>a, <2>1, <2>2, MovesInStep DEF RecordManifest, Going, Working
<1>9. CASE WriteManifest
  <2>1. SameCommand /\ cmd'.at = AfterManifest
    BY <1>9, WritesManifest
  <2> QED
    BY <2>1, Onward DEF StepsOf, PlanSound, Working, SameCommand
<1>10. ASSUME NEW entries \in Locks, TruncateLock(entries)
       PROVE  StepsOf' /\ PlanSound'
  <2>1. SameCommand /\ cmd'.at \in {"writeLock", AfterLock} /\ cmd.op \in {"install", "uninstall"}
    BY <1>a, <1>10, TruncatesLock DEF Commands
  <2> QED
    BY <2>1, Onward DEF StepsOf, PlanSound, Working, SameCommand
<1>11. CASE WriteLock
  <2>1. SameCommand /\ cmd'.at = AfterLock /\ cmd.op \in {"install", "uninstall"}
    BY <1>a, <1>11, WritesLock DEF Commands
  <2> QED
    BY <2>1, Onward DEF StepsOf, PlanSound, Working, SameCommand
<1>12. CASE Delete \/ removeFromLock
  <2>1. cmd.op = "uninstall"
    BY <1>12 DEF Delete, removeFromLock, StepsOf
  <2> QED
    BY <1>12, <1>a, <1>10, <2>1, MovesInStep, MapOperators
       DEF Delete, removeFromLock, Going, Working, TypeOK
<1>13. CASE Unlist
  <2>1. cmd.op = "uninstall"
    BY <1>13 DEF Unlist, StepsOf
  <2>2. CASE TruncateManifest(Without(cmd.deps, cmd.name))
    <3>1. Without(cmd.deps, cmd.name) \in Ranges
      BY <1>a, MapOperators DEF Commands
    <3>2. SameCommand /\ cmd'.at \in {"writeManifest", "done"}
      BY <2>1, <2>2, <3>1, TruncatesManifest, Onward
    <3> QED
      BY <3>2 DEF StepsOf, PlanSound, Working, SameCommand
  <2> QED
    BY <1>13, <1>a, <2>2, MovesInStep DEF Unlist, Going, Working
<1>14. CASE Kill
  BY <1>14, <1>a, MovesInStep DEF Kill, Working
<1>15. CASE UNCHANGED vars
  BY <1>15 DEF vars, StepsOf, PlanSound
<1> QED
  BY <1>1, <1>2, <1>3, <1>4, <1>5, <1>6, <1>7, <1>8, <1>9, <1>10, <1>11, <1>12, <1>13, <1>14,
     <1>15, <1>d, <1>e, WrittenTypes DEF Next, MergeLock

-----------------------------------------------------------------------------
\* Between the comparison of checksums and the unpacking the cached archive
\* stays the published one.
LEMMA ArchiveStep ==
  ASSUME TypeOK, StepsOf, ArchiveVerified, [Next]_vars
  PROVE  ArchiveVerified'
<1>a. cmd \in Commands
  BY DEF TypeOK
<1>b. ASSUME NEW at \in Places \ {"verify", "guard", "remove", "create", "extract"}, Goto(at)
      PROVE  ArchiveVerified'
  BY <1>a, <1>b, Moves DEF ArchiveVerified
<1>c. Places \ {"verify", "guard", "remove", "create", "extract"} =
        {"resolve", "fetch", "record", "writeManifest", "lock", "writeLock", "delete",
         "unlock", "unlist", "done", "failed", "killed"}
  BY DEF Places
<1>d. Failing => ArchiveVerified'
  BY <1>b, <1>c DEF Failing
<1>e. ASSUME NEW at \in {"guard", "remove", "create", "extract"}, Goto(at),
             cache' = cache \/ (cache' = [cache EXCEPT ![Archive] = "good"] /\ cmd.at = "fetch"),
             Package.name \notin Unsummed => cache'[Archive] = "good"
      PROVE  ArchiveVerified'
  <2>1. cmd'.at = at /\ cmd'.plan = cmd.plan /\ cmd'.next = cmd.next
    BY <1>a, <1>e, Moves DEF Places
  <2>2. Package' = Package /\ Archive' = Archive
    BY <2>1 DEF Package, Archive
  <2> QED
    BY <1>e, <2>1, <2>2 DEF ArchiveVerified
<1>1. CASE Fetch
  <2>1. CASE HaveValid /\ Going("guard") /\ UNCHANGED cache
    BY <1>e, <2>1 DEF HaveValid, Going
  <2>2. CASE Goto("verify") /\ \E got \in {"good", "bad"} : cache' = [cache EXCEPT ![Archive] = got]
    <3>1. Archive \in DOMAIN cache
      BY <1>1, CurrentItem DEF Fetch, StepsOf, Working, TypeOK
    <3>2. cmd'.at = "verify" /\ cmd'.plan = cmd.plan /\ cmd'.next = cmd.next
      BY <1>a, <2>2, Moves DEF Places
    <3>3. Package' = Package /\ Archive' = Archive
      BY <3>2 DEF Package, Archive
    <3> QED
      BY <2>2, <3>1, <3>2, <3>3 DEF ArchiveVerified
  <2> QED
    BY <1>1, <1>d, <2>1, <2>2 DEF Fetch, Going
<1>2. CASE Verify
  <2>1. Archive \in Packages \X Versions /\ Archive \in DOMAIN cache
        /\ cache[Archive] \in {"good", "bad"}
    BY <1>2, CurrentItem DEF Verify, StepsOf, Working, TypeOK, ArchiveVerified
  <2>2. CASE Package.name \notin Unsummed /\ cache[Archive] = "bad"
    BY <1>2, <1>b, <1>c, <2>2 DEF Verify
  <2>3. CASE ~(Package.name \notin Unsummed /\ cache[Archive] = "bad")
    <3>1. Goto("guard") /\ UNCHANGED cache
      BY <1>2, <2>3 DEF Verify
    <3>2. Package.name \notin Unsummed => cache[Archive] = "good"
      BY <1>2, <2>1, <2>3 DEF Verify
    <3> QED
      BY <1>e, <3>1, <3>2
  <2> QED
    BY <2>2, <2>3
<1>3. CASE Guard \/ RemoveTarget \/ CreateTarget
  <2>1. Package.name \notin Unsummed => cache[Archive] = "good"
    BY <1>3 DEF Guard, RemoveTarget, CreateTarget, ArchiveVerified
  <2>2. UNCHANGED cache
    BY <1>3 DEF Guard, RemoveTarget, CreateTarget, disk
  <2>3. Failing \/ Goto("failed") \/ Goto("remove") \/ Goto("create") \/ Goto("extract")
    BY <1>3 DEF Guard, RemoveTarget, CreateTarget, Going
  <2> QED
    BY <1>b, <1>c, <1>d, <1>e, <2>1, <2>2, <2>3
<1>4. CASE ExtractTarball
  <2>1. CASE cmd' = [cmd EXCEPT !.next = @ + 1,
                          !.at = IF cmd.next < Len(cmd.plan) THEN "fetch" ELSE "record"]
    <3>1. cmd'.at \in {"fetch", "record"}
      BY <1>a, <2>1 DEF Commands
    <3> QED
      BY <3>1 DEF ArchiveVerified
  <2> QED
    BY <1>4, <1>d, <2>1 DEF ExtractTarball
<1>5. ASSUME cmd'.at \notin {"verify", "guard", "remove", "create", "extract"}
      PROVE  ArchiveVerified'
  BY <1>5 DEF ArchiveVerified
<1>6. CASE resolvePlan
  <2>1. \A plan : cmd' = [cmd EXCEPT !.at = "fetch", !.plan = plan] => cmd'.at = "fetch"
    BY <1>a DEF Commands
  <2> QED
    BY <1>6, <1>5, <1>d, <2>1 DEF resolvePlan
<1>7. ASSUME NEW command, Start(command), command.at \in {"resolve", "delete"}
      PROVE  ArchiveVerified'
  BY <1>5, <1>7 DEF Start
<1>8. ASSUME NEW p \in Packages, uninstall(p)
      PROVE  ArchiveVerified'
  <2>1. [NoCommand EXCEPT !.op = "uninstall", !.at = "delete", !.name = p,
                             !.deps = manifest.deps].at = "delete"
    BY DEF NoCommand
  <2> QED
    BY <1>7, <1>8, <2>1 DEF uninstall
<1>9. ASSUME NEW force \in BOOLEAN, installAll(force)
      PROVE  ArchiveVerified'
  <2>1. [NoCommand EXCEPT !.at = "resolve", !.force = force, !.deps = manifest.deps].at = "resolve"
    BY DEF NoCommand
  <2> QED
    BY <1>7, <1>9, <2>1 DEF installAll
<1>10. ASSUME NEW force \in BOOLEAN, NEW p \in Packages, installOne(p, force)
       PROVE  ArchiveVerified'
  <2>1. [NoCommand EXCEPT !.at = "resolve", !.force = force, !.added = {p},
                          !.deps = Merged([q \in {p} |-> 0], manifest.deps)].at = "resolve"
    BY DEF NoCommand
  <2> QED
    BY <1>7, <1>10, <2>1 DEF installOne
<1>11. CASE RecordManifest \/ Unlist
  <2>1. ASSUME NEW deps \in Ranges, TruncateManifest(deps)
        PROVE  cmd'.at \in {"writeManifest", "lock", "done"}
    BY <2>1, TruncatesManifest, Onward
  <2>2. Updated \in Ranges /\ Without(cmd.deps, cmd.name) \in Ranges
    BY <1>a, WrittenTypes, MapOperators DEF Commands
  <2> QED
    BY <1>11, <1>5, <1>b, <1>c, <2>1, <2>2 DEF RecordManifest, Unlist, Going
<1>12. CASE MergeLock \/ removeFromLock
  <2>1. ASSUME NEW entries \in Locks, TruncateLock(entries)
        PROVE  cmd'.at \in {"writeLock", "done", "unlist"}
    BY <2>1, TruncatesLock, Onward
  <2>2. Entries \in Locks /\ Without(lock, cmd.name) \in Locks
    BY WrittenTypes, MapOperators DEF TypeOK
  <2> QED
    BY <1>12, <1>5, <1>b, <1>c, <2>1, <2>2 DEF MergeLock, removeFromLock, Going
<1>13. CASE WriteManifest \/ WriteLock \/ Delete \/ Kill
  <2>1. WriteManifest \/ WriteLock => cmd'.at \in {"lock", "done", "unlist"}
    BY WritesManifest, WritesLock, Onward
  <2> QED
    BY <1>13, <1>5, <1>b, <1>c, <2>1 DEF Delete, Kill
<1>14. CASE UNCHANGED <<cmd, cache>>
  BY <1>14 DEF ArchiveVerified, Package, Archive
<1> QED
  BY <1>1, <1>2, <1>3, <1>4, <1>6, <1>8, <1>9, <1>10, <1>11, <1>12, <1>13, <1>14
     DEF Next, vars, Publish, WriteLocal, disk

\* What is unpacked for a package with a checksum is what the registry
\* published, and nothing else writes an archive's contents.
LEMMA VerifiedStep ==
  ASSUME TypeOK, StepsOf, ArchiveVerified, OnlyVerifiedUnpacked, [Next]_vars
  PROVE  OnlyVerifiedUnpacked'
<1>a. lib \in [Packages -> Directories] /\ \A p \in Packages : lib[p] \in Directories
  BY DEF TypeOK
<1>b. UNCHANGED lib => OnlyVerifiedUnpacked'
  BY DEF OnlyVerifiedUnpacked
<1>c. ASSUME NEW p \in Packages, NEW d \in Directories, lib' = [lib EXCEPT ![p] = d],
             lib[p].good => d.good
      PROVE  OnlyVerifiedUnpacked'
  BY <1>a, <1>c DEF OnlyVerifiedUnpacked
<1>d. ASSUME cmd.at = "extract", NEW files \in {"part", "whole"}, lib' = Unpacked(files)
      PROVE  OnlyVerifiedUnpacked'
  <2>1. cmd.next \in 1..Len(cmd.plan)
    BY <1>d DEF StepsOf, Working
  <2>2. Package.name \in Packages
    BY <2>1, CurrentItem
  <2>3. Package.name \notin Unsummed => cache[Archive] = "good"
    BY <1>d DEF ArchiveVerified
  <2> QED
    BY <1>d, <2>1, <2>2, <2>3, UnpackedTypes DEF OnlyVerifiedUnpacked
<1>1. ASSUME NEW p \in Packages, WriteLocal(p)
      PROVE  OnlyVerifiedUnpacked'
  BY <1>1, <1>c, DirectoryTypes DEF WriteLocal
<1>2. CASE RemoveTarget
  <2>1. Package.name \in Packages
    BY <1>2, CurrentItem DEF RemoveTarget, StepsOf, Working
  <2>2. PICK d \in Removed(lib[Package.name]) : lib' = [lib EXCEPT ![Package.name] = d]
    BY <1>2 DEF RemoveTarget
  <2>3. d \in Directories /\ (lib[Package.name].good => d.good)
    BY <1>a, <2>1, DirectoryTypes
  <2> QED
    BY <1>c, <2>1, <2>2, <2>3
<1>3. CASE CreateTarget
  <2>1. Package.name \in Packages /\ Package.version \in Versions
    BY <1>3, CurrentItem DEF CreateTarget, StepsOf, Working
  <2>2. /\ Directory("part", "ez", Package.version, TRUE, FALSE) \in Directories
        /\ Directory("part", "ez", Package.version, TRUE, FALSE).good
    BY <2>1, DirectoryTypes
  <2>3. UNCHANGED lib \/ \E d \in Directories : /\ lib' = [lib EXCEPT ![Package.name] = d]
                                                /\ lib[Package.name].good => d.good
    BY <1>3, <1>a, <2>1, <2>2 DEF CreateTarget
  <2> QED
    BY <1>b, <1>c, <2>1, <2>3
<1>4. CASE ExtractTarball
  BY <1>4, <1>d DEF ExtractTarball
<1>5. CASE Delete
  <2>1. cmd.name \in Packages
    BY <1>5 DEF Delete, StepsOf
  <2>2. PICK d \in Removed(lib[cmd.name]) : lib' = [lib EXCEPT ![cmd.name] = d]
    BY <1>5 DEF Delete
  <2>3. d \in Directories /\ (lib[cmd.name].good => d.good)
    BY <1>a, <2>1, DirectoryTypes
  <2> QED
    BY <1>c, <2>1, <2>2, <2>3
<1>6. CASE Kill
  <2>1. lib' \in Torn
    BY <1>6 DEF Kill
  <2>2. cmd.at = "extract" /\ Package.name \notin Unsummed => cache[Archive] = "good"
    BY DEF ArchiveVerified
  <2> QED
    BY <2>1, <2>2, TornTypes DEF OnlyVerifiedUnpacked
<1>7. ASSUME NEW p, NEW force, uninstall(p) \/ installAll(force) \/ installOne(p, force)
      PROVE  UNCHANGED lib
  BY <1>7 DEF uninstall, installAll, installOne, Start, disk
<1>8. ASSUME NEW p \in Packages, Publish(p)
      PROVE  UNCHANGED lib
  BY <1>8 DEF Publish, disk
<1>9. CASE \/ resolvePlan \/ Fetch \/ Verify \/ Guard \/ RecordManifest \/ WriteManifest \/ MergeLock
           \/ WriteLock \/ removeFromLock \/ Unlist \/ UNCHANGED vars
  <2>1. UNCHANGED lib
    BY <1>9 DEF resolvePlan, Fetch, Verify, Guard, RecordManifest, WriteManifest, MergeLock,
       WriteLock, removeFromLock, Unlist, vars, disk
  <2> QED
    BY <1>b, <2>1
<1> QED
  BY <1>b, <1>1, <1>2, <1>3, <1>4, <1>5, <1>6, <1>7, <1>8, <1>9 DEF Next

-----------------------------------------------------------------------------
\* While one package of the plan is being installed the others stay.
LEMMA WorkStep ==
  ASSUME TypeOK, StepsOf, PlanSound, Progress, cmd.at \in Working,
         NEW at \in Working, Goto(at), UNCHANGED <<lock, manifest, before>>,
         \A p \in Packages : p # Package.name => lib'[p] = lib[p]
  PROVE  Progress'
<1>1. /\ cmd'.at = at /\ cmd'.op = cmd.op /\ cmd'.plan = cmd.plan /\ cmd'.next = cmd.next
      /\ cmd'.added = cmd.added /\ cmd'.deps = cmd.deps
  BY Moves DEF TypeOK, Working, Places
<1>2. cmd.op = "install" /\ cmd.next \in 1..Len(cmd.plan) /\ cmd.plan \in Seq(Items)
  BY DEF StepsOf, TypeOK, Commands
<1>3. LibProgress'
  <2>1. ASSUME NEW p \in Packages, ~InPlan(p)
        PROVE  lib'[p] = before.lib[p]
    <3>1. p # Package.name
      BY <1>2, <2>1, CurrentItem
    <3>2. lib[p] = before.lib[p]
      BY <1>2, <2>1 DEF Progress, LibProgress
    <3> QED
      BY <3>1, <3>2
  <2>2. ASSUME NEW i \in 1..Len(cmd.plan), i < cmd.next
        PROVE  Placed(i)'
    <3>1. Placed(i)
      BY <1>2, <2>2 DEF Progress, LibProgress
    <3>2. cmd.plan[i].name # Package.name
      BY <1>2, <2>2 DEF PlanSound, Package
    <3>3. cmd.plan[i].name \in Packages
      BY PlannedItem
    <3> QED
      BY <1>1, <3>1, <3>2, <3>3 DEF Placed
  <2> QED
    BY <1>1, <2>1, <2>2 DEF LibProgress, InPlan, Working, Recording
<1>4. LockProgress'
  BY <1>1, <1>2 DEF Progress, LockProgress, Working
<1>5. ManifestProgress'
  BY <1>1, <1>2 DEF Progress, ManifestProgress, Working
<1> QED
  BY <1>1, <1>3, <1>4, <1>5 DEF Progress, Working

\* Unpacking a package completes it and goes on to the next.
LEMMA UnpackStep ==
  ASSUME TypeOK, StepsOf, PlanSound, Progress, cmd.at = "extract",
         UNCHANGED <<lock, manifest, before>>, lib' = Unpacked("whole"),
         cmd' = [cmd EXCEPT !.next = @ + 1,
                            !.at = IF cmd.next < Len(cmd.plan) THEN "fetch" ELSE "record"]
  PROVE  Progress'
<1>1. /\ cmd'.at = IF cmd.next < Len(cmd.plan) THEN "fetch" ELSE "record"
      /\ cmd'.op = cmd.op /\ cmd'.plan = cmd.plan /\ cmd'.next = cmd.next + 1
      /\ cmd'.added = cmd.added /\ cmd'.deps = cmd.deps
  BY DEF TypeOK, Commands
<1>2. /\ cmd.op = "install" /\ cmd.next \in 1..Len(cmd.plan) /\ cmd.plan \in Seq(Items)
      /\ Len(cmd.plan) \in Nat /\ cmd.next \in Nat
  BY LenProperties DEF StepsOf, TypeOK, Commands, Working
<1>3. LibProgress'
  <2>1. ASSUME NEW p \in Packages, ~InPlan(p)
        PROVE  lib'[p] = before.lib[p]
    <3>1. p # Package.name
      BY <1>2, <2>1, CurrentItem
    <3>2. lib[p] = before.lib[p]
      BY <1>2, <2>1 DEF Progress, LibProgress, Working
    <3> QED
      BY <1>2, <3>1, <3>2, UnpackedTypes
  <2>2. ASSUME NEW i \in 1..Len(cmd.plan), i <= cmd.next
        PROVE  Placed(i)'
    <3>1. CASE i = cmd.next
      BY <1>1, <1>2, <3>1, UnpackedTypes DEF Placed, Package
    <3>2. CASE i # cmd.next
      <4>1. Placed(i)
        BY <1>2, <2>2, <3>2 DEF Progress, LibProgress, Working
      <4>2. cmd.plan[i].name # Package.name
        BY <1>2, <3>2 DEF PlanSound, Package
      <4>3. cmd.plan[i].name \in Packages
        BY PlannedItem
      <4>4. lib'[cmd.plan[i].name] = lib[cmd.plan[i].name]
        BY <1>2, <4>2, <4>3, UnpackedTypes
      <4> QED
        BY <1>1, <4>1, <4>4 DEF Placed
    <3> QED
      BY <3>1, <3>2
  <2>3. \A i \in 1..Len(cmd.plan) : i < cmd.next + 1 => Placed(i)'
    BY <1>2, <2>2
  <2>4. cmd'.at = "record" => \A i \in 1..Len(cmd.plan) : Placed(i)'
    BY <1>1, <1>2, <2>3
  <2> QED
    BY <1>1, <2>1, <2>3, <2>4 DEF LibProgress, InPlan, Working, Recording
<1>4. LockProgress'
  BY <1>1, <1>2 DEF Progress, LockProgress, Working
<1>5. ManifestProgress'
  BY <1>1, <1>2 DEF Progress, ManifestProgress
<1> QED
  BY <1>1, <1>3, <1>4, <1>5 DEF Progress

\* Once everything is unpacked an install only records what it did.
LEMMA RecordStep ==
  ASSUME TypeOK, Progress, cmd.op = "install", cmd.at \in Recording, cmd'.at \in Recording,
         cmd'.op = cmd.op, cmd'.plan = cmd.plan, UNCHANGED <<lib, before>>
  PROVE  LibProgress'
  BY DEF Progress, LibProgress, InPlan, Placed, Recording, Working

\* The plan merged into the lock.
LEMMA MergedRecords ==
  ASSUME TypeOK, PlanSound, lock = before.lock
  PROVE  Recorded(Entries)
<1> DEFINE names == {cmd.plan[i].name : i \in 1..Len(cmd.plan)}
<1>1. /\ DOMAIN PlanEntries = names /\ DOMAIN Entries = names \union DOMAIN lock
      /\ \A p \in names : Entries[p] = Entry(cmd.plan[Chosen(p)])
      /\ \A p \in DOMAIN lock \ names : Entries[p] = lock[p]
  BY DEF Entries, Merged, PlanEntries
<1>2. ASSUME NEW i \in 1..Len(cmd.plan)
      PROVE  /\ cmd.plan[i].name \in DOMAIN Entries
             /\ Entries[cmd.plan[i].name].version = cmd.plan[i].version
             /\ cmd.plan[i].direct => Entries[cmd.plan[i].name].direct
  <2>1. InPlan(cmd.plan[i].name)
    BY DEF InPlan
  <2>2. Chosen(cmd.plan[i].name) = i
    BY <2>1, ChosenItem DEF PlanSound
  <2>3. Entries[cmd.plan[i].name] = Entry(cmd.plan[i])
    BY <1>1, <2>2
  <2>4. cmd.plan[i].name \in DOMAIN Entries
    BY <1>1
  <2>5. /\ Entry(cmd.plan[i]).version = cmd.plan[i].version
        /\ cmd.plan[i].direct => Entry(cmd.plan[i]).direct
    <3>1. cmd.plan[i].direct \in BOOLEAN
      BY PlannedItem DEF Items
    <3> QED
      BY <3>1 DEF Entry
  <2> QED
    BY <2>3, <2>4, <2>5
<1>3. ASSUME NEW p \in Packages, ~InPlan(p)
      PROVE  /\ (p \in DOMAIN Entries) = (p \in DOMAIN before.lock)
             /\ p \in DOMAIN Entries => Entries[p] = before.lock[p]
  BY <1>1, <1>3 DEF InPlan
<1> QED
  BY <1>2, <1>3 DEF Recorded

-----------------------------------------------------------------------------
\* A step of an install that goes well brings it one step on; a command that
\* fails or is killed leaves nothing to say.
LEMMA ProgressStep ==
  ASSUME TypeOK, StepsOf, PlanSound, Progress, [Next]_vars
  PROVE  Progress'
<1>a. cmd \in Commands
  BY DEF TypeOK
<1>b. ASSUME cmd'.at \in {"failed", "killed"}, cmd'.op = cmd.op, cmd'.added = cmd.added,
             cmd'.deps = cmd.deps
      PROVE  Progress'
  <2>1. cmd'.op = "install" => LibProgress' /\ LockProgress'
    BY <1>b DEF LibProgress, LockProgress, Working, Recording
  <2>2. cmd'.op = "install" => ManifestProgress'
    BY <1>b DEF Progress, ManifestProgress
  <2> QED
    BY <1>b, <2>1, <2>2 DEF Progress
<1>c. Failing \/ Goto("failed") \/ Goto("killed") => Progress'
  BY <1>a, <1>b, Moves DEF Failing, Places
<1>d. ASSUME cmd'.op = "uninstall", cmd'.at # "resolve"
      PROVE  Progress'
  BY <1>d DEF Progress
<1>e. ASSUME NEW command \in Commands, Start(command), command.at = "resolve",
             command.op = "install", command.plan = <<>>, command.next = 1,
             command.added \subseteq DOMAIN command.deps, DOMAIN command.deps # {}
      PROVE  Progress'
  <2>1. cmd' = command /\ before' = [lib |-> lib, lock |-> lock] /\ lib' = lib /\ lock' = lock
    BY <1>e DEF Start, disk
  <2>2. LibProgress'
    BY <1>e, <2>1 DEF LibProgress, Working, Recording
  <2>3. LockProgress'
    BY <1>e, <2>1 DEF LockProgress, Working
  <2>4. ManifestProgress'
    BY <1>e, <2>1 DEF ManifestProgress
  <2> QED
    BY <1>e, <2>1, <2>2, <2>3, <2>4 DEF Progress
<1>1. ASSUME NEW p \in Packages, uninstall(p)
      PROVE  Progress'
  <2>1. cmd'.op = "uninstall" /\ cmd'.at = "delete"
    BY <1>1 DEF uninstall, Start, NoCommand
  <2> QED
    BY <1>d, <2>1
<1>2. ASSUME NEW force \in BOOLEAN, installAll(force)
      PROVE  Progress'
  <2> DEFINE all == [NoCommand EXCEPT !.at = "resolve", !.force = force, !.deps = manifest.deps]
  <2>1. /\ all \in Commands /\ all.op = "install" /\ all.at = "resolve" /\ all.plan = <<>>
        /\ all.next = 1 /\ all.added = {} /\ all.deps = manifest.deps
    BY StartTypes DEF Commands, Places, NoCommand
  <2>2. DOMAIN manifest.deps # {}
    <3>1. PICK D \in SUBSET Packages : manifest.deps \in [D -> 0..MaxVersion]
      BY StartTypes DEF Ranges
    <3>2. manifest.deps # Empty
      BY <1>2 DEF installAll
    <3> QED
      BY <3>1, <3>2 DEF Empty
  <2> HIDE DEF all
  <2> QED
    BY <1>2, <1>e, <2>1, <2>2 DEF installAll, all
<1>3. ASSUME NEW force \in BOOLEAN, NEW p \in Packages, installOne(p, force)
      PROVE  Progress'
  <2> DEFINE one == [NoCommand EXCEPT !.at = "resolve", !.force = force, !.added = {p},
                          !.deps = Merged([q \in {p} |-> 0], manifest.deps)]
  <2>1. /\ one \in Commands /\ one.op = "install" /\ one.at = "resolve" /\ one.plan = <<>>
        /\ one.next = 1 /\ one.added = {p}
        /\ one.deps = Merged([q \in {p} |-> 0], manifest.deps)
    BY StartTypes DEF Commands, Places, NoCommand
  <2>2. p \in DOMAIN one.deps
    BY <2>1, StartTypes
  <2> HIDE DEF one
  <2> QED
    BY <1>3, <1>e, <2>1, <2>2 DEF installOne, one
<1>4. ASSUME NEW p \in Packages, WriteLocal(p)
      PROVE  Progress'
  <2>1. /\ cmd.at \in {"done", "failed", "killed"} /\ lib[p].files = "none"
        /\ lib' = [lib EXCEPT ![p] = Local] /\ before' = [before EXCEPT !.lib[p] = Local]
        /\ UNCHANGED <<lock, manifest, cmd>>
    BY <1>4 DEF WriteLocal, Over
  <2>2. /\ lib \in [Packages -> Directories] /\ before \in [lib : [Packages -> Directories], lock : Locks]
    BY DEF TypeOK
  <2>3. /\ \A q \in Packages : q # p => lib'[q] = lib[q] /\ before'.lib[q] = before.lib[q]
        /\ lib'[p] = before'.lib[p] /\ before'.lock = before.lock
    BY <2>1, <2>2
  <2>4. CASE cmd.at = "done" /\ cmd.op = "install"
    <3>1. LibProgress'
      <4>1. \A q \in Packages : ~InPlan(q) => lib'[q] = before'.lib[q]
        BY <2>3, <2>4 DEF Progress, LibProgress, Recording
      <4>2. ASSUME NEW i \in 1..Len(cmd.plan)
            PROVE  Placed(i)'
        <5>1. Placed(i)
          BY <2>4 DEF Progress, LibProgress, Recording
        <5>2. cmd.plan[i].name # p
          BY <2>1, <5>1 DEF Placed
        <5>3. cmd.plan[i].name \in Packages
          BY PlannedItem
        <5> QED
          BY <2>1, <2>3, <5>1, <5>2, <5>3 DEF Placed
      <4> QED
        BY <2>1, <2>4, <4>1, <4>2 DEF LibProgress, InPlan, Working
    <3>2. LockProgress' /\ ManifestProgress'
      <4>1. ("ez.lock" \in cmd.unwritten \/ Recorded(lock))'
        BY <2>1, <2>3, <2>4 DEF Progress, LockProgress, Recorded, InPlan
      <4> QED
        BY <2>1, <2>4, <4>1 DEF Progress, LockProgress, ManifestProgress, Working
    <3> QED
      BY <2>1, <2>4, <3>1, <3>2 DEF Progress
  <2> QED
    BY <1>b, <1>d, <2>1, <2>4, <1>a DEF Commands
<1>5. CASE resolvePlan
  <2>1. /\ cmd.at = "resolve" /\ cmd.op = "install" /\ cmd.plan = <<>> /\ cmd.next = 1
        /\ UNCHANGED <<lib, lock, manifest, before>>
    BY <1>5 DEF resolvePlan, disk, Progress, StepsOf
  <2>2. ASSUME NEW plan, cmd' = [cmd EXCEPT !.at = "fetch", !.plan = plan]
        PROVE  Progress'
    <3>1. /\ cmd'.at = "fetch" /\ cmd'.op = "install" /\ cmd'.next = 1
          /\ cmd'.added = cmd.added /\ cmd'.deps = cmd.deps
      BY <1>a, <2>1, <2>2 DEF Commands
    <3>2. \A p \in Packages : lib[p] = before.lib[p]
      BY <2>1 DEF Progress, LibProgress, InPlan
    <3>3. LibProgress'
      BY <2>1, <3>1, <3>2 DEF LibProgress, Working, Recording
    <3>4. LockProgress' /\ ManifestProgress'
      BY <2>1, <3>1 DEF Progress, LockProgress, ManifestProgress, Working
    <3> QED
      BY <3>1, <3>3, <3>4 DEF Progress
  <2> QED
    BY <1>5, <1>c, <2>2 DEF resolvePlan
<1>6. CASE Fetch \/ Verify \/ Guard
  <2>1. cmd.at \in Working /\ UNCHANGED <<lib, lock, manifest, before>>
    BY <1>6 DEF Fetch, Verify, Guard, Working, disk
  <2>2. Failing \/ Goto("failed") \/ \E at \in Working : Goto(at)
    BY <1>6 DEF Fetch, Verify, Guard, Going, Working
  <2> QED
    BY <1>c, <2>1, <2>2, WorkStep
<1>7. CASE RemoveTarget \/ CreateTarget
  <2>1. /\ cmd.at \in Working /\ UNCHANGED <<lock, manifest, before>>
        /\ \A p \in Packages : p # Package.name => lib'[p] = lib[p]
    <3>1. lib \in [Packages -> Directories]
      BY DEF TypeOK
    <3> QED
      BY <1>7, <3>1 DEF RemoveTarget, CreateTarget, Working
  <2>2. Failing \/ \E at \in Working : Goto(at)
    BY <1>7 DEF RemoveTarget, CreateTarget, Going, Working
  <2> QED
    BY <1>c, <2>1, <2>2, WorkStep
<1>8. CASE ExtractTarball
  BY <1>8, <1>c, UnpackStep DEF ExtractTarball
<1>9. CASE RecordManifest
  <2>1. cmd.at = "record" /\ cmd.op = "install" /\ UNCHANGED <<lib, lock, before>>
    BY <1>9 DEF RecordManifest, StepsOf
  <2>2. CASE cmd.added # {} /\ manifest.exists /\ TruncateManifest(Updated)
    <3>1. /\ SameCommand
          /\ \/ cmd'.at = "lock" /\ cmd'.deps = cmd.deps /\ "package.ez" \in cmd'.unwritten
             \/ cmd'.at = "writeManifest" /\ cmd'.deps = Updated
      BY <2>1, <2>2, WrittenTypes, TruncatesManifest, Onward
    <3>2. LibProgress'
      BY <2>1, <3>1, RecordStep DEF Recording, SameCommand
    <3>3. LockProgress'
      BY <2>1, <3>1 DEF Progress, LockProgress, Working, SameCommand
    <3>4. ManifestProgress'
      BY <2>1, <3>1, WrittenTypes DEF Progress, ManifestProgress, SameCommand
    <3> QED
      BY <3>1, <3>2, <3>3, <3>4 DEF Progress
  <2>3. CASE Goto("lock") /\ UNCHANGED manifest /\ ~(cmd.added # {} /\ manifest.exists)
    <3>1. /\ cmd'.at = "lock" /\ cmd'.op = cmd.op /\ cmd'.plan = cmd.plan
          /\ cmd'.added = cmd.added /\ cmd'.deps = cmd.deps
      BY <1>a, <2>3, Moves DEF Places
    <3>2. LibProgress'
      BY <2>1, <3>1, RecordStep DEF Recording
    <3>3. LockProgress' /\ ManifestProgress'
      BY <2>1, <2>3, <3>1 DEF Progress, LockProgress, ManifestProgress, Working
    <3> QED
      BY <3>1, <3>2, <3>3 DEF Progress
  <2> QED
    BY <1>9, <2>2, <2>3 DEF RecordManifest, Going
<1>10. CASE WriteManifest
  <2>1. /\ SameCommand /\ cmd'.at = AfterManifest /\ cmd'.deps = cmd.deps
        /\ "package.ez" \in cmd'.unwritten \/ manifest'.deps = cmd.deps
        /\ UNCHANGED <<lib, lock, before>> /\ cmd.at = "writeManifest"
    BY <1>10, WritesManifest DEF WriteManifest
  <2>2. CASE cmd.op = "install"
    <3>1. cmd'.at = "lock"
      BY <2>1, <2>2, Onward
    <3>2. LibProgress'
      BY <2>1, <2>2, <3>1, RecordStep DEF Recording, SameCommand
    <3>3. LockProgress' /\ ManifestProgress'
      BY <2>1, <2>2, <3>1 DEF Progress, LockProgress, ManifestProgress, Working, SameCommand
    <3> QED
      BY <3>1, <3>2, <3>3 DEF Progress
  <2>3. CASE cmd.op # "install"
    BY <2>1, <2>3, Onward DEF Progress, SameCommand
  <2> QED
    BY <2>2, <2>3
<1>11. CASE MergeLock
  <2>1. /\ cmd.at = "lock" /\ cmd.op = "install" /\ lock = before.lock
        /\ UNCHANGED <<lib, manifest, before>>
    BY <1>11 DEF MergeLock, StepsOf, Progress, LockProgress
  <2>2. /\ SameCommand /\ cmd'.deps = cmd.deps
        /\ \/ cmd'.at = "done" /\ "ez.lock" \in cmd'.unwritten
           \/ cmd'.at = "writeLock" /\ cmd'.entries = Entries
    BY <1>11, <2>1, WrittenTypes, TruncatesLock, Onward DEF MergeLock
  <2>3. LibProgress'
    BY <2>1, <2>2, RecordStep DEF Recording, SameCommand
  <2>4. cmd'.at = "writeLock" => Recorded(cmd.entries)'
    <3>1. Recorded(Entries)
      BY <2>1, MergedRecords
    <3> QED
      BY <2>1, <2>2, <3>1 DEF Recorded, InPlan, SameCommand
  <2>5. LockProgress'
    BY <2>1, <2>2, <2>4 DEF LockProgress, Working, SameCommand
  <2>6. ManifestProgress'
    BY <2>1, <2>2 DEF Progress, ManifestProgress, SameCommand
  <2> QED
    BY <2>2, <2>3, <2>5, <2>6 DEF Progress
<1>12. CASE WriteLock
  <2>1. /\ SameCommand /\ cmd'.at = AfterLock /\ cmd'.deps = cmd.deps
        /\ "ez.lock" \in cmd'.unwritten \/ lock' = cmd.entries
        /\ UNCHANGED <<lib, manifest, before>> /\ cmd.at = "writeLock"
    BY <1>12, WritesLock DEF WriteLock
  <2>2. CASE cmd.op = "install"
    <3>1. cmd'.at = "done"
      BY <2>1, <2>2, Onward
    <3>2. LibProgress'
      BY <2>1, <2>2, <3>1, RecordStep DEF Recording, SameCommand
    <3>3. ("ez.lock" \in cmd.unwritten \/ Recorded(lock))'
      <4>1. Recorded(cmd.entries)
        BY <2>1, <2>2 DEF Progress, LockProgress
      <4> QED
        BY <2>1, <4>1 DEF Recorded, InPlan, SameCommand
    <3>4. LockProgress' /\ ManifestProgress'
      BY <2>1, <2>2, <3>1, <3>3 DEF Progress, LockProgress, ManifestProgress, Working, SameCommand
    <3> QED
      BY <3>1, <3>2, <3>4 DEF Progress
  <2>3. CASE cmd.op # "install"
    BY <2>1, <2>3, Onward DEF Progress, SameCommand
  <2> QED
    BY <2>2, <2>3
<1>13. CASE Delete \/ removeFromLock \/ Unlist
  <2>1. cmd.op = "uninstall"
    BY <1>13 DEF Delete, removeFromLock, Unlist, StepsOf
  <2>2. /\ Updated \in Ranges /\ Without(cmd.deps, cmd.name) \in Ranges
        /\ Without(lock, cmd.name) \in Locks
    BY <1>a, WrittenTypes, MapOperators DEF Commands, TypeOK
  <2>3. ASSUME NEW deps \in Ranges, TruncateManifest(deps)
        PROVE  cmd'.op = cmd.op /\ cmd'.at # "resolve"
    BY <2>3, TruncatesManifest, Onward DEF SameCommand
  <2>4. ASSUME NEW entries \in Locks, TruncateLock(entries)
        PROVE  cmd'.op = cmd.op /\ cmd'.at # "resolve"
    BY <2>4, TruncatesLock, Onward DEF SameCommand
  <2>5. ASSUME NEW at \in {"unlock", "unlist", "done"}, Goto(at)
        PROVE  cmd'.op = cmd.op /\ cmd'.at # "resolve"
    BY <1>a, <2>5, Moves DEF Places
  <2>6. cmd'.op = cmd.op /\ cmd'.at # "resolve"
    BY <1>13, <2>2, <2>3, <2>4, <2>5 DEF Delete, removeFromLock, Unlist, Going
  <2> QED
    BY <1>d, <2>1, <2>6
<1>14. CASE Kill
  BY <1>14, <1>c DEF Kill
<1>15. ASSUME UNCHANGED <<lib, lock, manifest, cmd, before>>
       PROVE  Progress'
  BY <1>15 DEF Progress, LibProgress, LockProgress, ManifestProgress, InPlan, Placed, Recorded
<1> QED
  BY <1>1, <1>2, <1>3, <1>4, <1>5, <1>6, <1>7, <1>8, <1>9, <1>10, <1>11, <1>12, <1>13, <1>14, <1>15
     DEF Next, vars, Publish, disk

-----------------------------------------------------------------------------
\* Nothing is installed and no command has run.
LEMMA InitInv ==
  ASSUME Init
  PROVE  IInv
<1>1. cmd = NoCommand /\ cmd \in Commands
  <2>1. <<>> \in Seq(Items) /\ 1 \in Nat
    BY EmptySeq
  <2> QED
    BY <2>1, Maps DEF Init, NoCommand, Commands, Places
<1>2. /\ cmd.op = "install" /\ cmd.at = "done" /\ cmd.plan = <<>> /\ cmd.added = {}
      /\ Len(cmd.plan) = 0
  BY <1>1 DEF NoCommand
<1>3. TypeOK
  <2>1. latest \in [Packages -> Versions] /\ lib \in [Packages -> Directories]
    BY RegistryAssumption, DirectoryTypes DEF Init, Versions
  <2>2. before \in [lib : [Packages -> Directories], lock : Locks] /\ lock \in Locks
    BY <2>1, Maps DEF Init
  <2>3. /\ manifest \in Manifests
        /\ cache \in [Packages \X Versions -> {"none", "good", "bad"}]
    BY Maps DEF Init, Manifests
  <2> QED
    BY <1>1, <2>1, <2>2, <2>3 DEF TypeOK, Init, Manifests
<1>4. StepsOf /\ PlanSound /\ ArchiveVerified
  BY <1>2 DEF StepsOf, PlanSound, ArchiveVerified, Working
<1>5. OnlyVerifiedUnpacked
  BY DirectoryTypes DEF Init, OnlyVerifiedUnpacked
<1>6. before.lib = lib /\ before.lock = lock
  BY DEF Init
<1>7. Progress
  BY <1>2, <1>6 DEF Progress, LibProgress, LockProgress, ManifestProgress, Recorded, InPlan,
     Working, Recording
<1> QED
  BY <1>3, <1>4, <1>5, <1>7 DEF IInv

\* The invariant holds in every state the package manager can be in.
THEOREM Invariance == Spec => []IInv
<1>1. Init => IInv
  BY InitInv
<1>2. IInv /\ [Next]_vars => IInv'
  BY TypeStep, StepsStep, ArchiveStep, VerifiedStep, ProgressStep DEF IInv
<1> QED
  BY <1>1, <1>2, PTL DEF Spec

\* What is on disk and what a command carries keeps its type whatever command
\* fails or is killed where, and whichever write of ez.lock or package.ez fails:
\* the next command finds a library folder, archives and entries it can go on
\* from, or a package.ez it knows for unreadable.
THEOREM TypeCorrect == Spec => []TypeOK
<1>1. IInv => TypeOK
  BY DEF IInv
<1> QED
  BY <1>1, Invariance, PTL

\* installPlanned() never unpacks anything but the registry's archive for a
\* package with a checksum: what a corrupted or interrupted download left in
\* the cache is found out before.
THEOREM OnlyVerified == Spec => []OnlyVerifiedUnpacked
<1>1. IInv => OnlyVerifiedUnpacked
  BY DEF IInv
<1> QED
  BY <1>1, Invariance, PTL

\* An install that reports success has unpacked its whole plan and left every
\* other directory as it was, and ez.lock and package.ez say so unless this very
\* command's write of that file failed, whatever failed or was killed earlier.
THEOREM InstallKeepsItsPromise == Spec => []DoneMeansInstalled
<1>1. ASSUME IInv
      PROVE  DoneMeansInstalled
  <2> SUFFICES ASSUME cmd.op = "install", cmd.at = "done", NEW p \in Packages
               PROVE  /\ OnDisk(p)
                      /\ "ez.lock" \in cmd.unwritten \/ Locked(p)
                      /\ "package.ez" \in cmd.unwritten \/ Listed(p)
    BY DEF DoneMeansInstalled, Succeeded
  <2>1. /\ \A i \in 1..Len(cmd.plan) : Placed(i)
        /\ ~InPlan(p) => lib[p] = before.lib[p]
        /\ "ez.lock" \in cmd.unwritten \/ Recorded(lock)
        /\ manifest.exists => "package.ez" \in cmd.unwritten \/ cmd.added \subseteq DOMAIN manifest.deps
    BY <1>1 DEF IInv, Progress, LibProgress, LockProgress, ManifestProgress, Recording
  <2>2. InPlan(p) => Chosen(p) \in 1..Len(cmd.plan) /\ cmd.plan[Chosen(p)].name = p
    BY <1>1, ChosenItem DEF IInv
  <2>3. OnDisk(p)
    BY <2>1, <2>2 DEF OnDisk, Placed
  <2>4. Recorded(lock) => Locked(p)
    BY <2>2 DEF Recorded, Locked
  <2>5. "package.ez" \in cmd.unwritten \/ Listed(p)
    BY <2>1 DEF Listed
  <2> QED
    BY <2>1, <2>3, <2>4, <2>5
<1> QED
  BY <1>1, Invariance, PTL
=============================================================================
