------------------------------ MODULE Packages ------------------------------
(***************************************************************************)
(* The package manager (src/cli/PackageManager.h): `ez install` asks the   *)
(* registry for a plan, fetches, verifies and unpacks each package of it   *)
(* into the library folder, then rewrites package.ez and ez.lock; `ez      *)
(* uninstall` undoes the three.  A step can fail, writing package.ez or    *)
(* ez.lock too, which the commands do not notice; the process can be       *)
(* killed between any two steps, or half way through removing or unpacking *)
(* a directory; the next command starts from what is on disk.              *)
(* One command runs at a time.  A package's directory has its name; the    *)
(* text around the dependencies of package.ez, addresses, the bytes of     *)
(* archives and the read-only commands (search, info, list) are left out.  *)
(***************************************************************************)
EXTENDS Naturals, Sequences, FiniteSets

CONSTANTS Packages,    \* the packages of the registry
          Depends,     \* package -> the packages it needs, directly or not
          Unsummed,    \* the packages the registry gives no checksum for
          MaxVersion,  \* versions the registry publishes
          MaxCommands, \* commands the user gives
          MaxFaults    \* steps that fail and kills, together

Versions == 1..MaxVersion
ASSUME RegistryAssumption ==
  /\ IsFiniteSet(Packages)
  /\ Depends \in [Packages -> SUBSET Packages]
  /\ Unsummed \subseteq Packages
  /\ MaxVersion \in Nat \ {0}
  /\ MaxCommands \in Nat /\ MaxFaults \in Nat

VARIABLES latest,    \* registry: package -> its newest version
          lib,       \* library folder: package -> directory
          cache,     \* archives in ~/.ez/cache: <<package, version>> -> "none", "good", "bad"
          lock,      \* ez.lock: package -> [version, direct]
          manifest,  \* package.ez: whether it exists, its dependencies, and
                     \* whether only a part of its text was written
          cmd,       \* the running command, or how the last one ended
          before,    \* lib and lock when it began
          commands, faults
vars == <<latest, lib, cache, lock, manifest, cmd, before, commands, faults>>
disk == <<lib, cache, lock, manifest>>

\* A directory: what of it is there ("none" when it does not exist), who wrote
\* it, the version, whether the archive was the one the registry published,
\* and whether files that are not the archive's lie in it.
Directory(files, from, version, good, stale) ==
  [files |-> files, from |-> from, version |-> version, good |-> good, stale |-> stale]
Missing == Directory("none", "nobody", 0, TRUE, FALSE)
Local == Directory("whole", "user", 0, TRUE, FALSE)

\* A range is "^version", 0 standing for "*".
Empty == [p \in {} |-> 0]
NoCommand == [op |-> "install", at |-> "done", force |-> FALSE, added |-> {}, name |-> "",
              deps |-> Empty, plan |-> <<>>, next |-> 1, entries |-> Empty,
              unwritten |-> {}]

Init == /\ latest = [p \in Packages |-> 1]
        /\ lib = [p \in Packages |-> Missing]
        /\ cache = [pv \in Packages \X Versions |-> "none"]
        /\ lock = Empty
        /\ manifest \in [exists : BOOLEAN, deps : {Empty}, torn : {FALSE}]
        /\ cmd = NoCommand
        /\ before = [lib |-> lib, lock |-> lock]
        /\ commands = 0
        /\ faults = 0

Over == cmd.at \in {"done", "failed", "killed"}
Goto(at) == cmd' = [cmd EXCEPT !.at = at]
Failing == faults < MaxFaults /\ faults' = faults + 1 /\ Goto("failed")
Going(at) == Goto(at) /\ UNCHANGED faults
Package == cmd.plan[cmd.next]
Without(f, p) == [q \in DOMAIN f \ {p} |-> f[q]]
Merged(f, g) == [q \in DOMAIN f \union DOMAIN g |-> IF q \in DOMAIN f THEN f[q] ELSE g[q]]

-----------------------------------------------------------------------------
(* What happens around the command.                                        *)

Publish(p) ==
  /\ latest[p] < MaxVersion
  /\ latest' = [latest EXCEPT ![p] = @ + 1]
  /\ UNCHANGED <<disk, cmd, before, commands, faults>>

\* The user writes a package by hand.
WriteLocal(p) ==
  /\ Over /\ lib[p].files = "none"
  /\ lib' = [lib EXCEPT ![p] = Local]
  /\ before' = [before EXCEPT !.lib[p] = Local]
  /\ UNCHANGED <<latest, cache, lock, manifest, cmd, commands, faults>>

-----------------------------------------------------------------------------
(* install                                                                 *)

Start(command) ==
  /\ Over /\ commands < MaxCommands
  /\ commands' = commands + 1
  /\ cmd' = command
  /\ before' = [lib |-> lib, lock |-> lock]
  /\ UNCHANGED <<latest, disk, faults>>

installOne(p, force) ==
  Start([NoCommand EXCEPT !.at = "resolve", !.force = force, !.added = {p},
                          !.deps = Merged([q \in {p} |-> 0], manifest.deps)])
installAll(force) ==
  /\ manifest.exists /\ manifest.deps # Empty
  /\ Start([NoCommand EXCEPT !.at = "resolve", !.force = force, !.deps = manifest.deps])

\* The registry's answer: everything needed, each once, dependencies first.
Wanted(deps) == DOMAIN deps \union UNION {Depends[p] : p \in DOMAIN deps}
Planned(p, deps) == [name |-> p, version |-> latest[p], direct |-> p \in DOMAIN deps]
PlansFor(deps) ==
  {plan \in [1..Cardinality(Wanted(deps)) -> {Planned(p, deps) : p \in Wanted(deps)}] :
     \A i, j \in DOMAIN plan :
       /\ plan[i].name = plan[j].name => i = j
       /\ plan[j].name \in Depends[plan[i].name] => j < i}
resolvePlan ==
  /\ cmd.at = "resolve"
  /\ \/ Failing
     \/ /\ \E plan \in PlansFor(cmd.deps) : cmd' = [cmd EXCEPT !.at = "fetch", !.plan = plan]
        /\ UNCHANGED faults
  /\ UNCHANGED <<latest, disk, before, commands>>

Archive == <<Package.name, Package.version>>
\* Mutant: an archive in the cache is used without comparing its checksum.
HaveValidTrusting == cache[Archive] # "none"
HaveValid == cache[Archive] = "good" /\ Package.name \notin Unsummed
\* A download that succeeds replaces the cached archive in one step (a .part
\* file is renamed), whatever bytes it brought.
Fetch ==
  /\ cmd.at = "fetch"
  /\ \/ HaveValid /\ Going("guard") /\ UNCHANGED cache
     \/ ~HaveValid /\ Failing /\ cache' \in {cache, [cache EXCEPT ![Archive] = "none"]}
     \/ ~HaveValid /\ Going("verify") /\ cache' = [cache EXCEPT ![Archive] = "good"]
     \/ /\ ~HaveValid /\ faults < MaxFaults /\ faults' = faults + 1
        /\ Goto("verify") /\ cache' = [cache EXCEPT ![Archive] = "bad"]
  /\ UNCHANGED <<latest, lib, lock, manifest, before, commands>>
Verify ==
  /\ cmd.at = "verify"
  /\ IF Package.name \notin Unsummed /\ cache[Archive] = "bad"
     THEN Goto("failed") /\ cache' = [cache EXCEPT ![Archive] = "none"]
     ELSE Goto("guard") /\ UNCHANGED cache
  /\ UNCHANGED <<latest, lib, lock, manifest, before, commands, faults>>

\* A directory that ez.lock does not claim is the user's.
Guard ==
  /\ cmd.at = "guard"
  /\ LET foreign == lib[Package.name].files # "none" /\ Package.name \notin DOMAIN lock
     IN Going(IF foreign /\ ~cmd.force THEN "failed" ELSE "remove")
  /\ UNCHANGED <<latest, disk, before, commands>>

\* remove_all() may leave files behind (one is open); its error code is
\* overwritten by that of create_directories().
Removed(d) == {Missing} \union (IF d.files = "none" \/ faults = MaxFaults THEN {}
                                ELSE {[d EXCEPT !.files = "part", !.stale = TRUE]})
FaultsIn(d) == faults' = IF d.stale THEN faults + 1 ELSE faults
RemoveTarget ==
  /\ cmd.at = "remove"
  /\ \E d \in Removed(lib[Package.name]) :
       /\ lib' = [lib EXCEPT ![Package.name] = d]
       /\ FaultsIn(d)
  /\ Goto("create")
  /\ UNCHANGED <<latest, cache, lock, manifest, before, commands>>
CreateTarget ==
  /\ cmd.at = "create"
  /\ \/ Failing /\ UNCHANGED lib
     \/ /\ Going("extract")
        /\ lib' = [lib EXCEPT ![Package.name] =
                     IF @.files = "none" THEN Directory("part", "ez", Package.version, TRUE, FALSE) ELSE @]
  /\ UNCHANGED <<latest, cache, lock, manifest, before, commands>>

Unpacked(files) ==
  [lib EXCEPT ![Package.name] =
     Directory(files, "ez", Package.version, cache[Archive] = "good", @.stale)]
ExtractTarball ==
  /\ cmd.at = "extract"
  /\ \/ Failing /\ lib' = Unpacked("part")
     \/ /\ lib' = Unpacked("whole")
        /\ cmd' = [cmd EXCEPT !.next = @ + 1,
                              !.at = IF cmd.next < Len(cmd.plan) THEN "fetch" ELSE "record"]
        /\ UNCHANGED faults
  /\ UNCHANGED <<latest, cache, lock, manifest, before, commands>>

(***************************************************************************)
(* Files are rewritten in place: truncated, then written.  writeFileText() *)
(* says whether it could open the file and write all of it; its callers    *)
(* here do not look, and go on.  The files that did not get what the       *)
(* command meant for them are in unwritten.                                *)
(***************************************************************************)
Chosen(p) == CHOOSE i \in 1..Len(cmd.plan) : cmd.plan[i].name = p
InPlan(p) == \E i \in 1..Len(cmd.plan) : cmd.plan[i].name = p
Updated == [p \in DOMAIN cmd.deps |->
              IF p \in cmd.added /\ InPlan(p) THEN cmd.plan[Chosen(p)].version ELSE cmd.deps[p]]

GoOnWithout(file, at) == cmd' = [cmd EXCEPT !.at = at, !.unwritten = @ \union {file}]
WriteFails(file, at) == faults < MaxFaults /\ faults' = faults + 1 /\ GoOnWithout(file, at)

\* The start of a package.ez alone is not JSON: it says nothing of the
\* dependencies, and putting some into it does not mend it.
AfterManifest == IF cmd.op = "install" THEN "lock" ELSE "done"
TruncateManifest(deps) ==
  \/ WriteFails("package.ez", AfterManifest) /\ UNCHANGED manifest
  \/ manifest.torn /\ GoOnWithout("package.ez", AfterManifest) /\ UNCHANGED <<manifest, faults>>
  \/ /\ manifest' = [manifest EXCEPT !.deps = Empty, !.torn = FALSE]
     /\ cmd' = [cmd EXCEPT !.at = "writeManifest", !.deps = deps,
                           !.unwritten = @ \union (IF manifest.torn THEN {"package.ez"} ELSE {})]
     /\ UNCHANGED faults

\* package.ez is rewritten only where there is one.
RecordManifest ==
  /\ cmd.at = "record"
  /\ IF cmd.added # {} /\ manifest.exists
     THEN TruncateManifest(Updated)
     ELSE Going("lock") /\ UNCHANGED manifest
  /\ UNCHANGED <<latest, lib, cache, lock, before, commands>>
WriteManifest ==
  /\ cmd.at = "writeManifest"
  /\ \/ /\ manifest' = IF "package.ez" \in cmd.unwritten THEN [manifest EXCEPT !.torn = TRUE]
                        ELSE [manifest EXCEPT !.deps = cmd.deps]
        /\ Going(AfterManifest)
     \/ /\ WriteFails("package.ez", AfterManifest)
        /\ \E torn \in BOOLEAN : manifest' = [manifest EXCEPT !.torn = torn]
  /\ UNCHANGED <<latest, lib, cache, lock, before, commands>>

\* The plan is merged into what the lock says; direct once is direct for good.
Entry(p) == [version |-> p.version,
             direct |-> p.direct \/ (p.name \in DOMAIN lock /\ lock[p.name].direct)]
\* Also the mutant that writes the plan alone.
PlanEntries == [n \in {cmd.plan[i].name : i \in 1..Len(cmd.plan)} |-> Entry(cmd.plan[Chosen(n)])]
Entries == Merged(PlanEntries, lock)
AfterLock == IF cmd.op = "install" THEN "done" ELSE "unlist"
TruncateLock(entries) ==
  \/ WriteFails("ez.lock", AfterLock) /\ UNCHANGED lock
  \/ /\ lock' = Empty
     /\ cmd' = [cmd EXCEPT !.at = "writeLock", !.entries = entries]
     /\ UNCHANGED faults
MergeLock ==
  /\ cmd.at = "lock" /\ TruncateLock(Entries)
  /\ UNCHANGED <<latest, lib, cache, manifest, before, commands>>
\* The start of an ez.lock alone is not JSON: every reader takes it for empty.
WriteLock ==
  /\ cmd.at = "writeLock"
  /\ \/ lock' = cmd.entries /\ Going(AfterLock)
     \/ WriteFails("ez.lock", AfterLock) /\ UNCHANGED lock
  /\ UNCHANGED <<latest, lib, cache, manifest, before, commands>>

-----------------------------------------------------------------------------
(* uninstall: the directory, whoever wrote it, then the lock, then         *)
(* package.ez.                                                             *)

Known(p) == p \in DOMAIN manifest.deps \/ p \in DOMAIN lock \/ lib[p].files # "none"
uninstall(p) ==
  /\ Known(p)
  /\ Start([NoCommand EXCEPT !.op = "uninstall", !.at = "delete", !.name = p,
                             !.deps = manifest.deps])
Delete ==
  /\ cmd.at = "delete"
  /\ \E d \in Removed(lib[cmd.name]) : lib' = [lib EXCEPT ![cmd.name] = d] /\ FaultsIn(d)
  /\ Goto("unlock")
  /\ UNCHANGED <<latest, cache, lock, manifest, before, commands>>
removeFromLock ==
  /\ cmd.at = "unlock"
  /\ IF cmd.name \in DOMAIN lock THEN TruncateLock(Without(lock, cmd.name))
     ELSE Going("unlist") /\ UNCHANGED lock
  /\ UNCHANGED <<latest, lib, cache, manifest, before, commands>>
Unlist ==
  /\ cmd.at = "unlist"
  /\ IF cmd.name \in DOMAIN cmd.deps
     THEN TruncateManifest(Without(cmd.deps, cmd.name))
     ELSE Going("done") /\ UNCHANGED manifest
  /\ UNCHANGED <<latest, lib, cache, lock, before, commands>>

-----------------------------------------------------------------------------
(* The process is killed: a directory being removed or unpacked is left as *)
(* far as that got; a truncated file is left empty or in part.             *)

Touched == IF cmd.op = "uninstall" THEN cmd.name ELSE Package.name
Torn == CASE cmd.at = "extract" -> {lib, Unpacked("part")}
          [] cmd.at \in {"remove", "delete"} /\ lib[Touched].files # "none" ->
               {lib, [lib EXCEPT ![Touched].files = "part", ![Touched].stale = TRUE]}
          [] OTHER -> {lib}
Kill ==
  /\ ~Over /\ faults < MaxFaults
  /\ faults' = faults + 1
  /\ lib' \in Torn
  /\ Goto("killed")
  /\ manifest' \in {manifest} \union (IF cmd.at = "writeManifest"
                                    THEN {[manifest EXCEPT !.torn = TRUE]} ELSE {})
  /\ UNCHANGED <<latest, cache, lock, before, commands>>

Next ==
  \/ \E p \in Packages : Publish(p) \/ WriteLocal(p) \/ uninstall(p)
  \/ \E force \in BOOLEAN : installAll(force) \/ \E p \in Packages : installOne(p, force)
  \/ resolvePlan \/ Fetch \/ Verify \/ Guard \/ RemoveTarget \/ CreateTarget \/ ExtractTarball
  \/ RecordManifest \/ WriteManifest \/ MergeLock \/ WriteLock
  \/ Delete \/ removeFromLock \/ Unlist
  \/ Kill
Spec == Init /\ [][Next]_vars

-----------------------------------------------------------------------------
(* What the commands promise.                                              *)

Places == {"resolve", "fetch", "verify", "guard", "remove", "create", "extract", "record",
           "writeManifest", "lock", "writeLock", "delete", "unlock", "unlist",
           "done", "failed", "killed"}
Items == [name : Packages, version : Versions, direct : BOOLEAN]
Directories == [files : {"none", "part", "whole"}, from : {"nobody", "user", "ez"},
                version : 0..MaxVersion, good : BOOLEAN, stale : BOOLEAN]
\* Finite maps from names: the dependencies of a package.ez, the entries of a lock.
Ranges == UNION {[D -> 0..MaxVersion] : D \in SUBSET Packages}
Locks == UNION {[D -> [version : Versions, direct : BOOLEAN]] : D \in SUBSET Packages}
Commands == [op : {"install", "uninstall"}, at : Places, force : BOOLEAN,
             added : SUBSET Packages, name : Packages \union {""}, deps : Ranges,
             plan : Seq(Items), next : Nat, entries : Locks,
             unwritten : SUBSET {"package.ez", "ez.lock"}]
\* Types of the state: what is on disk stays readable by the next command.
TypeOK ==
  /\ latest \in [Packages -> Versions]
  /\ lib \in [Packages -> Directories]
  /\ cache \in [Packages \X Versions -> {"none", "good", "bad"}]
  /\ lock \in Locks
  /\ manifest \in [exists : BOOLEAN, deps : Ranges, torn : BOOLEAN]
  /\ cmd \in Commands
  /\ before \in [lib : [Packages -> Directories], lock : Locks]
  /\ commands \in Nat /\ faults \in Nat

Succeeded == cmd.op = "install" /\ cmd.at = "done" /\ commands > 0

\* What a successful install owes to each package in the library folder, in
\* ez.lock and in package.ez: those of its plan are there, complete, and
\* recorded; the others are as they were before.
OnDisk(p) ==
  IF InPlan(p)
  THEN /\ lib[p].files = "whole" /\ lib[p].from = "ez"
       /\ lib[p].version = cmd.plan[Chosen(p)].version
  ELSE lib[p] = before.lib[p]
Locked(p) ==
  IF InPlan(p)
  THEN /\ p \in DOMAIN lock /\ lock[p].version = cmd.plan[Chosen(p)].version
       /\ cmd.plan[Chosen(p)].direct => lock[p].direct
  ELSE /\ (p \in DOMAIN lock) = (p \in DOMAIN before.lock)
       /\ p \in DOMAIN lock => lock[p] = before.lock[p]
Listed(p) == p \in cmd.added /\ InPlan(p) /\ manifest.exists => p \in DOMAIN manifest.deps

\* However earlier commands failed or were killed, one that reports success
\* leaves every package of its plan unpacked, complete, at the version of the
\* plan, recorded in ez.lock and (where there is a package.ez) the wanted one
\* in package.ez, and leaves the directory and the lock entry of every other
\* package as they were: the last packages installed do not cost the earlier
\* ones their record.  Of the two files it promises something only when this
\* command's writes to them went through, which it does not look at.
DoneMeansInstalled ==
  Succeeded => \A p \in Packages :
    /\ OnDisk(p)
    /\ "ez.lock" \in cmd.unwritten \/ Locked(p)
    /\ "package.ez" \in cmd.unwritten \/ Listed(p)

\* "Install one package ... and record it in package.ez so the next `ez
\* install` reproduces this state" (the comment on installOne()): an install
\* that says Done has recorded what it was asked for, write failed or not.
DoneMeansRecorded ==
  Succeeded => \A p \in Packages : Listed(p)

\* Nothing but the archive the registry published is ever unpacked for a
\* package it gives a checksum for, whatever a download that was corrupted,
\* or killed before its checksum was compared, left in the cache.
OnlyVerifiedUnpacked ==
  \A p \in Packages \ Unsummed : lib[p].good

\* "ez.lock records everything installed from a registry" (the comment on the
\* guard of installPlanned(), which takes a directory the lock does not name
\* for the user's): once a command is over, every directory it unpacked is
\* named there.
LockRecordsInstalled ==
  Over => \A p \in Packages :
            lib[p].files = "whole" /\ lib[p].from = "ez" => p \in DOMAIN lock
=============================================================================
