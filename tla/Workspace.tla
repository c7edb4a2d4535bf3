------------------------------- MODULE Workspace -------------------------------
(***************************************************************************)
(* The directories the tools unpack packages into (reviewtools/common.py,  *)
(* with the resquash check of sr_security.py).                             *)
(*                                                                         *)
(* Several processes share the places where temporary directories are      *)
(* made.  Each removes its own at its exit, and then those of others that  *)
(* look stale: nothing but the age of a directory says whether somebody    *)
(* still uses it.  A process may be killed at any step; what it leaves is  *)
(* for the others to find.                                                 *)
(*                                                                         *)
(* A directory is a name: mkdtemp and mktemp never give out a name that is *)
(* in use or remembered by anyone.  Its age is the time since its ctime    *)
(* changed, counted up to where it is stale.  And it is stuck if what was   *)
(* unpacked into it holds a directory, not an empty one, that its owner may *)
(* not list: recursive_rm raises on it, however often it is tried.         *)
(***************************************************************************)
EXTENDS Naturals, FiniteSets

CONSTANTS
    Procs,          \* processes
    Dirs,           \* names of temporary directories
    Tools,          \* the tools a process may be, see Tool
    UserCommons,    \* may SNAP_USER_COMMON name a directory?
    MaxAge,         \* a directory older than this is stale (three hours)
    MaxKills,       \* bound on the processes that are killed
    MaxStuck        \* no package that makes a directory stuck is unpacked
                    \* when this many are

(* snap-review and the like, whose modules share one unpacked snap; and    *)
(* updates-available --snap and --rock, which take the manifest out of a   *)
(* package. *)
Tool == {"review", "snap", "rock"}

ASSUME WorkspaceAssumption ==
    /\ Tools \in [Procs -> SUBSET Tool]
    /\ UserCommons \subseteq BOOLEAN
    /\ MaxAge \in Nat
    /\ MaxKills \in Nat
    /\ MaxStuck \in Nat

VARIABLES
    userCommon,  \* is SNAP_USER_COMMON set, for all processes alike?
    at,          \* where each directory is
    age,         \* how long ago its ctime changed
    stuck,       \* the directories that cannot be removed
    pc,
    tool,        \* what each process is
    unpackDir,   \* UNPACK_DIR, a set of at most one directory, like the next
    tmpDir,      \* TMP_DIR
    work,        \* the local d of the function that unpacks
    dest,        \* the local dir of get_snap_manifest, get_rock_manifest
    todo,        \* the directories the sweep at exit has still to look at
    cur,         \* the directory the process looks at or removes
    \* history, and the bounded counter of the environment
    excused,     \* the directories left behind for a known reason
    overslept,   \* the processes that left a directory alone for too long
    kills

places  == <<at, age, stuck>>
globals == <<unpackDir, tmpDir>>
locals  == <<work, dest>>
sweep   == <<todo, cur>>
vars == <<userCommon, at, age, stuck, pc, tool, unpackDir, tmpDir, work, dest,
          todo, cur, excused, overslept, kills>>

Place == {"tmp", "user", "nowhere"}

Location == {"idle", "open", "unpack", "move", "copy", "read", "discard",
             "checks", "resquash", "own", "removing", "sweep", "stat", "stale"}

TypeOK ==
    /\ userCommon \in BOOLEAN
    /\ at \in [Dirs -> Place]
    /\ age \in [Dirs -> 0..(MaxAge + 1)]
    /\ stuck \subseteq Dirs
    /\ pc \in [Procs -> Location]
    /\ tool \in [Procs -> Tool]
    /\ unpackDir \in [Procs -> SUBSET Dirs]
    /\ tmpDir \in [Procs -> SUBSET Dirs]
    /\ work \in [Procs -> SUBSET Dirs]
    /\ dest \in [Procs -> SUBSET Dirs]
    /\ todo \in [Procs -> SUBSET Dirs]
    /\ cur \in [Procs -> SUBSET Dirs]
    /\ excused \subseteq Dirs
    /\ overslept \subseteq Procs
    /\ kills \in 0..MaxKills

-----------------------------------------------------------------------------
Present == {d \in Dirs : at[d] # "nowhere"}

(* What a process has made and not removed. *)
Held(p) == unpackDir[p] \cup tmpDir[p] \cup work[p] \cup dest[p]

Known(p) == Held(p) \cup todo[p] \cup cur[p]

(* MKDTEMP_DIR: only the constructor of a review sets it... *)
TempBase(p) == IF userCommon /\ tool[p] = "review" THEN "user" ELSE "tmp"

(* ...while the manifest functions have a local variable of that name. *)
DestBase == IF userCommon THEN "user" ELSE "tmp"

(* A name for mkdtemp or mktemp. *)
Fresh == Dirs \ (Present \cup UNION {Known(p) : p \in Procs})

Put(d, b) ==
    /\ at' = [at EXCEPT ![d] = b]
    /\ age' = [age EXCEPT ![d] = 0]
    /\ UNCHANGED stuck

Touch(D) ==
    /\ age' = [d \in Dirs |-> IF d \in D THEN 0 ELSE age[d]]
    /\ UNCHANGED at

(* Of a package, what is unpacked into D may make it stuck. *)
Unpacks(D) ==
    \/ UNCHANGED stuck
    \/ /\ Cardinality(stuck) < MaxStuck
       /\ stuck' = stuck \cup (D \cap Present)

Goto(p, l) == pc' = [pc EXCEPT ![p] = l]

(* Another process is inside recursive_rm of d. *)
Contended(p, d) == \E q \in Procs \ {p} : pc[q] = "removing" /\ d \in cur[q]

(* What of D is left behind with nobody to remove it but a sweep. *)
Leave(D) == excused' = excused \cup (D \cap Present)

Init ==
    /\ userCommon \in UserCommons
    /\ at = [d \in Dirs |-> "nowhere"]
    /\ age = [d \in Dirs |-> 0]
    /\ stuck = {}
    /\ pc = [p \in Procs |-> "idle"]
    /\ tool \in [Procs -> Tool]
    /\ \A p \in Procs : tool[p] \in Tools[p]
    /\ unpackDir = [p \in Procs |-> {}]
    /\ tmpDir = [p \in Procs |-> {}]
    /\ work = [p \in Procs |-> {}]
    /\ dest = [p \in Procs |-> {}]
    /\ todo = [p \in Procs |-> {}]
    /\ cur = [p \in Procs |-> {}]
    /\ excused = {}
    /\ overslept = {}
    /\ kills = 0

-----------------------------------------------------------------------------
(* Unpacking.                                                              *)

(* A tool starts. *)
Start(p, t) ==
    /\ pc[p] = "idle"
    /\ tool' = [tool EXCEPT ![p] = t]
    /\ Goto(p, "open")
    /\ UNCHANGED <<userCommon, places, globals, locals, sweep, excused,
                   overslept, kills>>

(* The package is missing, too large, or of another format: error() ends   *)
(* the process before any directory is made. *)
Refuse(p) ==
    /\ pc[p] = "open"
    /\ Goto(p, "own")
    /\ UNCHANGED <<userCommon, places, tool, globals, locals, sweep,
                   excused, overslept, kills>>

(* mkdtemp of _unpack_snap_squashfs and _unpack_rock_tar. *)
MakeWork(p) ==
    /\ pc[p] = "open"
    /\ \E d \in Fresh : /\ Put(d, TempBase(p))
                        /\ work' = [work EXCEPT ![p] = {d}]
    /\ Goto(p, "unpack")
    /\ UNCHANGED <<userCommon, tool, globals, dest, sweep, excused,
                   overslept, kills>>

(* The package is unpacked.  A review keeps the directory as UNPACK_DIR    *)
(* for all its modules; the others move it to a name of their own. *)
Unpacked(p) ==
    /\ pc[p] = "unpack"
    /\ work[p] \subseteq Present
    /\ Touch(work[p])
    /\ Unpacks(work[p])
    /\ \/ /\ tool[p] = "review"
          /\ unpackDir' = [unpackDir EXCEPT ![p] = work[p]]
          /\ work' = [work EXCEPT ![p] = {}]
          /\ Goto(p, "checks")
       \/ /\ tool[p] # "review"
          /\ Goto(p, "move")
          /\ UNCHANGED <<unpackDir, work>>
    /\ UNCHANGED <<userCommon, tool, tmpDir, dest, sweep, excused,
                   overslept, kills>>

(* The process gives up with what it has in its local variables left       *)
(* behind: an exception, or error(), before any removal. *)
Desert(p) ==
    /\ Leave(work[p] \cup dest[p])
    /\ work' = [work EXCEPT ![p] = {}]
    /\ dest' = [dest EXCEPT ![p] = {}]
    /\ Goto(p, "own")
    /\ UNCHANGED <<userCommon, at, age, tool, globals, sweep, overslept,
                   kills>>

(* A faulty UnpackFails: error() comes before the removal. *)
ErrorsFirst(p) ==
    /\ pc[p] = "unpack"
    /\ tool[p] # "rock"
    /\ work' = [work EXCEPT ![p] = {}]
    /\ Goto(p, "own")
    /\ UNCHANGED <<userCommon, places, tool, globals, dest, sweep, excused,
                   overslept, kills>>

(* unsquashfs fails: _unpack_cmd removes the directory, then error(). *)
UnpackFails(p) ==
    /\ pc[p] = "unpack"
    /\ tool[p] # "rock"
    /\ Unpacks(work[p])
    /\ Goto(p, "discard")
    /\ UNCHANGED <<userCommon, at, age, tool, globals, locals, sweep,
                   excused, overslept, kills>>

(* The directory is gone: chdir raises.  The driver of a review takes that *)
(* for the failure of one module; the next unpacks again. *)
UnpackRaises(p) ==
    /\ pc[p] = "unpack"
    /\ tool[p] # "rock"
    /\ work[p] \cap Present = {}
    /\ work' = [work EXCEPT ![p] = {}]
    /\ \/ Goto(p, "own")
       \/ tool[p] = "review" /\ Goto(p, "open")
    /\ UNCHANGED <<userCommon, places, tool, globals, dest, sweep,
                   excused, overslept, kills>>

(* A rock does not unpack: error() comes before the removal. *)
RockFails(p) ==
    /\ pc[p] = "unpack"
    /\ tool[p] = "rock"
    /\ Unpacks(work[p])
    /\ Desert(p)

-----------------------------------------------------------------------------
(* Taking the manifest out.                                                *)

(* move_dir_content: the directory is renamed to the name that mktemp gave *)
(* out... *)
Rename(p) ==
    /\ pc[p] = "move"
    /\ work[p] \subseteq Present
    /\ \E d \in work[p], e \in Fresh :
          /\ at' = [at EXCEPT ![d] = "nowhere", ![e] = DestBase]
          /\ age' = [age EXCEPT ![d] = 0, ![e] = 0]
          /\ stuck' = IF d \in stuck THEN (stuck \ {d}) \cup {e} ELSE stuck
          /\ dest' = [dest EXCEPT ![p] = {e}]
    /\ work' = [work EXCEPT ![p] = {}]
    /\ Goto(p, "read")
    /\ UNCHANGED <<userCommon, tool, globals, sweep, excused, overslept,
                   kills>>

(* ...or, on another file system, copied and then removed. *)
Copy(p) ==
    /\ pc[p] = "move"
    /\ work[p] \subseteq Present
    /\ TempBase(p) # DestBase
    /\ \E e \in Fresh : /\ Put(e, DestBase)
                        /\ dest' = [dest EXCEPT ![p] = {e}]
    /\ Goto(p, "copy")
    /\ UNCHANGED <<userCommon, tool, globals, work, sweep, excused,
                   overslept, kills>>

EndCopy(p) ==
    /\ pc[p] = "copy"
    /\ Held(p) \subseteq Present
    /\ work[p] \cap stuck = {}
    /\ at' = [d \in Dirs |-> IF d \in work[p] THEN "nowhere" ELSE at[d]]
    /\ age' = [d \in Dirs |-> IF d \in Held(p) THEN 0 ELSE age[d]]
    /\ work' = [work EXCEPT ![p] = {}]
    /\ Goto(p, "read")
    /\ UNCHANGED <<userCommon, stuck, tool, globals, dest, sweep, excused,
                   overslept, kills>>

(* Something of it is gone, or going, under the process's feet; or it      *)
(* cannot be copied, and is not removed then. *)
MoveRaises(p) ==
    /\ pc[p] \in {"move", "copy"}
    /\ \/ \E d \in Held(p) : d \notin Present \/ Contended(p, d)
       \/ pc[p] = "copy" /\ work[p] \cap stuck # {}
    /\ Desert(p)
    /\ UNCHANGED stuck

(* The manifest is there, missing, or does not parse: the directory is     *)
(* removed first in each case. *)
ReadManifest(p) ==
    /\ pc[p] = "read"
    /\ Goto(p, "discard")
    /\ UNCHANGED <<userCommon, places, tool, globals, locals, sweep,
                   excused, overslept, kills>>

(* A file that cannot be opened; a rock with several archives in a layer,  *)
(* or with one that cannot be read. *)
ReadRaises(p) ==
    /\ pc[p] = "read"
    /\ Desert(p)
    /\ UNCHANGED stuck

-----------------------------------------------------------------------------
(* The checks of a review.                                                 *)

(* check_squashfs_resquash, which runs once in a review, makes TMP_DIR and *)
(* works in it. *)
Resquash(p) ==
    /\ pc[p] = "checks"
    /\ tmpDir[p] = {}
    /\ \E d \in Fresh : /\ Put(d, TempBase(p))
                        /\ tmpDir' = [tmpDir EXCEPT ![p] = {d}]
    /\ Goto(p, "resquash")
    /\ UNCHANGED <<userCommon, tool, unpackDir, locals, sweep, excused,
                   overslept, kills>>

(* The snap is unpacked there once more, in part at least, and repacked,   *)
(* or it is not; the directory was written to. *)
EndResquash(p) ==
    /\ pc[p] = "resquash"
    /\ Touch(tmpDir[p] \cap Present)
    /\ \/ UNCHANGED stuck
       \/ /\ unpackDir[p] \cap stuck # {}
          /\ stuck' = stuck \cup (tmpDir[p] \cap Present)
    /\ Goto(p, "checks")
    /\ UNCHANGED <<userCommon, tool, globals, locals, sweep, excused,
                   overslept, kills>>

(* No module is left, or one calls error(). *)
EndChecks(p) ==
    /\ pc[p] = "checks"
    /\ Goto(p, "own")
    /\ UNCHANGED <<userCommon, places, tool, globals, locals, sweep,
                   excused, overslept, kills>>

-----------------------------------------------------------------------------
(* recursive_rm, for three callers: the function that unpacked, the exit   *)
(* handler for its own directories, the sweep.                             *)

(* The directory is made accessible, which renews its ctime, and listed. *)
BeginRemove(p, d) ==
    /\ d \in Present
    /\ Touch({d})
    /\ cur' = [cur EXCEPT ![p] = {d}]
    /\ Goto(p, "removing")
    /\ UNCHANGED <<userCommon, stuck, tool, globals, locals, todo, excused,
                   overslept, kills>>

Discard(p) == pc[p] = "discard" /\ \E d \in work[p] \cup dest[p] : BeginRemove(p, d)

(* It is gone already. *)
NothingToDiscard(p) ==
    /\ pc[p] = "discard"
    /\ (work[p] \cup dest[p]) \cap Present = {}
    /\ Desert(p)
    /\ UNCHANGED stuck

(* The exit handler removes UNPACK_DIR, then TMP_DIR. *)
OwnNext(p) == IF unpackDir[p] # {} THEN unpackDir[p] ELSE tmpDir[p]

RemoveOwn(p) == pc[p] = "own" /\ \E d \in OwnNext(p) : BeginRemove(p, d)

OwnIsGone(p) ==
    /\ pc[p] = "own"
    /\ OwnNext(p) # {}
    /\ OwnNext(p) \cap Present = {}
    /\ unpackDir' = [unpackDir EXCEPT ![p] = {}]
    /\ tmpDir' = [tmpDir EXCEPT ![p] = @ \ OwnNext(p)]
    /\ UNCHANGED <<userCommon, places, pc, tool, locals, sweep, excused,
                   overslept, kills>>

(* Where a removal returns to. *)
Caller(p) ==
    IF cur[p] \subseteq Held(p) THEN "own" ELSE "sweep"

(* The last entry and the directory are gone. *)
EndRemove(p) ==
    /\ pc[p] = "removing"
    /\ cur[p] \subseteq Present \ stuck
    /\ at' = [d \in Dirs |-> IF d \in cur[p] THEN "nowhere" ELSE at[d]]
    /\ age' = [d \in Dirs |-> IF d \in cur[p] THEN 0 ELSE age[d]]
    /\ unpackDir' = [unpackDir EXCEPT ![p] = @ \ cur[p]]
    /\ tmpDir' = [tmpDir EXCEPT ![p] = @ \ cur[p]]
    /\ work' = [work EXCEPT ![p] = @ \ cur[p]]
    /\ dest' = [dest EXCEPT ![p] = @ \ cur[p]]
    /\ cur' = [cur EXCEPT ![p] = {}]
    /\ excused' = excused \ cur[p]
    /\ Goto(p, Caller(p))
    /\ UNCHANGED <<userCommon, stuck, tool, todo, overslept, kills>>

(* The process ends, and its memory with it. *)
Exit(p) ==
    /\ pc' = [pc EXCEPT ![p] = "idle"]
    /\ unpackDir' = [unpackDir EXCEPT ![p] = {}]
    /\ tmpDir' = [tmpDir EXCEPT ![p] = {}]
    /\ work' = [work EXCEPT ![p] = {}]
    /\ dest' = [dest EXCEPT ![p] = {}]
    /\ todo' = [todo EXCEPT ![p] = {}]
    /\ cur' = [cur EXCEPT ![p] = {}]
    /\ overslept' = overslept \ {p}
    /\ UNCHANGED <<userCommon, tool>>

(* The removal raises: another process has removed an entry, or all; or    *)
(* rmdir is tried on a directory that cannot be listed and is not empty,   *)
(* and that is no PermissionError. *)
RemovalRaises(p) ==
    /\ pc[p] = "removing"
    /\ \E d \in cur[p] : d \notin Present \/ Contended(p, d) \/ d \in stuck

(* The function that unpacked lets the exception through, and a review     *)
(* goes on as after UnpackRaises... *)
DiscardRaises(p) ==
    /\ RemovalRaises(p)
    /\ cur[p] \subseteq work[p] \cup dest[p]
    /\ Leave(work[p] \cup dest[p])
    /\ work' = [work EXCEPT ![p] = {}]
    /\ dest' = [dest EXCEPT ![p] = {}]
    /\ cur' = [cur EXCEPT ![p] = {}]
    /\ \/ Goto(p, "own")
       \/ tool[p] = "review" /\ Goto(p, "open")
    /\ UNCHANGED <<userCommon, places, tool, globals, todo, overslept, kills>>

(* ...the exit handler ends there, without its other directory and without *)
(* a sweep... *)
OwnRaises(p) ==
    /\ RemovalRaises(p)
    /\ cur[p] \subseteq unpackDir[p] \cup tmpDir[p]
    /\ Leave(Held(p))
    /\ Exit(p)
    /\ UNCHANGED <<places, kills>>

(* ...and the sweep logs it and goes on. *)
SweepRaises(p) ==
    /\ RemovalRaises(p)
    /\ Held(p) = {}
    /\ cur' = [cur EXCEPT ![p] = {}]
    /\ Goto(p, "sweep")
    /\ UNCHANGED <<userCommon, places, tool, globals, locals, todo, excused,
                   overslept, kills>>

-----------------------------------------------------------------------------
(* The sweep at exit.                                                      *)

(* A faulty Glob: of SNAP_USER_COMMON alone. *)
GlobUserCommon(p) ==
    /\ pc[p] = "own"
    /\ OwnNext(p) = {}
    /\ todo' = [todo EXCEPT ![p] = {d \in Dirs : at[d] = "user"}]
    /\ Goto(p, "sweep")
    /\ UNCHANGED <<userCommon, places, tool, globals, locals, cur, excused,
                   overslept, kills>>

(* The directories there are, listed once. *)
Glob(p) ==
    /\ pc[p] = "own"
    /\ OwnNext(p) = {}
    /\ todo' = [todo EXCEPT ![p] = {d \in Dirs : at[d] = TempBase(p)}]
    /\ Goto(p, "sweep")
    /\ UNCHANGED <<userCommon, places, tool, globals, locals, cur, excused,
                   overslept, kills>>

(* The next of them is still a directory... *)
Look(p, d) ==
    /\ pc[p] = "sweep"
    /\ d \in todo[p]
    /\ todo' = [todo EXCEPT ![p] = @ \ {d}]
    /\ \/ /\ d \in Present
          /\ cur' = [cur EXCEPT ![p] = {d}]
          /\ Goto(p, "stat")
       \/ /\ d \notin Present
          /\ UNCHANGED <<cur, pc>>
    /\ UNCHANGED <<userCommon, places, tool, globals, locals, excused,
                   overslept, kills>>

(* A faulty Stale: what is just as old as it may be. *)
StaleEarly(d) == age[d] >= MaxAge

Stale(d) == age[d] > MaxAge

(* ...its ctime is looked at... *)
Stat(p) ==
    /\ pc[p] = "stat"
    /\ cur[p] \subseteq Present
    /\ \/ /\ \A d \in cur[p] : Stale(d)
          /\ Goto(p, "stale")
          /\ UNCHANGED cur
       \/ /\ \E d \in cur[p] : ~Stale(d)
          /\ Goto(p, "sweep")
          /\ cur' = [cur EXCEPT ![p] = {}]
    /\ UNCHANGED <<userCommon, places, tool, globals, locals, todo, excused,
                   overslept, kills>>

(* ...which raises if it has gone since, and ends the sweep... *)
StatRaises(p) ==
    /\ pc[p] = "stat"
    /\ cur[p] \cap Present = {}
    /\ Exit(p)
    /\ UNCHANGED <<places, excused, kills>>

(* ...and it is removed, unless it has gone by now. *)
RemoveStale(p) ==
    /\ pc[p] = "stale"
    /\ \/ \E d \in cur[p] : BeginRemove(p, d)
       \/ /\ cur[p] \cap Present = {}
          /\ cur' = [cur EXCEPT ![p] = {}]
          /\ Goto(p, "sweep")
          /\ UNCHANGED <<userCommon, places, tool, globals, locals, todo,
                         excused, overslept, kills>>

EndSweep(p) ==
    /\ pc[p] = "sweep"
    /\ todo[p] = {}
    /\ Exit(p)
    /\ UNCHANGED <<places, excused, kills>>

-----------------------------------------------------------------------------
(* The environment.                                                        *)

(* A process is killed: no exit handler runs. *)
Kill(p) ==
    /\ pc[p] # "idle"
    /\ kills < MaxKills
    /\ kills' = kills + 1
    /\ Leave(Held(p))
    /\ Exit(p)
    /\ UNCHANGED places

(* Time passes, for all directories. *)
Tick ==
    /\ \E d \in Present : age[d] <= MaxAge
    /\ age' = [d \in Dirs |-> IF d \in Present /\ age[d] <= MaxAge
                             THEN age[d] + 1 ELSE age[d]]
    /\ overslept' = overslept \cup
          {p \in Procs : \E d \in Held(p) \cap Present : age[d] >= MaxAge}
    /\ UNCHANGED <<userCommon, at, stuck, pc, tool, globals, locals, sweep,
                   excused, kills>>

-----------------------------------------------------------------------------
Unpack(p) == \/ Refuse(p) \/ MakeWork(p) \/ Unpacked(p) \/ UnpackFails(p)
             \/ UnpackRaises(p) \/ RockFails(p)

Manifest(p) == \/ Rename(p) \/ Copy(p) \/ EndCopy(p) \/ MoveRaises(p)
               \/ ReadManifest(p) \/ ReadRaises(p)

Check(p) == Resquash(p) \/ EndResquash(p) \/ EndChecks(p)

Remove(p) == \/ Discard(p) \/ NothingToDiscard(p) \/ RemoveOwn(p) \/ OwnIsGone(p)
             \/ EndRemove(p) \/ DiscardRaises(p) \/ OwnRaises(p)
             \/ SweepRaises(p)

Sweep(p) == \/ Glob(p) \/ Stat(p) \/ StatRaises(p) \/ RemoveStale(p)
            \/ EndSweep(p) \/ \E d \in Dirs : Look(p, d)

Proceed(p) == Unpack(p) \/ Manifest(p) \/ Check(p) \/ Remove(p) \/ Sweep(p)

Next ==
    \/ Tick
    \/ \E p \in Procs : \/ \E t \in Tools[p] : Start(p, t)
                         \/ Proceed(p)
                         \/ Kill(p)

Looked(d) == \E p \in Procs : Look(p, d)
Removed(d) == \E p \in Procs : d \in cur[p] /\ EndRemove(p)

(* Time passes, tools are started and get on with their work; none of that *)
(* is said of kills and failures.  A directory that is still there at every *)
(* sweep is looked at by some: the listing is in no order, so sweeps that  *)
(* end early do not pass over the same ones for ever.  And a directory     *)
(* whose removal is overtaken again and again is removed, because each     *)
(* attempt leaves fewer entries to the next.  Nothing is assumed of one    *)
(* that is stuck: each attempt fails at the same entry, so that EndRemove  *)
(* is disabled for good. *)
Fairness(D) ==
    /\ WF_vars(Tick)
    /\ \A p \in Procs : WF_vars(Proceed(p) \/ \E t \in Tools[p] : Start(p, t))
    /\ \A d \in D : SF_vars(Looked(d)) /\ SF_vars(Removed(d))

Spec == Init /\ [][Next]_vars

FairSpec == Spec /\ Fairness(Dirs)
=============================================================================
