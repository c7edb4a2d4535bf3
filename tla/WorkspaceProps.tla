---------------------------- MODULE WorkspaceProps ----------------------------
(***************************************************************************)
(* The properties of the temporary directories.                            *)
(***************************************************************************)
EXTENDS Workspace

(* A tool leaves nothing behind.  Whatever step an unpacking fails at, a   *)
(* directory that no live process is going to remove was left by a process *)
(* that was killed, by one that deserted it in its error path (RockFails,  *)
(* ReadRaises, MoveRaises), or by one whose removal raised, because another *)
(* process got in its way or because recursive_rm cannot remove what was   *)
(* unpacked (cleanup_unpack, _unpack_cmd, get_snap_manifest). *)
NothingLeft ==
    \A d \in Present : d \in excused \/ \E p \in Procs : d \in Held(p)

(* A process that touches its directories at least every three hours finds *)
(* them there: no other process, whatever it saw and however late it acts  *)
(* on it, removes one or has begun to (the sweep in cleanup_unpack). *)
TouchedIsKept ==
    \A p \in Procs \ overslept : \A d \in Held(p) :
        d \in Present /\ ~Contended(p, d)

(* What is left behind and can be removed at all is removed in the end, by *)
(* a sweep of some process, wherever it was left, however many sweeps are  *)
(* cut short, and whatever other directories cannot be removed             *)
(* (cleanup_unpack, recursive_rm). *)
Abandoned(d) ==
    d \in Present /\ d \notin stuck /\ \A p \in Procs : d \notin Held(p)

LeftIsSwept(d) == Abandoned(d) ~> d \notin Present
=============================================================================
