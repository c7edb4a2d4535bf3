---------------------------- MODULE WorkspaceProofs ----------------------------
(***************************************************************************)
(* What holds of the temporary directories for every set of processes and  *)
(* names, every age at which a directory is stale, and every way in which  *)
(* an unpacking, a removal or a process may fail.                          *)
(***************************************************************************)
EXTENDS WorkspaceProps, TLAPS

USE DEF places, globals, locals, sweep

Act(p) == (\E t \in Tools[p] : Start(p, t)) \/ Proceed(p) \/ Kill(p)

(* Which variables may hold a directory at which place: when a process     *)
(* gets to the sweep, or starts over, it holds none. *)
Shape(p) ==
    /\ pc[p] \in {"idle", "open", "sweep", "stat", "stale"} => Held(p) = {}
    /\ pc[p] \in {"unpack", "move", "copy", "read", "discard"} =>
          unpackDir[p] = {} /\ tmpDir[p] = {}
    /\ pc[p] \in {"checks", "resquash", "own"} => work[p] = {} /\ dest[p] = {}
    /\ pc[p] \in {"unpack", "move"} => dest[p] = {}
    /\ pc[p] = "copy" => work[p] \cap dest[p] = {}
    /\ pc[p] = "read" => work[p] = {}
    /\ pc[p] = "discard" => work[p] = {} \/ dest[p] = {}
    /\ pc[p] = "removing" =>
          \/ Held(p) = {}
          \/ /\ unpackDir[p] = {} /\ tmpDir[p] = {}
             /\ work[p] \cup dest[p] \subseteq cur[p]
          \/ work[p] = {} /\ dest[p] = {} /\ cur[p] \subseteq Held(p)
    /\ \A d, e \in work[p] : d = e
    /\ \A d, e \in dest[p] : d = e

Tidy == \A p \in Procs : Shape(p)

(* What a process that did not oversleep holds is there, is not stale, and *)
(* nobody else holds it, has found it stale or removes it. *)
Safe(p, d) ==
    /\ d \in Present
    /\ age[d] <= MaxAge
    /\ \A q \in Procs \ {p} : /\ d \notin Held(q)
                              /\ pc[q] \in {"stale", "removing"} => d \notin cur[q]

Kept == \A p \in Procs \ overslept : \A d \in Held(p) : Safe(p, d)

IInv == TypeOK /\ Tidy /\ NothingLeft /\ Kept

-----------------------------------------------------------------------------
(* The state keeps its types. *)
LEMMA TypeStep ==
    ASSUME TypeOK, NEW p \in Procs, Act(p)
    PROVE  TypeOK'
  <1>1. CASE \E t \in Tools[p] : Start(p, t)
    <2>1. PICK t \in Tools[p] : Start(p, t)
      BY <1>1
    <2>2. t \in Tool
      BY <2>1, WorkspaceAssumption
    <2> QED
      BY <2>1, <2>2 DEF Start, Goto, TypeOK, Location
  <1>2. CASE Refuse(p)
    BY <1>2 DEF Refuse, Goto, TypeOK, Present, Place, Location, Held
  <1>3. CASE MakeWork(p)
    BY <1>3, WorkspaceAssumption DEF MakeWork, Put, Fresh, Known, TempBase,
       DestBase, WorkspaceAssumption, Tool, Goto, TypeOK, Present, Place,
       Location, Held
  <1>4. CASE Unpacked(p)
    BY <1>4, WorkspaceAssumption DEF Unpacked, Unpacks, Touch,
       WorkspaceAssumption, Tool, Goto, TypeOK, Present, Place, Location, Held
  <1>5. CASE UnpackFails(p)
    BY <1>5 DEF UnpackFails, Unpacks, Goto, TypeOK, Present, Place, Location,
       Held
  <1>6. CASE UnpackRaises(p)
    BY <1>6 DEF UnpackRaises, Goto, TypeOK, Present, Place, Location, Held
  <1>7. CASE RockFails(p)
    BY <1>7 DEF RockFails, Unpacks, Desert, Leave, Goto, TypeOK, Present,
       Place, Location, Held
  <1>8. CASE Rename(p)
    BY <1>8, WorkspaceAssumption DEF Rename, Fresh, Known, TempBase, DestBase,
       WorkspaceAssumption, Tool, Goto, TypeOK, Present, Place, Location, Held
  <1>9. CASE Copy(p)
    BY <1>9, WorkspaceAssumption DEF Copy, Put, Fresh, Known, TempBase,
       DestBase, WorkspaceAssumption, Tool, Goto, TypeOK, Present, Place,
       Location, Held
  <1>10. CASE EndCopy(p)
    BY <1>10, WorkspaceAssumption DEF EndCopy, WorkspaceAssumption, Tool, Goto,
       TypeOK, Present, Place, Location, Held
  <1>11. CASE MoveRaises(p)
    BY <1>11 DEF MoveRaises, Desert, Leave, Contended, Goto, TypeOK, Present,
       Place, Location, Held
  <1>12. CASE ReadManifest(p)
    BY <1>12 DEF ReadManifest, Goto, TypeOK, Present, Place, Location, Held
  <1>13. CASE ReadRaises(p)
    BY <1>13 DEF ReadRaises, Desert, Leave, Goto, TypeOK, Present, Place,
       Location, Held
  <1>14. CASE Resquash(p)
    BY <1>14, WorkspaceAssumption DEF Resquash, Put, Fresh, Known, TempBase,
       DestBase, WorkspaceAssumption, Tool, Goto, TypeOK, Present, Place,
       Location, Held
  <1>15. CASE EndResquash(p)
    BY <1>15, WorkspaceAssumption DEF EndResquash, Touch, WorkspaceAssumption,
       Tool, Goto, TypeOK, Present, Place, Location, Held
  <1>16. CASE EndChecks(p)
    BY <1>16 DEF EndChecks, Goto, TypeOK, Present, Place, Location, Held
  <1>17. CASE Discard(p)
    BY <1>17, WorkspaceAssumption DEF Discard, BeginRemove, Touch,
       WorkspaceAssumption, Tool, Goto, TypeOK, Present, Place, Location, Held
  <1>18. CASE NothingToDiscard(p)
    BY <1>18 DEF NothingToDiscard, Desert, Leave, Goto, TypeOK, Present, Place,
       Location, Held
  <1>19. CASE RemoveOwn(p)
    BY <1>19, WorkspaceAssumption DEF RemoveOwn, BeginRemove, Touch, OwnNext,
       WorkspaceAssumption, Tool, Goto, TypeOK, Present, Place, Location, Held
  <1>20. CASE OwnIsGone(p)
    BY <1>20 DEF OwnIsGone, OwnNext, Goto, TypeOK, Present, Place, Location,
       Held
  <1>21. CASE EndRemove(p)
    BY <1>21, WorkspaceAssumption DEF EndRemove, Caller, WorkspaceAssumption,
       Tool, Goto, TypeOK, Present, Place, Location, Held
  <1>22. CASE DiscardRaises(p)
    BY <1>22 DEF DiscardRaises, Leave, Contended, RemovalRaises, Goto, TypeOK,
       Present, Place, Location, Held
  <1>23. CASE OwnRaises(p)
    BY <1>23 DEF OwnRaises, Exit, Leave, Contended, RemovalRaises, TypeOK,
       Present, Place, Location, Held
  <1>24. CASE SweepRaises(p)
    BY <1>24 DEF SweepRaises, Contended, RemovalRaises, Goto, TypeOK, Present,
       Place, Location, Held
  <1>25. CASE Glob(p)
    BY <1>25 DEF Glob, OwnNext, Goto, TypeOK, Present, Place, Location, Held
  <1>26. CASE \E d \in Dirs : Look(p, d)
    BY <1>26 DEF Look, Goto, TypeOK, Present, Place, Location, Held
  <1>27. CASE Stat(p)
    BY <1>27, WorkspaceAssumption DEF Stat, Stale, WorkspaceAssumption, Tool,
       Goto, TypeOK, Present, Place, Location, Held
  <1>28. CASE StatRaises(p)
    BY <1>28 DEF StatRaises, Exit, TypeOK, Present, Place, Location, Held
  <1>29. CASE RemoveStale(p)
    BY <1>29, WorkspaceAssumption DEF RemoveStale, BeginRemove, Touch,
       WorkspaceAssumption, Tool, Goto, TypeOK, Present, Place, Location, Held
  <1>30. CASE EndSweep(p)
    BY <1>30 DEF EndSweep, Exit, TypeOK, Present, Place, Location, Held
  <1>31. CASE Kill(p)
    BY <1>31, WorkspaceAssumption DEF Kill, Exit, Leave, WorkspaceAssumption,
       Tool, TypeOK, Present, Place, Location, Held
  <1> QED
    BY <1>1, <1>2, <1>3, <1>4, <1>5, <1>6, <1>7, <1>8, <1>9, <1>10, <1>11, <1>12, <1>13, <1>14, <1>15,
       <1>16, <1>17, <1>18, <1>19, <1>20, <1>21, <1>22, <1>23, <1>24, <1>25, <1>26, <1>27, <1>28, <1>29, <1>30, <1>31
    DEF Act, Proceed, Unpack, Manifest, Check, Remove, Sweep

(* A process that gives up, or goes on, has nothing in the wrong place. *)
LEMMA TidyStep ==
    ASSUME TypeOK, Tidy, NEW p \in Procs, Act(p)
    PROVE  Tidy'
  <1>1. CASE \E t \in Tools[p] : Start(p, t)
    BY <1>1, WorkspaceAssumption DEF Start, WorkspaceAssumption, Tool, Goto,
       Tidy, TypeOK, Shape, Held, Present
  <1>2. CASE Refuse(p)
    BY <1>2 DEF Refuse, Goto, Tidy, TypeOK, Shape, Held, Present
  <1>3. CASE MakeWork(p)
    BY <1>3, WorkspaceAssumption DEF MakeWork, Put, Fresh, Known, TempBase,
       DestBase, WorkspaceAssumption, Tool, Goto, Tidy, TypeOK, Shape, Held,
       Present
  <1>4. CASE Unpacked(p)
    BY <1>4, WorkspaceAssumption DEF Unpacked, Unpacks, Touch,
       WorkspaceAssumption, Tool, Goto, Tidy, TypeOK, Shape, Held, Present
  <1>5. CASE UnpackFails(p)
    BY <1>5 DEF UnpackFails, Unpacks, Goto, Tidy, TypeOK, Shape, Held, Present
  <1>6. CASE UnpackRaises(p)
    BY <1>6 DEF UnpackRaises, Goto, Tidy, TypeOK, Shape, Held, Present
  <1>7. CASE RockFails(p)
    BY <1>7 DEF RockFails, Unpacks, Desert, Leave, Goto, Tidy, TypeOK, Shape,
       Held, Present
  <1>8. CASE Rename(p)
    BY <1>8, WorkspaceAssumption DEF Rename, Fresh, Known, TempBase, DestBase,
       WorkspaceAssumption, Tool, Goto, Tidy, TypeOK, Shape, Held, Present
  <1>9. CASE Copy(p)
    BY <1>9, WorkspaceAssumption DEF Copy, Put, Fresh, Known, TempBase,
       DestBase, WorkspaceAssumption, Tool, Goto, Tidy, TypeOK, Shape, Held,
       Present
  <1>10. CASE EndCopy(p)
    BY <1>10, WorkspaceAssumption DEF EndCopy, WorkspaceAssumption, Tool, Goto,
       Tidy, TypeOK, Shape, Held, Present
  <1>11. CASE MoveRaises(p)
    BY <1>11 DEF MoveRaises, Desert, Leave, Contended, Goto, Tidy, TypeOK,
       Shape, Held, Present
  <1>12. CASE ReadManifest(p)
    BY <1>12 DEF ReadManifest, Goto, Tidy, TypeOK, Shape, Held, Present
  <1>13. CASE ReadRaises(p)
    BY <1>13 DEF ReadRaises, Desert, Leave, Goto, Tidy, TypeOK, Shape, Held,
       Present
  <1>14. CASE Resquash(p)
    BY <1>14, WorkspaceAssumption DEF Resquash, Put, Fresh, Known, TempBase,
       DestBase, WorkspaceAssumption, Tool, Goto, Tidy, TypeOK, Shape, Held,
       Present
  <1>15. CASE EndResquash(p)
    BY <1>15, WorkspaceAssumption DEF EndResquash, Touch, WorkspaceAssumption,
       Tool, Goto, Tidy, TypeOK, Shape, Held, Present
  <1>16. CASE EndChecks(p)
    BY <1>16 DEF EndChecks, Goto, Tidy, TypeOK, Shape, Held, Present
  <1>17. CASE Discard(p)
    BY <1>17, WorkspaceAssumption DEF Discard, BeginRemove, Touch,
       WorkspaceAssumption, Tool, Goto, Tidy, TypeOK, Shape, Held, Present
  <1>18. CASE NothingToDiscard(p)
    BY <1>18 DEF NothingToDiscard, Desert, Leave, Goto, Tidy, TypeOK, Shape,
       Held, Present
  <1>19. CASE RemoveOwn(p)
    BY <1>19, WorkspaceAssumption DEF RemoveOwn, BeginRemove, Touch, OwnNext,
       WorkspaceAssumption, Tool, Goto, Tidy, TypeOK, Shape, Held, Present
  <1>20. CASE OwnIsGone(p)
    BY <1>20 DEF OwnIsGone, OwnNext, Goto, Tidy, TypeOK, Shape, Held, Present
  <1>21. CASE EndRemove(p)
    BY <1>21, WorkspaceAssumption DEF EndRemove, Caller, WorkspaceAssumption,
       Tool, Goto, Tidy, TypeOK, Shape, Held, Present
  <1>22. CASE DiscardRaises(p)
    BY <1>22 DEF DiscardRaises, Leave, Contended, RemovalRaises, Goto, Tidy,
       TypeOK, Shape, Held, Present
  <1>23. CASE OwnRaises(p)
    BY <1>23 DEF OwnRaises, Exit, Leave, Contended, RemovalRaises, Tidy,
       TypeOK, Shape, Held, Present
  <1>24. CASE SweepRaises(p)
    BY <1>24 DEF SweepRaises, Contended, RemovalRaises, Goto, Tidy, TypeOK,
       Shape, Held, Present
  <1>25. CASE Glob(p)
    BY <1>25 DEF Glob, OwnNext, Goto, Tidy, TypeOK, Shape, Held, Present
  <1>26. CASE \E d \in Dirs : Look(p, d)
    BY <1>26 DEF Look, Goto, Tidy, TypeOK, Shape, Held, Present
  <1>27. CASE Stat(p)
    BY <1>27, WorkspaceAssumption DEF Stat, Stale, WorkspaceAssumption, Tool,
       Goto, Tidy, TypeOK, Shape, Held, Present
  <1>28. CASE StatRaises(p)
    BY <1>28 DEF StatRaises, Exit, Tidy, TypeOK, Shape, Held, Present
  <1>29. CASE RemoveStale(p)
    BY <1>29, WorkspaceAssumption DEF RemoveStale, BeginRemove, Touch,
       WorkspaceAssumption, Tool, Goto, Tidy, TypeOK, Shape, Held, Present
  <1>30. CASE EndSweep(p)
    BY <1>30 DEF EndSweep, Exit, Tidy, TypeOK, Shape, Held, Present
  <1>31. CASE Kill(p)
    BY <1>31, WorkspaceAssumption DEF Kill, Exit, Leave, WorkspaceAssumption,
       Tool, Tidy, TypeOK, Shape, Held, Present
  <1> QED
    BY <1>1, <1>2, <1>3, <1>4, <1>5, <1>6, <1>7, <1>8, <1>9, <1>10, <1>11, <1>12, <1>13, <1>14, <1>15,
       <1>16, <1>17, <1>18, <1>19, <1>20, <1>21, <1>22, <1>23, <1>24, <1>25, <1>26, <1>27, <1>28, <1>29, <1>30, <1>31
    DEF Act, Proceed, Unpack, Manifest, Check, Remove, Sweep

(* What a process forgets is not there any more, or known to be left. *)
LEMMA LeftStep ==
    ASSUME TypeOK, Tidy, NothingLeft, NEW p \in Procs, Act(p)
    PROVE  NothingLeft'
  <1>1. CASE \E t \in Tools[p] : Start(p, t)
    BY <1>1, WorkspaceAssumption DEF Start, WorkspaceAssumption, Tool, Goto,
       NothingLeft, TypeOK, Tidy, Shape, Held, Present
  <1>2. CASE Refuse(p)
    BY <1>2 DEF Refuse, Goto, NothingLeft, TypeOK, Tidy, Shape, Held, Present
  <1>3. CASE MakeWork(p)
    BY <1>3, WorkspaceAssumption DEF MakeWork, Put, Fresh, Known, TempBase,
       DestBase, WorkspaceAssumption, Tool, Goto, NothingLeft, TypeOK, Tidy,
       Shape, Held, Present
  <1>4. CASE Unpacked(p)
    BY <1>4, WorkspaceAssumption DEF Unpacked, Unpacks, Touch,
       WorkspaceAssumption, Tool, Goto, NothingLeft, TypeOK, Tidy, Shape, Held,
       Present
  <1>5. CASE UnpackFails(p)
    BY <1>5 DEF UnpackFails, Unpacks, Goto, NothingLeft, TypeOK, Tidy, Shape,
       Held, Present
  <1>6. CASE UnpackRaises(p)
    BY <1>6 DEF UnpackRaises, Goto, NothingLeft, TypeOK, Tidy, Shape, Held,
       Present
  <1>7. CASE RockFails(p)
    BY <1>7 DEF RockFails, Unpacks, Desert, Leave, Goto, NothingLeft, TypeOK,
       Tidy, Shape, Held, Present
  <1>8. CASE Rename(p)
    BY <1>8, WorkspaceAssumption DEF Rename, Fresh, Known, TempBase, DestBase,
       WorkspaceAssumption, Tool, Goto, NothingLeft, TypeOK, Tidy, Shape, Held,
       Present
  <1>9. CASE Copy(p)
    BY <1>9, WorkspaceAssumption DEF Copy, Put, Fresh, Known, TempBase,
       DestBase, WorkspaceAssumption, Tool, Goto, NothingLeft, TypeOK, Tidy,
       Shape, Held, Present
  <1>10. CASE EndCopy(p)
    BY <1>10, WorkspaceAssumption DEF EndCopy, WorkspaceAssumption, Tool, Goto,
       NothingLeft, TypeOK, Tidy, Shape, Held, Present
  <1>11. CASE MoveRaises(p)
    BY <1>11 DEF MoveRaises, Desert, Leave, Contended, Goto, NothingLeft,
       TypeOK, Tidy, Shape, Held, Present
  <1>12. CASE ReadManifest(p)
    BY <1>12 DEF ReadManifest, Goto, NothingLeft, TypeOK, Tidy, Shape, Held,
       Present
  <1>13. CASE ReadRaises(p)
    BY <1>13 DEF ReadRaises, Desert, Leave, Goto, NothingLeft, TypeOK, Tidy,
       Shape, Held, Present
  <1>14. CASE Resquash(p)
    BY <1>14, WorkspaceAssumption DEF Resquash, Put, Fresh, Known, TempBase,
       DestBase, WorkspaceAssumption, Tool, Goto, NothingLeft, TypeOK, Tidy,
       Shape, Held, Present
  <1>15. CASE EndResquash(p)
    BY <1>15, WorkspaceAssumption DEF EndResquash, Touch, WorkspaceAssumption,
       Tool, Goto, NothingLeft, TypeOK, Tidy, Shape, Held, Present
  <1>16. CASE EndChecks(p)
    BY <1>16 DEF EndChecks, Goto, NothingLeft, TypeOK, Tidy, Shape, Held,
       Present
  <1>17. CASE Discard(p)
    BY <1>17, WorkspaceAssumption DEF Discard, BeginRemove, Touch,
       WorkspaceAssumption, Tool, Goto, NothingLeft, TypeOK, Tidy, Shape, Held,
       Present
  <1>18. CASE NothingToDiscard(p)
    BY <1>18 DEF NothingToDiscard, Desert, Leave, Goto, NothingLeft, TypeOK,
       Tidy, Shape, Held, Present
  <1>19. CASE RemoveOwn(p)
    BY <1>19, WorkspaceAssumption DEF RemoveOwn, BeginRemove, Touch, OwnNext,
       WorkspaceAssumption, Tool, Goto, NothingLeft, TypeOK, Tidy, Shape, Held,
       Present
  <1>20. CASE OwnIsGone(p)
    BY <1>20 DEF OwnIsGone, OwnNext, Goto, NothingLeft, TypeOK, Tidy, Shape,
       Held, Present
  <1>21. CASE EndRemove(p)
    BY <1>21, WorkspaceAssumption DEF EndRemove, Caller, WorkspaceAssumption,
       Tool, Goto, NothingLeft, TypeOK, Tidy, Shape, Held, Present
  <1>22. CASE DiscardRaises(p)
    BY <1>22 DEF DiscardRaises, Leave, Contended, RemovalRaises, Goto,
       NothingLeft, TypeOK, Tidy, Shape, Held, Present
  <1>23. CASE OwnRaises(p)
    BY <1>23 DEF OwnRaises, Exit, Leave, Contended, RemovalRaises, NothingLeft,
       TypeOK, Tidy, Shape, Held, Present
  <1>24. CASE SweepRaises(p)
    BY <1>24 DEF SweepRaises, Contended, RemovalRaises, Goto, NothingLeft,
       TypeOK, Tidy, Shape, Held, Present
  <1>25. CASE Glob(p)
    BY <1>25 DEF Glob, OwnNext, Goto, NothingLeft, TypeOK, Tidy, Shape, Held,
       Present
  <1>26. CASE \E d \in Dirs : Look(p, d)
    BY <1>26 DEF Look, Goto, NothingLeft, TypeOK, Tidy, Shape, Held, Present
  <1>27. CASE Stat(p)
    BY <1>27, WorkspaceAssumption DEF Stat, Stale, WorkspaceAssumption, Tool,
       Goto, NothingLeft, TypeOK, Tidy, Shape, Held, Present
  <1>28. CASE StatRaises(p)
    BY <1>28 DEF StatRaises, Exit, NothingLeft, TypeOK, Tidy, Shape, Held,
       Present
  <1>29. CASE RemoveStale(p)
    BY <1>29, WorkspaceAssumption DEF RemoveStale, BeginRemove, Touch,
       WorkspaceAssumption, Tool, Goto, NothingLeft, TypeOK, Tidy, Shape, Held,
       Present
  <1>30. CASE EndSweep(p)
    BY <1>30 DEF EndSweep, Exit, NothingLeft, TypeOK, Tidy, Shape, Held,
       Present
  <1>31. CASE Kill(p)
    BY <1>31, WorkspaceAssumption DEF Kill, Exit, Leave, WorkspaceAssumption,
       Tool, NothingLeft, TypeOK, Tidy, Shape, Held, Present
  <1> QED
    BY <1>1, <1>2, <1>3, <1>4, <1>5, <1>6, <1>7, <1>8, <1>9, <1>10, <1>11, <1>12, <1>13, <1>14, <1>15,
       <1>16, <1>17, <1>18, <1>19, <1>20, <1>21, <1>22, <1>23, <1>24, <1>25, <1>26, <1>27, <1>28, <1>29, <1>30, <1>31
    DEF Act, Proceed, Unpack, Manifest, Check, Remove, Sweep

(* Nobody takes what another still uses. *)
LEMMA KeptStep ==
    ASSUME TypeOK, Tidy, Kept, NEW p \in Procs, Act(p)
    PROVE  Kept'
  <1>1. CASE \E t \in Tools[p] : Start(p, t)
    BY <1>1, WorkspaceAssumption DEF Start, WorkspaceAssumption, Tool, Goto,
       Kept, TypeOK, Tidy, Shape, Safe, Held, Present
  <1>2. CASE Refuse(p)
    BY <1>2 DEF Refuse, Goto, Kept, TypeOK, Tidy, Shape, Safe, Held, Present
  <1>3. CASE MakeWork(p)
    BY <1>3, WorkspaceAssumption DEF MakeWork, Put, Fresh, Known, TempBase,
       DestBase, WorkspaceAssumption, Tool, Goto, Kept, TypeOK, Tidy, Shape,
       Safe, Held, Present
  <1>4. CASE Unpacked(p)
    BY <1>4, WorkspaceAssumption DEF Unpacked, Unpacks, Touch,
       WorkspaceAssumption, Tool, Goto, Kept, TypeOK, Tidy, Shape, Safe, Held,
       Present
  <1>5. CASE UnpackFails(p)
    BY <1>5 DEF UnpackFails, Unpacks, Goto, Kept, TypeOK, Tidy, Shape, Safe,
       Held, Present
  <1>6. CASE UnpackRaises(p)
    BY <1>6 DEF UnpackRaises, Goto, Kept, TypeOK, Tidy, Shape, Safe, Held,
       Present
  <1>7. CASE RockFails(p)
    BY <1>7 DEF RockFails, Unpacks, Desert, Leave, Goto, Kept, TypeOK, Tidy,
       Shape, Safe, Held, Present
  <1>8. CASE Rename(p)
    <2>1. PICK d \in work[p], e \in Fresh :
             /\ at' = [at EXCEPT ![d] = "nowhere", ![e] = DestBase]
             /\ age' = [age EXCEPT ![d] = 0, ![e] = 0]
             /\ dest' = [dest EXCEPT ![p] = {e}]
      BY <1>8 DEF Rename
    <2>2. /\ work' = [work EXCEPT ![p] = {}]
          /\ pc[p] = "move" /\ pc' = [pc EXCEPT ![p] = "read"]
          /\ UNCHANGED <<unpackDir, tmpDir, cur, overslept>>
      BY <1>8 DEF Rename, Goto
    <2>3. Held(p)' = {e}
      BY <2>1, <2>2 DEF TypeOK, Tidy, Shape, Held
    <2>4. \A q \in Procs \ {p} : Held(q)' = Held(q)
      BY <2>1, <2>2 DEF TypeOK, Held
    <2>5. /\ e \in Present' /\ age'[e] = 0
          /\ \A x \in Dirs \ {d, e} : age'[x] = age[x] /\ (x \in Present <=> x \in Present')
      BY <1>8, <2>1 DEF Fresh, Present, TypeOK, DestBase
    <2>6. \A q \in Procs : e \notin Held(q) /\ e \notin cur[q]
      BY <2>1 DEF Fresh, Known
    <2>7. d \in Held(p)
      BY <2>1 DEF Held
    <2>8. Held(p) \subseteq Dirs /\ \A q \in Procs : Held(q) \subseteq Dirs
      BY DEF Held, TypeOK
    <2> QED
      BY <2>1, <2>2, <2>3, <2>4, <2>5, <2>6, <2>7, <2>8,
         WorkspaceAssumption
      DEF WorkspaceAssumption, Kept, Safe, TypeOK
  <1>9. CASE Copy(p)
    BY <1>9, WorkspaceAssumption DEF Copy, Put, Fresh, Known, TempBase,
       DestBase, WorkspaceAssumption, Tool, Goto, Kept, TypeOK, Tidy, Shape,
       Safe, Held, Present
  <1>10. CASE EndCopy(p)
    BY <1>10, WorkspaceAssumption DEF EndCopy, WorkspaceAssumption, Tool, Goto,
       Kept, TypeOK, Tidy, Shape, Safe, Held, Present
  <1>11. CASE MoveRaises(p)
    BY <1>11 DEF MoveRaises, Desert, Leave, Contended, Goto, Kept, TypeOK,
       Tidy, Shape, Safe, Held, Present
  <1>12. CASE ReadManifest(p)
    BY <1>12 DEF ReadManifest, Goto, Kept, TypeOK, Tidy, Shape, Safe, Held,
       Present
  <1>13. CASE ReadRaises(p)
    BY <1>13 DEF ReadRaises, Desert, Leave, Goto, Kept, TypeOK, Tidy, Shape,
       Safe, Held, Present
  <1>14. CASE Resquash(p)
    BY <1>14, WorkspaceAssumption DEF Resquash, Put, Fresh, Known, TempBase,
       DestBase, WorkspaceAssumption, Tool, Goto, Kept, TypeOK, Tidy, Shape,
       Safe, Held, Present
  <1>15. CASE EndResquash(p)
    BY <1>15, WorkspaceAssumption DEF EndResquash, Touch, WorkspaceAssumption,
       Tool, Goto, Kept, TypeOK, Tidy, Shape, Safe, Held, Present
  <1>16. CASE EndChecks(p)
    BY <1>16 DEF EndChecks, Goto, Kept, TypeOK, Tidy, Shape, Safe, Held,
       Present
  <1>17. CASE Discard(p)
    BY <1>17, WorkspaceAssumption DEF Discard, BeginRemove, Touch,
       WorkspaceAssumption, Tool, Goto, Kept, TypeOK, Tidy, Shape, Safe, Held,
       Present
  <1>18. CASE NothingToDiscard(p)
    BY <1>18 DEF NothingToDiscard, Desert, Leave, Goto, Kept, TypeOK, Tidy,
       Shape, Safe, Held, Present
  <1>19. CASE RemoveOwn(p)
    BY <1>19, WorkspaceAssumption DEF RemoveOwn, BeginRemove, Touch, OwnNext,
       WorkspaceAssumption, Tool, Goto, Kept, TypeOK, Tidy, Shape, Safe, Held,
       Present
  <1>20. CASE OwnIsGone(p)
    BY <1>20 DEF OwnIsGone, OwnNext, Goto, Kept, TypeOK, Tidy, Shape, Safe,
       Held, Present
  <1>21. CASE EndRemove(p)
    BY <1>21, WorkspaceAssumption DEF EndRemove, Caller, WorkspaceAssumption,
       Tool, Goto, Kept, TypeOK, Tidy, Shape, Safe, Held, Present
  <1>22. CASE DiscardRaises(p)
    BY <1>22 DEF DiscardRaises, Leave, Contended, RemovalRaises, Goto, Kept,
       TypeOK, Tidy, Shape, Safe, Held, Present
  <1>23. CASE OwnRaises(p)
    BY <1>23 DEF OwnRaises, Exit, Leave, Contended, RemovalRaises, Kept,
       TypeOK, Tidy, Shape, Safe, Held, Present
  <1>24. CASE SweepRaises(p)
    BY <1>24 DEF SweepRaises, Contended, RemovalRaises, Goto, Kept, TypeOK,
       Tidy, Shape, Safe, Held, Present
  <1>25. CASE Glob(p)
    BY <1>25 DEF Glob, OwnNext, Goto, Kept, TypeOK, Tidy, Shape, Safe, Held,
       Present
  <1>26. CASE \E d \in Dirs : Look(p, d)
    BY <1>26 DEF Look, Goto, Kept, TypeOK, Tidy, Shape, Safe, Held, Present
  <1>27. CASE Stat(p)
    BY <1>27, WorkspaceAssumption DEF Stat, Stale, WorkspaceAssumption, Tool,
       Goto, Kept, TypeOK, Tidy, Shape, Safe, Held, Present
  <1>28. CASE StatRaises(p)
    BY <1>28 DEF StatRaises, Exit, Kept, TypeOK, Tidy, Shape, Safe, Held,
       Present
  <1>29. CASE RemoveStale(p)
    BY <1>29, WorkspaceAssumption DEF RemoveStale, BeginRemove, Touch,
       WorkspaceAssumption, Tool, Goto, Kept, TypeOK, Tidy, Shape, Safe, Held,
       Present
  <1>30. CASE EndSweep(p)
    BY <1>30 DEF EndSweep, Exit, Kept, TypeOK, Tidy, Shape, Safe, Held, Present
  <1>31. CASE Kill(p)
    BY <1>31, WorkspaceAssumption DEF Kill, Exit, Leave, WorkspaceAssumption,
       Tool, Kept, TypeOK, Tidy, Shape, Safe, Held, Present
  <1> QED
    BY <1>1, <1>2, <1>3, <1>4, <1>5, <1>6, <1>7, <1>8, <1>9, <1>10, <1>11, <1>12, <1>13, <1>14, <1>15,
       <1>16, <1>17, <1>18, <1>19, <1>20, <1>21, <1>22, <1>23, <1>24, <1>25, <1>26, <1>27, <1>28, <1>29, <1>30, <1>31
    DEF Act, Proceed, Unpack, Manifest, Check, Remove, Sweep

(* Time makes nothing stale but what its process has left alone. *)
LEMMA TickStep ==
    ASSUME TypeOK, Tidy, NothingLeft, Kept, Tick
    PROVE  (TypeOK /\ Tidy /\ NothingLeft /\ Kept)'
  <1>1. TypeOK'
    BY WorkspaceAssumption DEF WorkspaceAssumption, Tick, TypeOK
  <1>2. Tidy'
    BY DEF Tick, Tidy, Shape, Held
  <1>3. NothingLeft'
    BY DEF Tick, NothingLeft, Held, Present
  <1>4. Kept'
    BY WorkspaceAssumption DEF WorkspaceAssumption, Tick, Kept, Safe, Held, Present, TypeOK
  <1> QED
    BY <1>1, <1>2, <1>3, <1>4

(* Every step keeps the invariant. *)
LEMMA Invariance == Spec => []IInv
  <1>1. Init => IInv
    BY WorkspaceAssumption
    DEF WorkspaceAssumption, Init, IInv, TypeOK, Tidy, Shape, NothingLeft, Kept, Held,
        Present, Place, Location
  <1>2. IInv /\ [Next]_vars => IInv'
    <2> SUFFICES ASSUME IInv, [Next]_vars
                 PROVE  IInv'
      OBVIOUS
    <2>1. CASE Tick
      BY <2>1, TickStep DEF IInv
    <2>2. ASSUME NEW p \in Procs, Act(p)
          PROVE  IInv'
      BY <2>2, TypeStep, TidyStep, LeftStep, KeptStep DEF IInv
    <2>3. CASE UNCHANGED vars
      BY <2>3 DEF vars, IInv, TypeOK, Tidy, Shape, NothingLeft, Kept, Safe, Held, Present
    <2> QED
      BY <2>1, <2>2, <2>3 DEF Next, Act
  <1> QED
    BY <1>1, <1>2, PTL DEF Spec

-----------------------------------------------------------------------------
(* The places, ages and memories of the processes have their types. *)
THEOREM TypeCorrect == Spec => []TypeOK
  BY Invariance, PTL DEF IInv

(* A directory nobody is going to remove was left by a process that was    *)
(* killed, deserted it, or could not remove it or what it removes before   *)
(* it (cleanup_unpack, _unpack_cmd, get_snap_manifest, get_rock_manifest,  *)
(* recursive_rm): for any number of processes. *)
THEOREM NothingIsLeft == Spec => []NothingLeft
  BY Invariance, PTL DEF IInv

(* No sweep takes a directory from a process that touches it in time,      *)
(* however late the sweep acts on what it saw (cleanup_unpack). *)
THEOREM TouchedStays == Spec => []TouchedIsKept
  <1>1. IInv => TouchedIsKept
    BY DEF IInv, Kept, Safe, TouchedIsKept, Contended
  <1> QED
    BY <1>1, Invariance, PTL
=============================================================================
