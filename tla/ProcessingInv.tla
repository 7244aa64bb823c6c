--------------------------- MODULE ProcessingInv ---------------------------
(***************************************************************************)
(* The inductive invariants behind the safety properties of Processing.     *)
(* ProcessingProofs proves them for every value of the constants; the runs   *)
(* map_locking and map_complete check them on small ones.                    *)
(***************************************************************************)
EXTENDS Processing

-----------------------------------------------------------------------------
(* The locks.  A slot is well locked when each of its steps that deletes,    *)
(* creates or evaluates a model, and each unlock, is reached with `mutex'    *)
(* held by the GUI, or is not reached at all.                                *)

Takes == {"lock", "tryLock"}
Guarded == ModelSteps \cup {"unlock"}

\* A GUI thread that has the steps s to do, while `owner' holds mutex, holds
\* mutex before step i: it does now or takes it at step j, and does not
\* release it in between.
Held(s, owner, i) ==
    \E j \in 0 .. i - 1 :
        /\ IF j = 0 THEN owner = "gui" ELSE s[j] \in Takes
        /\ \A k \in j + 1 .. i - 1 : s[k] # "unlock"

\* It does not get to step i, because it waits for itself before: it holds
\* mutex now and takes it again.
Blocked(s, owner, i) ==
    /\ owner = "gui"
    /\ \E j \in 1 .. i - 1 : s[j] \in Takes /\ \A k \in 1 .. j - 1 : s[k] # "unlock"

WellLocked(s, owner) ==
    \A i \in 1 .. Len(s) : s[i] \in Guarded => Held(s, owner, i) \/ Blocked(s, owner, i)

\* ModelsAreLocked holds now, and the steps the slot still has to do keep it.
LockInv ==
    (~timedOut /\ pc # "crashed") =>
      /\ mutex = "draw" <=> pc \in InModelLock
      /\ WellLocked(todo, mutex)
      /\ pc \in {"optTest", "optDraw"} => loc.using = "maximizer"
      /\ NoDangling

-----------------------------------------------------------------------------
(* The refinement of a map.                                                  *)

\* the ranks before n have been painted with the current model
Covered(n) == \A r \in Ranks : r < n => bigMap[r] = "fresh"

StartOfLevel == BatchStart(Area(dims), refineLevel, refineMax)
StopOfLevel == BatchStop(Area(dims), refineLevel, refineMax)

Between == {"idle", "starting", "loop", "check", "emit", "refine", "size", "level", "batch"}
InLevel == {"size", "level", "batch", "obstacles", "pixel", "lockModel", "test", "paint"}
InBatch == {"obstacles", "pixel", "lockModel", "test", "paint"}
AtPixel == {"lockModel", "test", "paint"}
AfterBatch == {"field", "fieldRate", "fieldDraw", "fieldPoint", "fieldLock",
               "fieldTest", "incRead", "incWrite"}

\* As long as the GUI leaves a refinement alone, the levels before the current
\* one are painted, and of the current one the ranks before loc.i.
Undisturbed == ~disturbed /\ Paints(Painter) /\ "maximizer" \notin models
Painted ==
    /\ pc # "clearMaps" => dims = mapSize
    /\ refineLevel > refineMax => MapComplete
    /\ pc \in InLevel => refineLevel <= refineMax
    /\ pc \in {"batch"} \cup InBatch => refineLevel >= 1
    /\ (pc \in Between /\ refineLevel \in 1 .. refineMax) => Covered(StartOfLevel)
    /\ pc \in InBatch => loc.i >= 0 /\ Covered(loc.i)
    /\ pc = "obstacles" => loc.stop = StopOfLevel
    /\ pc \in InBatch \ {"obstacles"} =>
          loc.stop \in {StopOfLevel, Area(dims)} /\ loc.stop <= Area(dims)
    /\ pc \in AtPixel => loc.i < loc.stop /\ loc.pixel = loc.i /\ loc.current
    /\ (pc \in AfterBatch /\ refineLevel >= 1) => refineLevel <= refineMax /\ Covered(StopOfLevel)
    /\ pc = "incWrite" => loc.level = refineLevel

RefineInv ==
    /\ pc \in {"clearSize", "clearMaps", "setMax"} => refineLevel = 0
    /\ Undisturbed => Painted
=============================================================================
