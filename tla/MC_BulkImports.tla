----------------------------- MODULE MC_BulkImports -----------------------------
(***************************************************************************)
(* The bulk importers and the dispatcher they share.  A behaviour starts   *)
(* in one of the settings and stays there.                                 *)
(*   "content"  two executions of a content bundle, one after the other;   *)
(*   "files"    two executions of a bundle of files that reaches one       *)
(*              project under two names;                                   *)
(*   "overlap"  the same side by side;                                     *)
(*   "pool"     a dispatch of its own, whose groups end as they like.      *)
(***************************************************************************)
EXTENDS ContentImport, DispatchPool, TLC

CONSTANTS r1, r2, p1, p2, k1, k2, a, b, c
VARIABLE setting

-----------------------------------------------------------------------------
(* Bundles.                                                                *)

MC_Keys == (p1 :> k1) @@ (p2 :> k2)
MC_Size == (a :> 1) @@ (b :> 2) @@ (c :> 2)

Item(kind, digest, byType) == [kind |-> kind, type |-> "report", digest |-> digest, byType |-> byType]

\* A logo, the same file twice and links; another file for a second project.
ContentBundle ==
    <<[who |-> k1, items |-> <<Item("logo", a, FALSE), Item("file", a, FALSE), Item("file", a, FALSE),
                               Item("links", a, FALSE)>>],
      [who |-> p2, items |-> <<Item("file", b, FALSE)>>]>>

\* Files for one project under both of its names, and one wanted by its type only.
FileBundle ==
    <<[who |-> k1, items |-> <<Item("file", a, FALSE)>>],
      [who |-> p2, items |-> <<Item("file", b, TRUE), Item("file", a, TRUE)>>],
      [who |-> p1, items |-> <<Item("file", b, FALSE), Item("file", a, FALSE)>>]>>

Files == INSTANCE ContentImport WITH Bundle <- FileBundle, Merges <- TRUE
Beside == INSTANCE ContentImport WITH Bundle <- FileBundle, Merges <- TRUE,
                                      MaxEdits <- 0, MaxFaults <- 0, MaxCrashes <- 0

\* Counts of workers below, in and above the range.
WorkerCounts == {-1, 1, 9}

\* The theorems about the dispatcher speak of this one.
ASSUME PoolFits == PoolAssumption

\* One run after the other; at most two of an edit, a fault and a crash come
\* together; only p1 is edited.
InTurn == beside' = {} /\ edits' + faults' + crashes' <= 2 /\ touched' \subseteq {p1}

-----------------------------------------------------------------------------
importVars == vars
settingVars == <<setting, importVars, poolVars>>

\* A pool nobody uses.
NoPool == PoolInit /\ parent /\ count = 1

Choose ==
  /\ setting \in {"content", "files", "overlap", "pool"}
  /\ Init
  /\ IF setting = "pool" THEN PoolInit /\ \A p \in Projects : db[p].logo = NoLogo ELSE NoPool

GoOn ==
  /\ \/ setting = "content" /\ Next /\ InTurn /\ UNCHANGED poolVars
     \/ setting = "files" /\ Files!Next /\ InTurn /\ UNCHANGED poolVars
     \/ setting = "overlap" /\ Beside!Next /\ UNCHANGED poolVars
     \/ setting = "pool" /\ PoolNext /\ UNCHANGED importVars
  /\ UNCHANGED setting

InContent(A) == setting = "content" /\ A /\ UNCHANGED <<setting, poolVars>>
InPool(A) == setting = "pool" /\ A /\ UNCHANGED <<setting, importVars>>

\* A command works as long as it is not killed.  Goroutines are scheduled; a
\* group's process returns, its calls being bounded by the pool's and the
\* clients' own time limits.
SettingSpec ==
  /\ Choose /\ [][GoOn]_settingVars
  /\ \A r \in Runs : WF_settingVars(InContent(Work(r)))
  /\ WF_settingVars(InPool(Coordinate))
  /\ \A w \in WorkerIds : WF_settingVars(InPool(WorkerSteps(w)))
  /\ WF_settingVars(InPool(CallerSteps))

-----------------------------------------------------------------------------
\* A dispatch returns: nobody waits for a channel for ever, cancelled or not.
DispatchReturns == setting = "pool" ~> main = "returned"

\* A run that is not killed ends and reports.
RunsEndInTurn ==
  \A r \in Runs : (setting = "content" /\ phase[r] = "applying") ~> phase[r] \in {"over", "crashed"}

-------------------------------------------------------------------------------
\* A fatal outcome stops the handing out, and the dispatch then returns.
DispatchEnds == NothingAfterFatal /\ DispatchReturns
===============================================================================
