----------------------------- MODULE MC_SearchSync -----------------------------
(***************************************************************************)
(* The outbox of one API process at a time, in two settings; a behaviour   *)
(* starts in one of them and stays there.                                  *)
(*   "crash"  one project, a second process that is started after the      *)
(*            first has ended, all bounds of the configuration;            *)
(*   "two"    two projects, one process, two revisions and one task.       *)
(***************************************************************************)
EXTENDS SearchSyncRefinement

CONSTANTS p1, p2, w1, w2
VARIABLE setting

settingVars == <<setting, vars>>

Choose == setting \in {"crash", "two"} /\ Init

\* The processes are alike: w1 is started first.
InOrder == process'[w2] = "new" \/ process[w1] # "new"

\* What a setting leaves out.
Within ==
    /\ IF setting = "crash" THEN InOrder /\ project'[p2] = project[p2]
       ELSE /\ process'[w2] = "new"
            /\ \A p \in Projects : project'[p].revision <= 2 /\ Len(tasks'[p]) <= 1
    /\ UNCHANGED setting

GoOn == Next /\ Within

\* The process is restarted when it ends (compose: restart unless-stopped), its
\* goroutine keeps running, the engine works through its queue and clocks advance.
Fairness ==
    /\ \A w \in Workers :
        WF_settingVars(Start(w) /\ Within) /\ WF_settingVars(Reconcile(w) /\ Within)
    /\ \A p \in Projects :
        /\ WF_settingVars(Engine(p) /\ Within)
        /\ WF_settingVars(LeaseExpires(p) /\ Within)
        /\ WF_settingVars(RetryDue(p) /\ Within)

SettingSpec == Choose /\ [][GoOn]_settingVars /\ Fairness
===============================================================================
