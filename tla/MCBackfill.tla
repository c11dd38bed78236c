----------------------------- MODULE MCBackfill -----------------------------
EXTENDS Backfill, TLC
OneTask == <<"pull">>
AllTasks == {{}}
PullTargets == {{"pull"}, {"pull", "repository"}}
Symmetric == Permutations(Worker) \cup Permutations(Msg)
=============================================================================
