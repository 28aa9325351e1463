------------------------------- MODULE MCCron -------------------------------
(* Small instances of Cron. *)
EXTENDS Cron

CONSTANTS backup, report, lost

Of(kind, times) == [kind |-> kind, times |-> times]
Often == Of("every", {1})
Once == Of("at", {1})
Twice == Of("cron", {1, 2})
MCSchedules ==
    [j \in JobIds |-> CASE j = backup -> {Once, Twice} [] j = report -> {Once, Often} [] OTHER -> {Once}]

\* What [cron] declares, and after edits of it; a schedule may have no next time.
Decl(schedule, enabled) == [schedule |-> schedule, enabled |-> enabled]
NoConfig == [j \in {} |-> Decl(Once, TRUE)]
MCConfigs ==
    {NoConfig, [j \in {backup} |-> Decl(Twice, FALSE)],
     [j \in {backup, report} |-> Decl(IF j = backup THEN Once ELSE Often, TRUE)]}
NoConfigs == {NoConfig}
=============================================================================
