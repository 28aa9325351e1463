---------------------------- MODULE MCSopEngine ----------------------------
(* Small instances of SopEngine: one SOP per way of asking for approval. *)
EXTENDS SopEngine

CONSTANTS deploy, alarm, batch

MCSOPs == {deploy, alarm, batch}

Plain == [confirm |-> FALSE, kind |-> "execute"]
Confirmed == [confirm |-> TRUE, kind |-> "execute"]
Checkpoint == [confirm |-> FALSE, kind |-> "checkpoint"]

MCDef3 == [s \in MCSOPs |->
    CASE s = deploy -> [mode |-> "supervised", priority |-> "normal", cooldown |-> 2,
                        maxConcurrent |-> 1, steps |-> <<Plain, Confirmed>>]
      [] s = alarm  -> [mode |-> "priority_based", priority |-> "critical", cooldown |-> 0,
                        maxConcurrent |-> 2, steps |-> <<Confirmed, Checkpoint>>]
      [] s = batch  -> [mode |-> "deterministic", priority |-> "low", cooldown |-> 1,
                        maxConcurrent |-> 1, steps |-> <<Plain, Checkpoint, Plain>>]]
\* Shorter, to have room for a third run: a gate before the first step or the last.
MCBrief == [s \in MCSOPs |->
    CASE s = deploy -> [MCDef3[s] EXCEPT !.steps = <<Plain, Plain>>]
      [] s = alarm  -> [MCDef3[s] EXCEPT !.steps = <<Plain, Confirmed>>]
      [] s = batch  -> [MCDef3[s] EXCEPT !.steps = <<Plain, Checkpoint>>]]
MCReloadable == {alarm}
\* One urgent SOP whose first step says requires_confirmation.
JustAlarm == {alarm}
AlarmDef == [s \in JustAlarm |-> MCDef3[s]]
=============================================================================
