------------------------------- MODULE MCAcid -------------------------------
(* Acid for TLC: the programs that the runs look at. *)
EXTENDS Acid

CONSTANTS ca, cb

\* Two callers, one page; the power may fail but does not.
Busy == [asks |-> {<<ca, "fsync">>, <<cb, "fsync_journal">>}, canceled |-> {}, opens |-> {0},
         expands |-> {}, failures |-> {"power"}, stores |-> 2, crashes |-> 0]

\* A caller that is canceled, and waits in two steps or not at all; then it closes.
Async == [Busy EXCEPT
    !.asks = {<<ca, "async">>, <<ca, "snapshot">>, <<ca, "close">>, <<cb, "fsync">>},
    !.canceled = {ca}, !.stores = 1]

\* A store that grows; the power fails, or the process is killed.
Failing == [Busy EXCEPT !.asks = {<<ca, "fsync_journal">>}, !.expands = {2}, !.crashes = 1]
Killed == [Failing EXCEPT !.failures = {"kill"}, !.opens = {2}, !.expands = {}, !.stores = 1]

AllPrograms == {Busy, Async, Failing, Killed}

\* What the theorems of AcidProofs ask of the programs.
ASSUME Grows(AllPrograms) /\ OneFailure(AllPrograms)

\* First it is killed, then the power fails.
BothPrograms == {[Failing EXCEPT !.failures = {"kill", "power"}, !.opens = {2}, !.expands = {}]}
=============================================================================
