----------------------------- MODULE PrintEnding -----------------------------
(***************************************************************************)
(* How a print ended, from what its close-out read, and the rule that its  *)
(* closing charge is worked out by (printobserver-core: `Ending` and       *)
(* `charge_rule` of accounting.rs).                                        *)
(***************************************************************************)
EXTENDS Integers

CONSTANT None \* what the printer does not report

\* A job read that shows the print finished: its own file, complete, and at the
\* end of a size the read or the file's facts name.
ReadFinished(e) ==
  LET size == IF e.job.size # None THEN e.job.size ELSE e.size IN
  /\ e.job # None
  /\ e.file # None => e.job.file = e.file
  /\ e.job.complete
  /\ size # None /\ size > 0 /\ e.job.position = size

\* The printer's own error: it pushed one, or the channel was down during the
\* stop and the job says so.
PrinterErrored(e) == e.pushes.firmware_error \/ (e.pushes.gap /\ e.job # None /\ e.job.printer_error)

\* `Ending::outcome`.
Outcome(e) ==
  IF ReadFinished(e) \/ e.completed_since THEN "completed"
  ELSE IF e.cancelled_here THEN "cancelled"
  ELSE IF e.state \in {"error", "offline"} THEN
         IF PrinterErrored(e) THEN "failed" ELSE "interrupted"
  ELSE IF e.pushes.reset THEN "interrupted"
  ELSE "cancelled"

ChargeRule(outcome) == IF outcome = "completed" THEN "slicer_estimate" ELSE "extruded_to_last_position"
=============================================================================
