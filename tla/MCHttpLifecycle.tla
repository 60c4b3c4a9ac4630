----------------------------- MODULE MCHttpLifecycle -----------------------------
(* Small instances of HttpLifecycle for TLC. *)
EXTENDS HttpLifecycle

\* No action reads the record of an exchange that is done and whose event has been
\* handled or was never posted, so two states that differ only there are one.
Gone(e) == ex[e].at = "done" /\ e \notin Queued \cup {taking}
Seen == <<connVars, loopVars, events, count, phase, cut, late,
          [e \in Exchanges |-> IF Gone(e) THEN "gone" ELSE "held"],
          [e \in {d \in Exchanges : ~Gone(d)} |-> ex[e]]>>
================================================================================
