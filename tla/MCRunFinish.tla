---------------------------- MODULE MCRunFinish ----------------------------
(***************************************************************************)
(* The runs considered: two unattended ones with a broker - work that must *)
(* leave a summary, and a task under contract, rejected as often as it may *)
(* be, that tolerates bus errors -, a session and an unattended run of a   *)
(* file-only colony.                                                       *)
(***************************************************************************)
EXTENDS RunFinish, DispatchChecks

Plain == [mode |-> "afk", broker |-> TRUE, required |-> TRUE, gate |-> FALSE, task |-> TRUE,
          capped |-> FALSE, summary |-> "auto", contract |-> FALSE, mutates |-> TRUE]

MCSetups ==
    {[Plain EXCEPT !.gate = TRUE, !.summary = "required"],
     [Plain EXCEPT !.required = FALSE, !.gate = TRUE, !.capped = TRUE, !.summary = "disabled",
                   !.contract = TRUE],
     [Plain EXCEPT !.mode = "session"],
     [Plain EXCEPT !.broker = FALSE, !.required = FALSE, !.gate = TRUE, !.summary = "disabled"]}
=============================================================================
