--------------------------- MODULE MCDailyBriefQueue ---------------------------
(* One batch and one single issue, two workers. *)
EXTENDS DailyBriefQueue

================================================================================
