------------------------------ MODULE MCBuildJobs ------------------------------
(* Two jobs for a server that takes one at a time. *)
EXTENDS BuildJobs

================================================================================
