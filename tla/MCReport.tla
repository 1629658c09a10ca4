------------------------------ MODULE MCReport ------------------------------
(***************************************************************************)
(* Instances of the ReportPipeline model small enough for TLC.             *)
(***************************************************************************)
EXTENDS ReportProperties

(* Everything but what only an administrator repairs.                      *)
Survivable == {"provider", "invalid", "delete"}
=============================================================================
