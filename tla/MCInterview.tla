----------------------------- MODULE MCInterview ----------------------------
(***************************************************************************)
(* Instances of the Interview model small enough for TLC.                  *)
(***************************************************************************)
EXTENDS InterviewProperties

(* What moves the questions with words, and what ends the interview beside *)
(* it; silences are in the run of the endings.                             *)
MainEntries == EntryKinds \ {"silence", "sweep", "delete"}

(* All but the deletion, which no handler in flight looks at.              *)
RaceEntries == EntryKinds \ {"delete"}

(* Everything that may go wrong.                                           *)
AllFaults == FaultKinds
=============================================================================
