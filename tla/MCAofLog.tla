------------------------------ MODULE MCAofLog ------------------------------
(***************************************************************************)
(* An instance of AofLog for TLC.                                          *)
(***************************************************************************)
EXTENDS AofLog

\* Enough for two incremental files, two base files, the one being written
\* and those the background thread still holds.
Files == 1..9

AllFaults == {"kill", "power", "write", "fsync", "fork", "child", "rename", "persist",
              "dirfsync", "history"}
=============================================================================
