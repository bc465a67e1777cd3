---------------------------- MODULE MCControlPort -----------------------------
(* Requests for ControlPort: below, at and above what a packet holds. *)
EXTENDS ControlPort

Request(cmd, blocks) == [cmd |-> cmd, blocks |-> blocks]

Short == {Request("CMD_LMS7002_RD", 1), Request("CMD_ADF4002_WR", 18)}
Long == {Request("CMD_LMS7002_RD", 14), Request("CMD_LMS7002_RD", 29),
         Request("CMD_LMS7002_WR", 15), Request("CMD_ANALOG_VAL_RD", 15),
         Request("CMD_ADF4002_WR", 19)}
All == Short \cup Long
=============================================================================
