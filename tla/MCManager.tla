------------------------------ MODULE MCManager ------------------------------
(* Two names, and a body for each thing a request can do. *)
EXTENDS Manager

MCBody == {[name |-> "a",    config |-> Absent],
           [name |-> "b",    config |-> "full"],
           [name |-> Absent, config |-> "bogus"],
           [name |-> Blank,  config |-> Absent]}
=============================================================================
