---------------------------- MODULE MCTableSync ----------------------------
(* Instances of TableSync for TLC. *)
EXTENDS TableSync

\* The master has a folder with two files in it.  One has the name of the
\* slave's file and is older or newer.
Masters ==
    {[df |-> {Row(1, 0, "folder", 0), Row(f, 1, "file", 2), Row(4, 1, "other", 2)},
      st |-> {[id |-> 2, md5 |-> "x"]}] : f \in {3, 7}}

\* The slave has a folder and a file of those names.
Locals ==
    {[df |-> {Row(5, 0, "folder", 0), Row(6, 5, "file", 5)},
      st |-> {[id |-> 5, md5 |-> "y"]}]}

\* What the proof that ParentsExist holds asks of the tables at first.
ASSUME TidyAssumption == Tidy
=============================================================================
