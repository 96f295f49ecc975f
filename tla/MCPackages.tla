------------------------------ MODULE MCPackages ------------------------------
(* PackageRegistration over small directories and images.                  *)
EXTENDS PackageRegistration

(* A wildcard between two bytes, as in the pattern of the code.            *)
ShortPattern == <<1, Wildcard, 0>>

AllImages == UNION {[1 .. n -> {0, 1}] : n \in 0 .. 4}

(* Two identities, of which one also with a path that does not fit, and a   *)
(* file that cannot be read.                                               *)
Packages == {[id |-> 1, readable |-> TRUE, fits |-> TRUE],
             [id |-> 1, readable |-> TRUE, fits |-> FALSE],
             [id |-> 2, readable |-> TRUE, fits |-> TRUE],
             [id |-> 1, readable |-> FALSE, fits |-> TRUE]}

Folders == [1 .. 2 -> Packages \cup {NoPackage}]

(* Two entries, each a mod with any two files or a file that is no mod.    *)
AllTrees == [1 .. 2 -> Folders \cup {NotADirectory}]
================================================================================
