------------------------------ MODULE MCSystem ------------------------------
(***************************************************************************)
(* An instance of System for TLC: command lines that reach every way       *)
(* through main, three groups, device trees with and without each part of  *)
(* the controller, and one more client.                                    *)
(***************************************************************************)
EXTENDS System

CONSTANT other

Lines == {{}, {"-t", "all"}, {"all"}, {"all", "devices", "showfail"},
          {"show_groups", "all"}, {"register"}, {"register", "name", "calc"},
          {"group", "register", "name", "calc", "el0", "el1"},
          {"bitfield", "name", "showfail", "el1"}}
TwoGroups == <<"ID", "PMU">>
OneGroup == <<"GICD">>
DeviceTrees == {NoNode, {"gicd"}, {"gicd", "gicc"}, {"gicd", "gicc", "gich", "gicv"}}
=============================================================================
