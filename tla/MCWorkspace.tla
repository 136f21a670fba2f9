---------------------------- MODULE MCWorkspace -----------------------------
(* A small workspace.  nmap prints a closed and an open port; nuclei may   *)
(* print one detection and a line that cannot be read.                     *)
EXTENDS Workspace

MCNmapOutputs   == {<<>>, <<[port |-> 22, state |-> "closed"],
                            [port |-> 80, state |-> "open"]>>}
MCNucleiOutputs == {<<[json |-> FALSE, cve |-> "", severity |-> ""],
                      [json |-> TRUE, cve |-> "CVE", severity |-> "high"]>>}
=============================================================================
