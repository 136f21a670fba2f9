----------------------------- MODULE ScanDaemon -----------------------------
(***************************************************************************)
(* The audit daemon (netsentinel-scan/main.rs).  A call of deep_scan runs  *)
(* nmap, then nuclei, each as a child process behind a time limit of its   *)
(* own: without nmap's answer the call fails, without nuclei's it goes on  *)
(* with what nmap found.  A limit that fires drops the future of the       *)
(* child, which does not kill it (kill_on_drop is off).  Calls share       *)
(* nothing.  Workspace.tla composes the actions with the page that calls.  *)
(*                                                                         *)
(* A child prints entries: ports for nmap, detections or lines that are no *)
(* JSON for nuclei.                                                        *)
(***************************************************************************)
EXTENDS Integers, Sequences, FiniteSets

CONSTANTS Calls,          \* calls of deep_scan
          NmapOutputs,    \* what nmap may print about the target
          NucleiOutputs   \* and nuclei

VARIABLES phase,      \* per call: the child awaited, or how the call ended
          findings,   \* per call, those it has
          children,   \* processes that run: their call and tool
          printed     \* history: what nmap printed for the call
daemon == <<phase, findings, children, printed>>

Awaiting  == {"nmap", "nuclei"}
Child(c, tool) == [call |-> c, tool |-> tool]

DaemonInit == /\ phase = [c \in Calls |-> "idle"]
              /\ findings = [c \in Calls |-> <<>>]
              /\ children = {}
              /\ printed = [c \in Calls |-> <<>>]

-----------------------------------------------------------------------------
(* run_nmap keeps the open ports.                                          *)
OpenPorts(output) ==
  LET open == SelectSeq(output, LAMBDA entry : entry.state = "open")
  IN [i \in DOMAIN open |-> [port |-> open[i].port, cve |-> "", severity |-> "info"]]

map_severity(s) == IF s \in {"critical", "high", "medium", "low"} THEN s ELSE "info"

(* run_nuclei keeps every line it can read; a template without a CVE has   *)
(* the empty one.                                                          *)
Detections(output) ==
  LET read == SelectSeq(output, LAMBDA line : line.json)
  IN [i \in DOMAIN read |-> [port |-> 0, cve |-> read[i].cve,
                               severity |-> map_severity(read[i].severity)]]

Finding == [port : Nat, cve : STRING, severity : STRING]

(* What a tool prints is read into a list of findings.                     *)
ASSUME OutputAssumption ==
  /\ \A output \in NmapOutputs : OpenPorts(output) \in Seq(Finding)
  /\ \A output \in NucleiOutputs : Detections(output) \in Seq(Finding)

-----------------------------------------------------------------------------
Goto(c, from, to) == phase[c] = from /\ phase' = [phase EXCEPT ![c] = to]

deep_scan(c) ==
  /\ Goto(c, "idle", "nmap")
  /\ children' = children \cup {Child(c, "nmap")}
  /\ UNCHANGED <<findings, printed>>

(* nmap cannot be started, or ends with an error code.                     *)
NmapFails(c) ==
  /\ \/ Goto(c, "idle", "error")
     \/ Goto(c, "nmap", "error")
  /\ children' = children \ {Child(c, "nmap")}
  /\ UNCHANGED <<findings, printed>>

(* Nuclei is left out by the environment, is absent or cannot be started,  *)
(* or runs.                                                                *)
NmapExits(c, output) ==
  /\ findings' = [findings EXCEPT ![c] = OpenPorts(output)]
  /\ printed' = [printed EXCEPT ![c] = output]
  /\ \/ /\ Goto(c, "nmap", "answered")
        /\ children' = children \ {Child(c, "nmap")}
     \/ /\ Goto(c, "nmap", "nuclei")
        /\ children' = (children \ {Child(c, "nmap")}) \cup {Child(c, "nuclei")}

NmapTimeout(c) ==
  /\ Goto(c, "nmap", "error")
  /\ UNCHANGED <<findings, children, printed>>

(* Mutant: nuclei's findings take the place of nmap's.                     *)
NucleiExits_Replaces(c, output) ==
  /\ Goto(c, "nuclei", "answered")
  /\ findings' = [findings EXCEPT ![c] = Detections(output)]
  /\ children' = children \ {Child(c, "nuclei")}
  /\ UNCHANGED printed

(* Its exit status is not looked at.                                       *)
NucleiExits(c, output) ==
  /\ Goto(c, "nuclei", "answered")
  /\ findings' = [findings EXCEPT ![c] = @ \o Detections(output)]
  /\ children' = children \ {Child(c, "nuclei")}
  /\ UNCHANGED printed

NucleiTimeout(c) ==
  /\ Goto(c, "nuclei", "answered")
  /\ UNCHANGED <<findings, children, printed>>

(* A child nobody awaits any more comes to its end.                        *)
LeftoverExits(child) ==
  /\ phase[child.call] \notin Awaiting
  /\ children' = children \ {child}
  /\ UNCHANGED <<phase, findings, printed>>

(* The daemon dies and systemd ends its processes with it.                 *)
DaemonDies ==
  /\ \E c \in Calls : phase[c] \in Awaiting
  /\ phase' = [c \in Calls |-> IF phase[c] \in Awaiting THEN "error" ELSE phase[c]]
  /\ findings' = [c \in Calls |-> IF phase[c] \in Awaiting THEN <<>> ELSE findings[c]]
  /\ children' = {}
  /\ UNCHANGED printed

DaemonNext ==
  \/ \E c \in Calls :
       \/ phase[c] = "nmap" /\ NmapFails(c)
       \/ NmapTimeout(c) \/ NucleiTimeout(c)
       \/ \E output \in NmapOutputs : NmapExits(c, output)
       \/ \E output \in NucleiOutputs : NucleiExits(c, output)
  \/ \E child \in children : LeftoverExits(child)
  \/ DaemonDies

(* Only the limits are sure to end a wait.                                 *)
DaemonFairness ==
  \A c \in Calls : /\ WF_daemon(NmapTimeout(c))
                   /\ WF_daemon(NucleiTimeout(c))

-----------------------------------------------------------------------------
(* An answer holds every open port nmap printed, whatever became of nuclei *)
(* (main.rs:37-45 go on with nmap alone), and a failed call holds nothing. *)
AuditKeepsPorts ==
  \A c \in Calls :
    /\ phase[c] = "answered" =>
         LET ports == OpenPorts(printed[c])
         IN SubSeq(findings[c], 1, Len(ports)) = ports
    /\ phase[c] = "error" => findings[c] = <<>>
=============================================================================
