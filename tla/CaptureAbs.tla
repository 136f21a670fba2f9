----------------------------- MODULE CaptureAbs -----------------------------
(***************************************************************************)
(* The Capture1 service as its callers know it (netsentinel-proto): at     *)
(* most one capture runs, a start is accepted only when none does, and a   *)
(* stop ends the one that runs.                                            *)
(***************************************************************************)
EXTENDS Integers

CONSTANTS Captures, NULL

VARIABLES running,   \* the capture in progress, or NULL
          over       \* captures that have ended or never began
vars == <<running, over>>

Init == running = NULL /\ over = {}

Start(c) == /\ running = NULL /\ c \notin over
            /\ running' = c
            /\ UNCHANGED over

FailedStart(c) == /\ running = NULL /\ c \notin over
                  /\ over' = over \cup {c}
                  /\ UNCHANGED running

(* A stop that is answered, or the death of the daemon.                    *)
End == /\ running # NULL
       /\ over' = over \cup {running}
       /\ running' = NULL

Next == (\E c \in Captures : Start(c) \/ FailedStart(c)) \/ End

Spec == Init /\ [][Next]_vars
=============================================================================
