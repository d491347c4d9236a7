------------------------------- MODULE MCRuntime -------------------------------
(***************************************************************************)
(* The parts of the sidecar process, each on its own: they share no state  *)
(* but the session they belong to, so one behaviour runs one part, chosen  *)
(* at the start, and the others stay as they were.                         *)
(***************************************************************************)
EXTENDS WindowsExecution, MacExecution, SidecarServer, FrameStore, InputDispatch, TLC

VARIABLE part

Symmetry == Permutations(Controls)

\* UiaStore's variables serve both backends.
WindowsVars == <<pc, req, job>>
MacOwnVars  == <<mpc, mreq, mjob>>

RuntimeInit ==
  /\ part \in {"windows", "macos", "server", "frames", "input"}
  /\ Init /\ MacInit /\ SideInit /\ FrameInit /\ InputInit
  /\ layout = CHOOSE l \in Layouts : TRUE
  /\ part = "frames" \/ platform = "windows"
  /\ part = "input" \/ os = "windows"

RuntimeNext ==
  /\ UNCHANGED part
  /\ \/ /\ part = "windows" /\ Next
        /\ UNCHANGED <<MacOwnVars, sideVars, frameVars, inputVars>>
     \/ /\ part = "macos" /\ MacNext
        /\ UNCHANGED <<WindowsVars, sideVars, frameVars, inputVars>>
     \/ /\ part = "server" /\ SideNext
        /\ UNCHANGED <<vars, MacOwnVars, frameVars, inputVars>>
     \/ /\ part = "frames" /\ FrameNext
        /\ UNCHANGED <<vars, MacOwnVars, sideVars, inputVars>>
     \/ /\ part = "input" /\ InputNext
        /\ UNCHANGED <<vars, MacOwnVars, sideVars, frameVars>>

RuntimeSpec == RuntimeInit /\ [][RuntimeNext]_<<part, vars, macVars, sideVars, frameVars, inputVars>>

\* The types of every part.
RuntimeTypeOK == TypeOK /\ MacTypeOK /\ SideTypeOK /\ FrameTypeOK /\ InputTypeOK
=============================================================================
