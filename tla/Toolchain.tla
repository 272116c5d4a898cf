------------------------------- MODULE Toolchain ------------------------------
(***************************************************************************)
(* The tools one after the other: an executable and its patch become an    *)
(* image, XenonAnalyse makes the file of switch tables, XenonRecomp prints *)
(* a function of the image with that file, and the function runs.          *)
(*                                                                         *)
(* XenonAnalyse takes one file and applies no patch: it is run on the      *)
(* patched file, or on the base.                                           *)
(***************************************************************************)
EXTENDS XexImage

CONSTANTS
  Decode(_), Digit, High, Back, Layout(_), Inputs

ASSUME ScanAssumption == Back \in Nat

VARIABLES
  analysed, stage, type, section, data, tables, line, armed, printed,
  pc, reg, upper, compared, ctr, guard, outcome

Switches == INSTANCE SwitchTables

switchVars ==
  <<analysed, stage, type, section, data, tables, line, armed, printed,
    pc, reg, upper, compared, ctr, guard, outcome>>

(* What of the first program the second one does not change.               *)
fileVars == <<base, patch, phase, out, cursors, result, disk, outside, late>>

toolVars == <<xexVars, switchVars>>

ToolInit == XexInit /\ Switches!SwitchInit

Prepare == XexNext /\ UNCHANGED switchVars

Translate ==
  /\ phase = "done"
  /\ \/ Switches!Start({BaseImage(base), image} \ {<<>>})
     \/ Switches!SwitchNext
  /\ UNCHANGED fileVars

ToolNext == Prepare \/ Translate

ToolSpec == ToolInit /\ [][ToolNext]_toolVars

(* XenonAnalyse finds every table, and nothing else, see SwitchTables.     *)
EveryTableFound == Switches!EveryTableFound

(* The switch goes where the guest's bctr would go, see SwitchTables, for  *)
(* the images the loader makes.                                            *)
SwitchFollowsTable == Switches!SwitchFollowsTable
===============================================================================
