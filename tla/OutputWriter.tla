----------------------------- MODULE OutputWriter -----------------------------
(***************************************************************************)
(* Recompiler::LoadConfig, Recompile(headerFilePath) and                   *)
(* SaveCurrentOutData of XenonRecomp/recompiler.cpp, over repeated runs of *)
(* the tool in the same directories.                                       *)
(*                                                                         *)
(* A run loads the game's file, or the patched file that an earlier run    *)
(* kept; patches it and keeps the result; exports the image; prints four   *)
(* fixed files and then the functions, PerUnit (256) to a unit             *)
(* ppc_recomp.k.cpp.  Printed text gathers in out and SaveCurrentOutData   *)
(* writes it unless the file on disk is the same already, so that the      *)
(* build compiles only what changed.  A file is truncated, filled and      *)
(* closed, nothing is renamed: a run that dies leaves what it got to.      *)
(*                                                                         *)
(* A text is a sequence of pieces: a fixed file is one piece, a binary is  *)
(* two halves, a unit is an include and its functions.                     *)
(***************************************************************************)
EXTENDS Integers, Sequences

CONSTANTS
  Inputs,    \* what a run may be given: [game, patch, keep, options, header]
  NoPatch,   \* patch_file_path is empty
  Layout,    \* size, entry point and so on, by image
  Functions, \* the functions that Analyse finds, by image: [at, name, body]
  PerUnit,   \* functions in a unit
  MaxUnits,  \* bound: units of an image
  MaxRuns,   \* bound: runs of the tool
  MaxFaults  \* bound: runs that die and writes cut short

Image == [game : {g.game : g \in Inputs}, patch : {g.patch : g \in Inputs}, whole : BOOLEAN]

(* The names of an image's functions differ, as they are of addresses.      *)
ASSUME OutputAssumption ==
  /\ PerUnit \in Nat \ {0} /\ MaxUnits \in Nat /\ MaxRuns \in Nat \ {0} /\ MaxFaults \in Nat
  /\ \A g \in Inputs : g.keep \in BOOLEAN
  /\ \A i \in Image :
       /\ Len(Functions[i]) \in 0 .. MaxUnits * PerUnit
       /\ Functions[i] = [n \in 1 .. Len(Functions[i]) |-> Functions[i][n]]
       /\ \A m \in 1 .. Len(Functions[i]) :
            LET one == Functions[i][m] IN
            /\ one = [at |-> one.at, name |-> one.name, body |-> one.body]
            /\ \A n \in 1 .. Len(Functions[i]) : Functions[i][n].name = one.name => n = m

Fixed == <<"ppc_config.h", "ppc_context.h", "ppc_recomp_shared.h", "ppc_func_mapping.cpp">>

Named(name) == [name |-> name, unit |-> 0]
NoFile == Named("")
PatchedFile == Named("patched.xex")
ImageFile == Named("ppc_image.bin")
FixedFile(n) == Named(Fixed[n])
Unit(k) == [name |-> "ppc_recomp", unit |-> k]
File ==
  {PatchedFile, ImageFile} \cup {FixedFile(n) : n \in DOMAIN Fixed} \cup {Unit(k) : k \in 0 .. MaxUnits}

VARIABLES
  input,        \* configuration and files that the latest run is given
  disk,         \* the directories: texts by file
  image,        \* Recompiler::image: <<>>, or the image loaded
  out,          \* Recompiler::out
  cppFileIndex, \* Recompiler::cppFileIndex
  exported,     \* the image has been exported
  fixed,        \* fixed files printed
  next,         \* the function to print next, from 1
  saving,       \* the file being written, or NoFile
  stage,        \* "compare", "truncate" or "fill" of it
  status,       \* "running", or how the latest run ended: "done", "failed", "killed"
  runs,         \* runs begun
  faults,       \* runs that died and writes cut short
  stale,        \* ghost: files that were out of date when the image was loaded
  touched,      \* ghost: files this run has opened for writing
  short,        \* ghost: files this run did not write to the end
  most,         \* ghost: units that an earlier run may have left
  mixed         \* ghost: the patched file may be of another game, or torn

progress == <<out, cppFileIndex, exported, fixed, next, saving, stage>>
bounds == <<runs, faults>>
ghosts == <<stale, touched, short, most, mixed>>
vars == <<input, disk, image, progress, status, bounds, ghosts>>

-----------------------------------------------------------------------------
(* The texts.                                                              *)

Include == [kind |-> "include", of |-> <<>>]
Code(f) == [kind |-> "code", of |-> <<f>>]
Half(i) == [kind |-> "half", of |-> <<i>>]

Binary(i) == <<Half(i), Half(i)>>

Declarations(i) == [n \in DOMAIN Functions[i] |-> Functions[i][n].name]
Mapping(i) ==
  [n \in DOMAIN Functions[i] |-> [at |-> Functions[i][n].at, name |-> Functions[i][n].name]]

(* PPC_CONFIG_... and the layout, the context header that is copied, the   *)
(* declarations, the addresses and names of the functions.                 *)
FixedText(i, n) ==
  [kind |-> Fixed[n],
   of |-> CASE n = 1 -> <<input.options, Layout[i]>>
            [] n = 2 -> <<input.header>>
            [] n = 3 -> Declarations(i)
            [] n = 4 -> <<Mapping(i)>>]

Printed == Functions[image[1]]

-----------------------------------------------------------------------------
(* What the files have to be, for the properties.                          *)

UnitsOf(i) == (Len(Functions[i]) + PerUnit - 1) \div PerUnit

Smaller(m, n) == IF m < n THEN m ELSE n

UnitText(i, k) ==
  LET last == Smaller(Len(Functions[i]), (k + 1) * PerUnit)
  IN  [n \in 1 .. last - k * PerUnit + 1 |->
         IF n = 1 THEN Include ELSE Code(Functions[i][k * PerUnit + n - 1])]

FilesOf(i) ==
  {ImageFile} \cup {FixedFile(n) : n \in DOMAIN Fixed} \cup {Unit(k) : k \in 0 .. UnitsOf(i) - 1}

IsUpToDate(i, f) ==
  /\ f \in DOMAIN disk
  /\ \/ f = ImageFile /\ disk[f] = Binary(i)
     \/ \E n \in DOMAIN Fixed : f = FixedFile(n) /\ disk[f] = <<FixedText(i, n)>>
     \/ \E k \in 0 .. UnitsOf(i) - 1 : f = Unit(k) /\ disk[f] = UnitText(i, k)

Wanted(g) == [game |-> g.game, patch |-> g.patch, whole |-> TRUE]

-----------------------------------------------------------------------------
Init ==
  /\ input \in Inputs
  /\ disk = [f \in {} |-> <<>>]
  /\ image = <<>> /\ out = <<>> /\ cppFileIndex = 0 /\ exported = FALSE
  /\ fixed = 0 /\ next = 1 /\ saving = NoFile /\ stage = "compare"
  /\ status = "running" /\ runs = 1 /\ faults = 0
  /\ stale = {} /\ touched = {} /\ short = {} /\ most = 0 /\ mixed = FALSE

(* The state of a new process.                                             *)
Fresh ==
  /\ out' = <<>> /\ cppFileIndex' = 0 /\ exported' = FALSE
  /\ fixed' = 0 /\ next' = 1 /\ saving' = NoFile /\ stage' = "compare"

(* The tool is run again, on whatever it is given this time.               *)
Begin ==
  /\ status # "running" /\ runs < MaxRuns
  /\ runs' = runs + 1 /\ status' = "running"
  /\ input' \in Inputs
  /\ image' = <<>> /\ Fresh
  /\ stale' = {} /\ touched' = {} /\ short' = {}
  /\ most' = IF image # <<>> /\ UnitsOf(image[1]) > most THEN UnitsOf(image[1]) ELSE most
  /\ mixed' = (mixed \/ Wanted(input') # Wanted(input))
  /\ UNCHANGED <<disk, faults>>

-----------------------------------------------------------------------------
(* LoadConfig                                                              *)

Loading == status = "running" /\ image = <<>>

(* The patched file is there, and not empty.                               *)
Kept == input.keep /\ PatchedFile \in DOMAIN disk /\ disk[PatchedFile] # <<>>

Loaded(i) ==
  /\ image' = <<i>>
  /\ stale' = {f \in FilesOf(i) : ~IsUpToDate(i, f)}
  /\ UNCHANGED <<input, disk, out, cppFileIndex, exported, fixed, next, status, bounds,
                 touched, short, most, mixed>>

LoadKept ==
  /\ Loading /\ Kept
  /\ LET text == disk[PatchedFile]
     IN  Loaded([text[1].of[1] EXCEPT !.whole = (Len(text) = 2)])
  /\ UNCHANGED <<saving, stage>>

(* The game's own file, with nothing to apply.                             *)
LoadGame ==
  /\ Loading /\ ~Kept /\ input.patch = NoPatch
  /\ Loaded(Wanted(input))
  /\ UNCHANGED <<saving, stage>>

(* Variant: what is kept is the file that was loaded.                      *)
KeptImage_Unpatched == [image[1] EXCEPT !.patch = NoPatch]

(* file, after it was exchanged with outBytes.                             *)
KeptImage == image[1]

(* XexPatcher::apply succeeds, and its result is to be kept.               *)
LoadPatched ==
  /\ Loading /\ ~Kept /\ input.patch # NoPatch
  /\ Loaded(Wanted(input))
  /\ IF input.keep
     THEN saving' = PatchedFile /\ stage' = "truncate"
     ELSE UNCHANGED <<saving, stage>>

(* The file that keeps the result cannot be opened: the run goes on.       *)
SkipKeeping ==
  /\ saving = PatchedFile /\ stage = "truncate"
  /\ saving' = NoFile /\ stage' = "compare"
  /\ UNCHANGED <<input, disk, image, out, cppFileIndex, exported, fixed, next, status, bounds, ghosts>>

Failed == status' = "failed" /\ Fresh /\ UNCHANGED <<input, image, runs, ghosts>>

(* The patch file is missing, or XexPatcher::apply returns an error.       *)
PatchFails ==
  /\ Loading /\ ~Kept /\ input.patch # NoPatch
  /\ Failed
  /\ UNCHANGED <<disk, faults>>

Ready == status = "running" /\ image # <<>> /\ saving = NoFile
Rest == UNCHANGED <<input, image, status, bounds, ghosts>>

Export ==
  /\ Ready /\ ~exported
  /\ exported' = TRUE
  /\ saving' = ImageFile /\ stage' = "truncate"
  /\ UNCHANGED <<disk, out, cppFileIndex, fixed, next>> /\ Rest

(* The image file cannot be opened.                                        *)
ExportFails ==
  /\ saving = ImageFile /\ stage = "truncate"
  /\ Failed
  /\ UNCHANGED <<disk, faults>>

-----------------------------------------------------------------------------
(* Recompile                                                               *)

Printing == Ready /\ exported

(* A fixed file: its text, then SaveCurrentOutData(name).                  *)
PrintFixed ==
  /\ Printing /\ fixed < Len(Fixed)
  /\ out' = Append(out, FixedText(image[1], fixed + 1))
  /\ fixed' = fixed + 1
  /\ saving' = FixedFile(fixed + 1)
  /\ UNCHANGED <<disk, cppFileIndex, exported, next, stage>> /\ Rest

(* Variant: the index is counted up before the name is made.               *)
SaveUnit_Increment ==
  /\ cppFileIndex' = cppFileIndex + 1
  /\ saving' = Unit(cppFileIndex')

(* SaveCurrentOutData() with something in out.                             *)
SaveUnit ==
  /\ saving' = Unit(cppFileIndex)
  /\ cppFileIndex' = cppFileIndex + 1

StartsUnit == (next - 1) % PerUnit = 0

(* The top of the loop over the functions, where a unit is full.           *)
FlushUnit ==
  /\ Printing /\ fixed = Len(Fixed) /\ next <= Len(Printed)
  /\ StartsUnit /\ out # <<>>
  /\ SaveUnit
  /\ UNCHANGED <<disk, out, exported, fixed, next, stage>> /\ Rest

(* Otherwise a function is printed, behind the include if it is the first  *)
(* of a unit.                                                              *)
PrintFunction ==
  /\ Printing /\ fixed = Len(Fixed) /\ next <= Len(Printed)
  /\ StartsUnit => out = <<>>
  /\ out' = Append(IF StartsUnit THEN <<Include>> ELSE out, Code(Printed[next]))
  /\ next' = next + 1
  /\ UNCHANGED <<disk, cppFileIndex, exported, fixed, saving, stage>> /\ Rest

(* The last call of SaveCurrentOutData; without text the run is done.      *)
Finish ==
  /\ Printing /\ fixed = Len(Fixed) /\ next = Len(Printed) + 1
  /\ IF out # <<>>
     THEN SaveUnit /\ UNCHANGED status
     ELSE status' = "done" /\ UNCHANGED <<saving, cppFileIndex>>
  /\ UNCHANGED <<input, disk, image, out, exported, fixed, next, stage, bounds, ghosts>>

-----------------------------------------------------------------------------
(* SaveCurrentOutData, and the two binaries                                *)

(* Variants: size alone, and nothing at all, is compared.                  *)
SameOnDisk_Size == saving \in DOMAIN disk /\ Len(disk[saving]) = Len(out)
SameOnDisk_Never == FALSE

(* The file has the size and the hash of out.                              *)
SameOnDisk == saving \in DOMAIN disk /\ disk[saving] = out

(* Variant: out keeps its text.                                            *)
Saved_Keep == saving' = NoFile /\ stage' = "compare" /\ UNCHANGED out

Saved == saving' = NoFile /\ stage' = "compare" /\ out' = <<>>

Compare ==
  /\ saving # NoFile /\ stage = "compare"
  /\ IF SameOnDisk THEN Saved ELSE stage' = "truncate" /\ UNCHANGED <<saving, out>>
  /\ UNCHANGED <<disk, cppFileIndex, exported, fixed, next>> /\ Rest

Text ==
  CASE saving = PatchedFile -> Binary(KeptImage)
    [] saving = ImageFile -> Binary(image[1])
    [] OTHER -> out

Write(text) == disk' = [g \in DOMAIN disk \cup {saving} |-> IF g = saving THEN text ELSE disk[g]]

Part == {SubSeq(Text, 1, n) : n \in 0 .. Len(Text) - 1}

(* The file is opened: fopen(.., "wb"), or a stream that truncates.        *)
Truncate ==
  /\ stage = "truncate"
  /\ Write(<<>>)
  /\ stage' = "fill"
  /\ touched' = touched \cup {saving}
  /\ UNCHANGED <<input, image, out, cppFileIndex, exported, fixed, next, saving, status, bounds,
                 stale, short, most, mixed>>

Fill ==
  /\ stage = "fill"
  /\ Write(Text)
  /\ Saved
  /\ UNCHANGED <<cppFileIndex, exported, fixed, next>> /\ Rest

(* The disk is full.  Only the export of the image looks at the outcome.   *)
FillShort ==
  /\ stage = "fill" /\ faults < MaxFaults
  /\ faults' = faults + 1
  /\ \E text \in Part : Write(text)
  /\ IF saving = ImageFile
     THEN Failed
     ELSE /\ Saved
          /\ short' = short \cup {saving}
          /\ mixed' = (mixed \/ saving = PatchedFile)
          /\ UNCHANGED <<input, image, cppFileIndex, exported, fixed, next, status, runs,
                         stale, touched, most>>

(* The run dies: it is interrupted, or a unit cannot be opened and fwrite  *)
(* gets a null pointer.  Of the file at hand any part may be there.        *)
Kill ==
  /\ status = "running" /\ faults < MaxFaults
  /\ faults' = faults + 1
  /\ status' = "killed" /\ Fresh
  /\ IF stage = "fill" THEN \E text \in Part \cup {Text} : Write(text) ELSE UNCHANGED disk
  /\ mixed' = (mixed \/ (stage = "fill" /\ saving = PatchedFile))
  /\ UNCHANGED <<input, image, runs, stale, touched, short, most>>

Next ==
  \/ Begin
  \/ LoadKept \/ LoadGame \/ LoadPatched \/ SkipKeeping \/ PatchFails \/ Export \/ ExportFails
  \/ PrintFixed \/ FlushUnit \/ PrintFunction \/ Finish
  \/ Compare \/ Truncate \/ Fill \/ FillShort \/ Kill

Spec == Init /\ [][Next]_vars

-----------------------------------------------------------------------------
(* out holds one unit at most, and every unit has its number.              *)
TypeOK ==
  /\ input \in Inputs
  /\ DOMAIN disk \subseteq File
  /\ \A f \in DOMAIN disk : Len(disk[f]) <= PerUnit + 1
  /\ image = <<>> \/ \E i \in Image : image = <<i>>
  /\ Len(out) <= PerUnit + 1
  /\ cppFileIndex \in 0 .. MaxUnits
  /\ exported \in BOOLEAN /\ fixed \in 0 .. Len(Fixed) /\ next \in Nat \ {0}
  /\ saving \in File \cup {NoFile} /\ stage \in {"compare", "truncate", "fill"}
  /\ status \in {"running", "done", "failed", "killed"}
  /\ runs \in 1 .. MaxRuns /\ faults \in 0 .. MaxFaults
  /\ stale \subseteq File /\ touched \subseteq File /\ short \subseteq File
  /\ most \in Nat /\ mixed \in BOOLEAN

(* When a run is done its files are what its image and configuration ask   *)
(* for, whatever earlier runs left, killed ones and full disks among them: *)
(* skipping a file that looks the same never keeps an old or a torn one.   *)
(* The files this very run cut short are excepted, for nobody looks; the   *)
(* image is not one of them.                                               *)
DoneIsUpToDate ==
  status = "done" => \A f \in FilesOf(image[1]) : IsUpToDate(image[1], f) \/ (f \in short /\ f # ImageFile)

(* "Check if an identical file already exists first to not trigger         *)
(* recompilation": a run opens a source file for writing only if it was    *)
(* out of date.  A changed function costs its own unit.                    *)
OnlyStaleTouched == touched \subseteq stale \cup {PatchedFile, ImageFile}

(* The build takes every ppc_recomp.*.cpp there is.  When a run is done    *)
(* these are its own units, so that each function is linked once, unless   *)
(* an earlier image had more units: nothing deletes those.                 *)
OnlyItsUnits ==
  status = "done" /\ most <= UnitsOf(image[1]) =>
    {f \in DOMAIN disk : f.name = "ppc_recomp"} = {Unit(k) : k \in 0 .. UnitsOf(image[1]) - 1}

(* The patched file that a run keeps serves the next runs: they work on    *)
(* the image their own game and patch give, as long as neither changes and *)
(* the file was written to the end.                                        *)
OwnImage == image # <<>> /\ ~mixed => image[1] = Wanted(input)

(* README.md:126 of XenonRecomp on patched_file_path: "It does nothing if  *)
(* no XEXP file is specified."                                             *)
PatchedNeedsPatch == image # <<>> /\ input.patch = NoPatch => image[1].patch = NoPatch
===============================================================================
