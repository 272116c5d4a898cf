---------------------------- MODULE NativeBootstrap ---------------------------
(***************************************************************************)
(* From the generated files to the guest's entry point: the build that     *)
(* CMakeLists.txt describes and main of native/main.cpp, over the same     *)
(* directory that XenonRecomp writes.                                      *)
(*                                                                         *)
(* The build compiles the fixed files and every ppc_recomp.*.cpp there is. *)
(* The program that comes out holds the layout, the mapping and the code;  *)
(* the image it reads when it is started.  Between the two the tool may    *)
(* have run again, died, or met a full disk.  Units define functions by    *)
(* name, and the mapping names what it wants at an address: sub_ and the   *)
(* address, or _xstart at the entry.  Which other functions a body refers  *)
(* to is not looked at.                                                    *)
(***************************************************************************)
EXTENDS OutputWriter, FiniteSets

CONSTANT Import  \* images whose import slot holds the module descriptor

VARIABLES
  program,   \* <<>>, or the program built last
  boot,      \* how the program ended when it was started last
  current    \* history: it was built after a run that was done, the latest

bootVars == <<program, boot, current>>
nativeVars == <<vars, bootVars>>

IsThere(file) == file \in DOMAIN disk /\ disk[file] # <<>>

Units == {file \in DOMAIN disk : file.name = "ppc_recomp"}

(* Where functions are defined: a unit and a place behind its include.     *)
Places == {place \in Units \X (2 .. PerUnit + 1) : place[2] <= Len(disk[place[1]])}
DefinedAt(place) == disk[place[1]][place[2]].of[1]

MappingRows == disk[FixedFile(4)][1].of[1]

(* Variant: functions of the mapping may be left undefined.                *)
Links_Partly ==
  /\ \A n \in DOMAIN Fixed : IsThere(FixedFile(n))
  /\ \A p, q \in Places : DefinedAt(p).name = DefinedAt(q).name => p = q
  /\ \E p \in Places : DefinedAt(p).name = "_xstart"

(* Every name is defined once at most, whichever image its unit is of, and *)
(* those that the mapping and main use are defined.                        *)
Links ==
  /\ \A n \in DOMAIN Fixed : IsThere(FixedFile(n))
  /\ \A p, q \in Places : DefinedAt(p).name = DefinedAt(q).name => p = q
  /\ \A n \in DOMAIN MappingRows : \E p \in Places : DefinedAt(p).name = MappingRows[n].name
  /\ \E p \in Places : DefinedAt(p).name = "_xstart"

(* What the mapping leads to: the bodies defined under its names.          *)
LinkedCode ==
  LET Pairs == {x \in (DOMAIN MappingRows) \X Places : DefinedAt(x[2]).name = MappingRows[x[1]].name}
  IN  {[at |-> MappingRows[x[1]].at, name |-> DefinedAt(x[2]).name, body |-> DefinedAt(x[2]).body] : x \in Pairs}

Compiled == [layout |-> disk[FixedFile(1)][1].of[2], code |-> LinkedCode]

(* The build, while the tool does not run.  If it fails the program stays. *)
Build ==
  /\ status # "running" /\ Links
  /\ program' = <<Compiled>>
  /\ boot' = ""
  /\ current' = (status = "done")
  /\ UNCHANGED vars

ImageOnDisk == disk[ImageFile][1].of[1]

(* loadImage: the file's size is PPC_IMAGE_SIZE.                           *)
ImageFits ==
  /\ IsThere(ImageFile) /\ Len(disk[ImageFile]) = 2
  /\ Layout[ImageOnDisk].size = program[1].layout.size

(* PPC_LOOKUP_FUNC(PPC_ENTRY_POINT), once the table is filled.             *)
EntryIsXstart ==
  \E f \in program[1].code : f.at = program[1].layout.entry /\ f.name = "_xstart"

(* main: what it returns, or "ready".                                      *)
Boot ==
  /\ status # "running" /\ program # <<>> /\ boot = ""
  /\ boot' = CASE ~ImageFits -> "no image"
               [] ImageOnDisk \notin Import -> "no import"
               [] ~EntryIsXstart -> "no entry"
               [] OTHER -> "ready"
  /\ UNCHANGED <<vars, program, current>>

(* The address space cannot be reserved.                                   *)
NoMemory ==
  /\ status # "running" /\ program # <<>> /\ boot = ""
  /\ boot' = "no memory"
  /\ UNCHANGED <<vars, program, current>>

Tool ==
  /\ Next
  /\ IF runs' # runs THEN current' = FALSE /\ boot' = "" ELSE UNCHANGED <<current, boot>>
  /\ UNCHANGED program

NativeInit == Init /\ program = <<>> /\ boot = "" /\ current = FALSE

NativeNext == Tool \/ Build \/ Boot \/ NoMemory

NativeSpec == NativeInit /\ [][NativeNext]_nativeVars

(* No unit of the latest run was cut short, or no earlier image had more   *)
(* units than its own.                                                     *)
NothingBorrowed ==
  \/ most <= UnitsOf(image[1])
  \/ \A f \in short : f.name # "ppc_recomp"

(* A program that links after a run that was done, and that comes to the   *)
(* entry point, is the image's own: its functions and layout are those of  *)
(* the image it has read, although the tool keeps files it finds, may have *)
(* been cut short and deletes no unit.  One case is excepted, in which the *)
(* code does put an old function into the new program: this run cut a unit *)
(* short and a unit that a larger image left defines what is missing.      *)
OneGame ==
  boot = "ready" /\ current /\ NothingBorrowed =>
    /\ program[1].code = {Functions[ImageOnDisk][n] : n \in DOMAIN Functions[ImageOnDisk]}
    /\ program[1].layout = Layout[ImageOnDisk]
===============================================================================
