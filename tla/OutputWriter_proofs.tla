-------------------------- MODULE OutputWriter_proofs --------------------------
(***************************************************************************)
(* Proofs that repeated runs of the tool leave the directory right: for    *)
(* every number of runs, faults, functions and units.                      *)
(***************************************************************************)
EXTENDS NativeBootstrap, SequenceTheorems, TLAPS

Count(i) == Len(Functions[i])

(* The text of unit k when the functions up to the m-th are printed.       *)
TextFrom(i, b, m) ==
  [n \in 1 .. m - b + 1 |-> IF n = 1 THEN Include ELSE Code(Functions[i][b + n - 1])]
Prefix(i, k, m) == TextFrom(i, k * PerUnit, m)

(* The functions in the first k units.                                     *)
Before(i, k) == Smaller(Count(i), k * PerUnit)

NoUnit == cppFileIndex = 0 /\ next = 1
Idle == NoUnit /\ fixed = 0 /\ out = <<>>

(* Where a run can be once it has an image, by the file being written.     *)
AtStart == saving = NoFile /\ fixed < 4 /\ (fixed > 0 => exported) /\ NoUnit /\ out = <<>>
Keeping == saving = PatchedFile /\ ~exported /\ Idle
Exporting == saving = ImageFile /\ exported /\ Idle
SavingFixed(i) ==
  /\ saving = FixedFile(fixed) /\ fixed > 0 /\ exported /\ NoUnit
  /\ out = <<FixedText(i, fixed)>>
BetweenUnits(i) ==
  /\ saving = NoFile /\ fixed = 4 /\ exported /\ out = <<>>
  /\ cppFileIndex <= UnitsOf(i) /\ next = Before(i, cppFileIndex) + 1
InUnit(i) ==
  /\ saving = NoFile /\ fixed = 4 /\ exported /\ cppFileIndex + 1 <= UnitsOf(i)
  /\ cppFileIndex * PerUnit < next - 1 /\ next - 1 <= Before(i, cppFileIndex + 1)
  /\ out = Prefix(i, cppFileIndex, next - 1)
SavingUnit(i) ==
  /\ saving = Unit(cppFileIndex - 1) /\ fixed = 4 /\ exported
  /\ cppFileIndex \in 1 .. UnitsOf(i) /\ next = Before(i, cppFileIndex) + 1
  /\ out = Prefix(i, cppFileIndex - 1, Before(i, cppFileIndex))

Position(i) ==
  \/ AtStart \/ Keeping \/ Exporting \/ SavingFixed(i)
  \/ BetweenUnits(i) \/ InUnit(i) \/ SavingUnit(i)

Types ==
  /\ input \in Inputs
  /\ image = <<>> \/ \E i \in Image : image = <<i>>
  /\ cppFileIndex \in Nat /\ next \in Nat \ {0} /\ most \in Nat
  /\ fixed \in 0 .. 4 /\ exported \in BOOLEAN /\ mixed \in BOOLEAN

Finished ==
  image # <<>> /\ BetweenUnits(image[1]) /\ next = Count(image[1]) + 1

(* What a run has printed says what it holds and where it is.              *)
ProgressInv ==
  /\ Types
  /\ image = <<>> => AtStart /\ Idle /\ ~exported
  /\ image # <<>> => Position(image[1])
  /\ saving = NoFile => stage = "compare"
  /\ saving \in {PatchedFile, ImageFile} => stage # "compare"
  /\ status = "done" => Finished

-----------------------------------------------------------------------------
(* Files have different names.                                             *)
LEMMA Names ==
  /\ PatchedFile # NoFile /\ ImageFile # NoFile /\ PatchedFile # ImageFile
  /\ \A n \in 1 .. 4 :
       FixedFile(n) \notin {NoFile, PatchedFile, ImageFile} /\ FixedFile(n).name # "ppc_recomp"
  /\ \A m, n \in 1 .. 4 : FixedFile(m) = FixedFile(n) => m = n
  /\ \A k : /\ Unit(k) \notin {NoFile, PatchedFile, ImageFile} /\ Unit(k).name = "ppc_recomp"
            /\ \A n \in 1 .. 4 : Unit(k) # FixedFile(n)
            /\ \A l : Unit(k) = Unit(l) => k = l
  /\ NoFile.name # "ppc_recomp" /\ PatchedFile.name # "ppc_recomp" /\ ImageFile.name # "ppc_recomp"
<1>1. \A n \in 1 .. 4 : FixedFile(n).name = Fixed[n]
  BY DEF FixedFile, Named
<1>2. /\ Fixed[1] = "ppc_config.h" /\ Fixed[2] = "ppc_context.h"
      /\ Fixed[3] = "ppc_recomp_shared.h" /\ Fixed[4] = "ppc_func_mapping.cpp"
  BY DEF Fixed
<1>3. \A n \in 1 .. 4 : n = 1 \/ n = 2 \/ n = 3 \/ n = 4
  OBVIOUS
<1>4. NoFile.name = "" /\ PatchedFile.name = "patched.xex" /\ ImageFile.name = "ppc_image.bin"
  BY DEF NoFile, PatchedFile, ImageFile, Named
<1>5. \A k : Unit(k).name = "ppc_recomp" /\ Unit(k).unit = k
  BY DEF Unit
<1>6. \A m, n \in 1 .. 4 : FixedFile(m) = FixedFile(n) => m = n
  <2> SUFFICES ASSUME NEW m \in 1 .. 4, NEW n \in 1 .. 4, FixedFile(m) = FixedFile(n)
               PROVE  m = n
    OBVIOUS
  <2>1. Fixed[m] = Fixed[n]
    BY <1>1
  <2>2. /\ Fixed[1] # Fixed[2] /\ Fixed[1] # Fixed[3] /\ Fixed[1] # Fixed[4]
        /\ Fixed[2] # Fixed[3] /\ Fixed[2] # Fixed[4] /\ Fixed[3] # Fixed[4]
    BY <1>2
  <2> QED
    BY <2>1, <2>2, <1>3
<1>7. \A n \in 1 .. 4 :
        Fixed[n] \notin {"", "patched.xex", "ppc_image.bin", "ppc_recomp"}
  BY <1>2, <1>3
<1>8. ASSUME NEW n \in 1 .. 4
      PROVE  FixedFile(n) \notin {NoFile, PatchedFile, ImageFile} /\ FixedFile(n).name # "ppc_recomp"
  BY <1>1, <1>4, <1>7, <1>8
<1>9. ASSUME NEW k
      PROVE  /\ Unit(k) \notin {NoFile, PatchedFile, ImageFile} /\ Unit(k).name = "ppc_recomp"
             /\ \A n \in 1 .. 4 : Unit(k) # FixedFile(n)
             /\ \A l : Unit(k) = Unit(l) => k = l
  <2>1. Unit(k).name = "ppc_recomp" /\ Unit(k) \notin {NoFile, PatchedFile, ImageFile}
    BY <1>4, <1>5
  <2>2. \A n \in 1 .. 4 : Unit(k) # FixedFile(n)
    BY <1>5, <1>8
  <2>3. \A l : Unit(k) = Unit(l) => k = l
    BY <1>5
  <2> QED
    BY <2>1, <2>2, <2>3
<1>10. "" # "patched.xex" /\ "" # "ppc_image.bin" /\ "patched.xex" # "ppc_image.bin"
  OBVIOUS
<1> QED
  <2>1. PatchedFile # NoFile /\ ImageFile # NoFile /\ PatchedFile # ImageFile
    BY <1>4, <1>10
  <2>2. NoFile.name # "ppc_recomp" /\ PatchedFile.name # "ppc_recomp" /\ ImageFile.name # "ppc_recomp"
    BY <1>4
  <2> QED
    BY <1>6, <1>8, <1>9, <2>1, <2>2, Zenon

LEMMA FixedHasFour == Len(Fixed) = 4 /\ DOMAIN Fixed = 1 .. 4
BY DEF Fixed

-----------------------------------------------------------------------------
(* Units and the functions in them.                                        *)
LEMMA Sizes ==
  ASSUME NEW i \in Image
  PROVE  Count(i) \in Nat /\ PerUnit \in Nat /\ PerUnit > 0 /\ Count(i) <= MaxUnits * PerUnit
<1>1. PerUnit \in Nat /\ PerUnit > 0 /\ MaxUnits \in Nat
  BY OutputAssumption
<1>2. Len(Functions[i]) \in 0 .. MaxUnits * PerUnit
  BY OutputAssumption, Zenon
<1>3. MaxUnits * PerUnit \in Nat
  BY <1>1
<1> QED
  BY <1>1, <1>2, <1>3 DEF Count

LEMMA Remainder ==
  ASSUME NEW P \in Nat, P > 0, NEW k \in Nat, NEW r \in Nat, r < P
  PROVE  (k * P + r) % P = r
BY SMT

LEMMA Multiples ==
  ASSUME NEW P \in Nat, P > 0, NEW k \in Nat
  PROVE  /\ k * P \in Nat /\ (k + 1) * P = k * P + P /\ 0 * P = 0
         /\ (k * P) % P = 0
         /\ \A m \in Nat : k * P < m /\ m < (k + 1) * P => m % P # 0
<1>1. k * P \in Nat /\ (k + 1) * P = k * P + P /\ 0 * P = 0
  BY SMT
<1>2. (k * P) % P = 0
  BY SMT
<1>3. ASSUME NEW m \in Nat, k * P < m, m < (k + 1) * P
      PROVE  m % P # 0
  <2>1. PICK r \in Nat : r < P /\ m = k * P + r /\ r # 0
    BY <1>1, <1>3
  <2> QED
    BY <2>1, Remainder
<1> QED
  BY <1>1, <1>2, <1>3

LEMMA LastUnit ==
  ASSUME NEW P \in Nat, P > 0, NEW c \in Nat
  PROVE  /\ (c + P - 1) \div P \in Nat
         /\ \A k \in Nat : k * P < c <=> k + 1 <= (c + P - 1) \div P
BY SMT

LEMMA UnitRange ==
  ASSUME NEW i \in Image, NEW k \in Nat
  PROVE  /\ UnitsOf(i) \in Nat /\ k * PerUnit \in Nat /\ Before(i, k) \in Nat /\ Before(i, 0) = 0
         /\ Before(i, k) <= Count(i) /\ Before(i, k) <= k * PerUnit
         /\ Before(i, k) = Count(i) \/ Before(i, k) = k * PerUnit
         /\ k * PerUnit < Count(i) <=> k + 1 <= UnitsOf(i)
         /\ (k + 1) * PerUnit = k * PerUnit + PerUnit
<1>1. Count(i) \in Nat /\ PerUnit \in Nat /\ PerUnit > 0
  BY Sizes
<1>2. k * PerUnit \in Nat /\ (k + 1) * PerUnit = k * PerUnit + PerUnit /\ 0 * PerUnit = 0
  BY <1>1, Multiples
<1>3. UnitsOf(i) \in Nat /\ (k * PerUnit < Count(i) <=> k + 1 <= UnitsOf(i))
  BY <1>1, LastUnit DEF UnitsOf, Count
<1>4. \A j \in Nat : j * PerUnit \in Nat =>
        /\ Before(i, j) \in Nat /\ Before(i, j) <= Count(i) /\ Before(i, j) <= j * PerUnit
        /\ Before(i, j) = Count(i) \/ Before(i, j) = j * PerUnit
  BY <1>1 DEF Before, Smaller
<1>5. Before(i, 0) = 0
  BY <1>1, <1>2 DEF Before, Smaller
<1> QED
  BY <1>2, <1>3, <1>4, <1>5

LEMMA AppendNext ==
  ASSUME NEW len \in Nat, NEW h, h = [n \in 1 .. len + 1 |-> h[n]]
  PROVE  Append([n \in 1 .. len |-> h[n]], h[len + 1]) = h
<1> DEFINE S == {h[n] : n \in 1 .. len + 1}
           g == [n \in 1 .. len |-> h[n]]
<1>1. g \in [1 .. len -> S] /\ h[len + 1] \in S /\ h \in [1 .. len + 1 -> S]
  OBVIOUS
<1> HIDE DEF S
<1>2. g \in Seq(S) /\ Len(g) = len /\ h \in Seq(S) /\ Len(h) = len + 1
  BY <1>1
<1>3. \A n \in 1 .. len : g[n] = h[n]
  OBVIOUS
<1> HIDE DEF g
<1> DEFINE a == Append(g, h[len + 1])
<1>4. /\ a \in Seq(S) /\ Len(a) = len + 1 /\ a[len + 1] = h[len + 1]
      /\ \A n \in 1 .. len : a[n] = h[n]
  BY <1>1, <1>2, <1>3, AppendProperties
<1> HIDE DEF a
<1>5. \A n \in 1 .. len + 1 : n \in 1 .. len \/ n = len + 1
  OBVIOUS
<1>6. \A n \in 1 .. len + 1 : a[n] = h[n]
  BY <1>4, <1>5
<1>7. a = h
  BY <1>2, <1>4, <1>6
<1> QED
  BY <1>7 DEF a, g

LEMMA TextNext ==
  ASSUME NEW i, NEW b \in Nat, NEW m \in Nat, b <= m
  PROVE  /\ TextFrom(i, b, m) # <<>>
         /\ TextFrom(i, b, b) = <<Include>>
         /\ Append(TextFrom(i, b, m), Code(Functions[i][m + 1])) = TextFrom(i, b, m + 1)
<1> DEFINE h == TextFrom(i, b, m + 1)
           len == m - b + 1
<1>1. /\ len \in Nat /\ len + 1 = m + 1 - b + 1 /\ 1 \in 1 .. len
      /\ len + 1 # 1 /\ b + (len + 1) - 1 = m + 1
  OBVIOUS
<1>2. h = [n \in 1 .. len + 1 |-> h[n]] /\ h[len + 1] = Code(Functions[i][m + 1])
  BY <1>1 DEF TextFrom
<1>3. TextFrom(i, b, m) = [n \in 1 .. len |-> h[n]]
  BY <1>1 DEF TextFrom
<1>4. TextFrom(i, b, m) # <<>>
  <2>1. DOMAIN TextFrom(i, b, m) = 1 .. len
    BY DEF TextFrom
  <2>2. DOMAIN <<>> = 1 .. 0
    OBVIOUS
  <2> QED
    BY <1>1, <2>1, <2>2
<1>5. Append(TextFrom(i, b, m), Code(Functions[i][m + 1])) = h
  <2> HIDE DEF h, len
  <2> QED
    BY <1>1, <1>2, <1>3, AppendNext
<1>6. TextFrom(i, b, b) = <<Include>>
  <2>1. b - b + 1 = 1
    OBVIOUS
  <2>2. TextFrom(i, b, b) = [n \in 1 .. 1 |-> Include]
    BY <2>1 DEF TextFrom
  <2> QED
    BY <2>2
<1> QED
  BY <1>4, <1>5, <1>6

LEMMA Texts ==
  ASSUME NEW i, NEW k \in Nat, NEW m \in Nat, k * PerUnit \in Nat, k * PerUnit <= m
  PROVE  /\ Prefix(i, k, m) # <<>>
         /\ m = k * PerUnit =>
              Append(<<Include>>, Code(Functions[i][m + 1])) = Prefix(i, k, m + 1)
         /\ Append(Prefix(i, k, m), Code(Functions[i][m + 1])) = Prefix(i, k, m + 1)
<1> DEFINE b == k * PerUnit
<1> HIDE DEF b
<1>1. b \in Nat /\ b <= m
  BY DEF b
<1>2. \A l : Prefix(i, k, l) = TextFrom(i, b, l)
  BY DEF Prefix, b
<1>3. TextFrom(i, b, m) # <<>> /\ TextFrom(i, b, b) = <<Include>>
  BY <1>1, TextNext
<1>4. Append(TextFrom(i, b, m), Code(Functions[i][m + 1])) = TextFrom(i, b, m + 1)
  BY <1>1, TextNext
<1>5. b = k * PerUnit
  BY DEF b
<1> QED
  BY <1>2, <1>3, <1>4, <1>5

LEMMA WholeUnit ==
  ASSUME NEW i, NEW k
  PROVE  UnitText(i, k) = Prefix(i, k, Before(i, k + 1))
BY DEF UnitText, Prefix, TextFrom, Before, Count

-----------------------------------------------------------------------------
LEMMA ProgressInit == ASSUME Init PROVE ProgressInv
<1>1. AtStart /\ Idle
  BY DEF Init, AtStart, Idle, NoUnit
<1>2. Types
  <2>1. /\ input \in Inputs /\ image = <<>> /\ cppFileIndex \in Nat /\ next \in Nat \ {0}
        /\ most \in Nat /\ fixed \in 0 .. 4
    BY DEF Init
  <2>2. exported \in BOOLEAN /\ mixed \in BOOLEAN
    BY DEF Init
  <2> QED
    BY <2>1, <2>2 DEF Types
<1>3. image = <<>> /\ ~exported /\ saving = NoFile /\ stage = "compare" /\ status = "running"
  BY DEF Init
<1> QED
  BY <1>1, <1>2, <1>3, Names DEF ProgressInv

LEMMA WantedImage == ASSUME NEW g \in Inputs PROVE Wanted(g) \in Image
BY DEF Wanted, Image

(* A new process, with the image of the one before or without one.         *)
LEMMA FreshProgress ==
  ASSUME ProgressInv, Fresh, input' \in Inputs, image' \in {<<>>, image}, most' \in Nat,
         mixed' \in BOOLEAN, status' # "done"
  PROVE  ProgressInv'
<1>1. (AtStart /\ Idle /\ ~exported)'
  BY DEF Fresh, AtStart, Idle, NoUnit
<1>2. Types'
  <2>1. image = <<>> \/ \E i \in Image : image = <<i>>
    BY DEF ProgressInv, Types
  <2>2. (image = <<>> \/ \E i \in Image : image = <<i>>)'
    BY <2>1
  <2>3. (cppFileIndex \in Nat /\ next \in Nat \ {0} /\ fixed \in 0 .. 4)'
    BY DEF Fresh
  <2>4. (exported \in BOOLEAN)'
    BY DEF Fresh
  <2> QED
    BY <2>2, <2>3, <2>4 DEF Types
<1>3. (saving = NoFile /\ stage = "compare")'
  BY DEF Fresh
<1> QED
  BY <1>1, <1>2, <1>3, Names DEF ProgressInv, Position

(* What a write leaves to do.                                              *)
LEMMA SavedProgress ==
  ASSUME ProgressInv, saving # NoFile, Saved, UNCHANGED <<cppFileIndex, exported, fixed, next>>,
         UNCHANGED <<input, image, status, most>>, mixed' \in BOOLEAN
  PROVE  ProgressInv'
<1>1. PICK i \in Image : image = <<i>>
  BY DEF ProgressInv, Types, AtStart
<1>2. Position(i)
  BY <1>1 DEF ProgressInv
<1>3. ~Finished
  BY DEF Finished, BetweenUnits
<1>4. AtStart' \/ BetweenUnits(i)'
  <2>1. CASE Keeping
    BY <2>1 DEF Saved, Keeping, AtStart, Idle, NoUnit
  <2>2. CASE Exporting
    BY <2>2 DEF Saved, Exporting, AtStart, Idle, NoUnit
  <2>3. CASE SavingFixed(i)
    <3>1. CASE fixed = 4
      <4>1. Before(i, 0) = 0 /\ UnitsOf(i) \in Nat
        BY UnitRange
      <4> QED
        BY <2>3, <3>1, <4>1 DEF Saved, SavingFixed, BetweenUnits, NoUnit, Before, UnitsOf
    <3>2. CASE fixed # 4
      BY <2>3, <3>2 DEF Saved, SavingFixed, AtStart, NoUnit, ProgressInv, Types
    <3> QED
      BY <3>1, <3>2
  <2>4. CASE SavingUnit(i)
    <3>1. UnitsOf(i) \in Nat
      BY UnitRange
    <3> QED
      BY <2>4, <3>1 DEF Saved, SavingUnit, BetweenUnits, Before, UnitsOf
  <2> QED
    BY <1>2, <2>1, <2>2, <2>3, <2>4 DEF Position, AtStart, BetweenUnits, InUnit
<1>5. Types' /\ image' = <<i>> /\ status' # "done"
  BY <1>1, <1>3 DEF ProgressInv, Types
<1>6. Position(i)'
  BY <1>4 DEF Position
<1> QED
  BY <1>1, <1>5, <1>6, Names DEF ProgressInv, Saved

(* The run starts a write, prints, or passes to what is next.              *)
LEMMA RunProgress ==
  ASSUME ProgressInv, NEW i \in Image, image = <<i>>, UNCHANGED <<input, image, most, mixed>>,
         (cppFileIndex \in Nat /\ next \in Nat \ {0} /\ fixed \in 0 .. 4 /\ exported \in BOOLEAN)',
         Position(i)',
         saving' = NoFile => stage' = "compare",
         saving' \in {PatchedFile, ImageFile} => stage' # "compare",
         status' = "done" => BetweenUnits(i)' /\ next' = Count(i) + 1
  PROVE  ProgressInv'
<1>1. Types'
  BY DEF ProgressInv, Types
<1>2. image' = <<i>> /\ image'[1] = i /\ image' # <<>>
  OBVIOUS
<1>3. status' = "done" => Finished'
  BY <1>2 DEF Finished
<1> QED
  BY <1>1, <1>2, <1>3 DEF ProgressInv

LEMMA LoadProgress ==
  ASSUME ProgressInv, LoadKept \/ LoadGame \/ LoadPatched, \E i \in Image : image' = <<i>>
  PROVE  ProgressInv'
<1>1. image = <<>> /\ AtStart /\ Idle /\ status = "running"
  BY DEF ProgressInv, LoadKept, LoadGame, LoadPatched, Loading
<1>2. /\ UNCHANGED <<input, most, mixed>> /\ UNCHANGED <<cppFileIndex, next, fixed, exported, out>>
      /\ status' = "running"
  BY <1>1 DEF LoadKept, LoadGame, LoadPatched, Loaded, bounds
<1>3. Types'
  BY <1>2 DEF ProgressInv, Types
<1>4. \/ UNCHANGED <<saving, stage>>
      \/ saving' = PatchedFile /\ stage' = "truncate"
  BY DEF LoadKept, LoadGame, LoadPatched
<1>5. stage = "compare" /\ saving = NoFile
  BY <1>1 DEF ProgressInv, AtStart
<1>6. AtStart' \/ Keeping'
  <2>1. CASE UNCHANGED <<saving, stage>>
    BY <1>1, <1>2, <2>1 DEF AtStart, NoUnit
  <2>2. CASE saving' = PatchedFile
    <3>1. ~exported
      BY <1>1 DEF ProgressInv
    <3> QED
      BY <1>1, <1>2, <2>2, <3>1 DEF Keeping, Idle, NoUnit
  <2> QED
    BY <1>4, <2>1, <2>2
<1> QED
  BY <1>2, <1>3, <1>4, <1>5, <1>6, Names DEF ProgressInv, Position

(* While a run prints it is at its start, in a unit or between two.        *)
LEMMA ReadyPosition ==
  ASSUME ProgressInv, Ready
  PROVE  /\ \E i \in Image : image = <<i>> /\ (AtStart \/ BetweenUnits(i) \/ InUnit(i))
         /\ stage = "compare"
         /\ cppFileIndex \in Nat /\ next \in Nat \ {0} /\ fixed \in 0 .. 4 /\ exported \in BOOLEAN
<1>1. PICK i \in Image : image = <<i>>
  BY DEF ProgressInv, Types, Ready
<1>2. Position(i) /\ saving = NoFile
  BY <1>1 DEF ProgressInv, Ready
<1>3. ~Keeping /\ ~Exporting
  BY <1>2, Names DEF Keeping, Exporting
<1>4. ~SavingUnit(i)
  BY <1>2, Names DEF SavingUnit
<1>5. ~SavingFixed(i)
  BY <1>2, Names DEF SavingFixed, ProgressInv, Types
<1>6. stage = "compare"
  BY <1>2 DEF ProgressInv
<1> QED
  BY <1>1, <1>2, <1>3, <1>4, <1>5, <1>6 DEF Position, ProgressInv, Types

LEMMA ExportProgress == ASSUME ProgressInv, Export PROVE ProgressInv'
<1>1. PICK i \in Image : image = <<i>> /\ (AtStart \/ BetweenUnits(i) \/ InUnit(i))
  BY ReadyPosition DEF Export
<1>2. AtStart /\ Idle
  BY <1>1 DEF Export, AtStart, BetweenUnits, InUnit, Idle, ProgressInv, Types
<1>3. Exporting'
  BY <1>2 DEF Exporting, Idle, NoUnit, Export
<1>4. (saving = ImageFile /\ stage = "truncate")' /\ status' # "done"
  BY DEF Export, Rest, Ready
<1>5. (cppFileIndex \in Nat /\ next \in Nat \ {0} /\ fixed \in 0 .. 4)' /\ (exported \in BOOLEAN)'
  <2>1. (cppFileIndex \in Nat /\ next \in Nat \ {0} /\ fixed \in 0 .. 4)'
    BY DEF Export, ProgressInv, Types
  <2>2. (exported \in BOOLEAN)'
    BY DEF Export
  <2> QED
    BY <2>1, <2>2
<1>6. UNCHANGED <<input, image, most, mixed>>
  BY DEF Export, Rest, ghosts
<1>7. Position(i)'
  BY <1>3 DEF Position
<1> QED
  BY <1>1, <1>4, <1>5, <1>6, <1>7, Names, RunProgress

LEMMA PrintFixedProgress == ASSUME ProgressInv, PrintFixed PROVE ProgressInv'
<1>1. PICK i \in Image : image = <<i>> /\ (AtStart \/ BetweenUnits(i) \/ InUnit(i))
  BY ReadyPosition DEF PrintFixed, Printing
<1>2. AtStart /\ exported /\ fixed \in 0 .. 3
  BY <1>1, FixedHasFour DEF PrintFixed, Printing, BetweenUnits, InUnit, ProgressInv, Types
<1>3. SavingFixed(i)'
  <2>1. saving' = FixedFile(fixed') /\ fixed' > 0 /\ exported'
    BY <1>2 DEF PrintFixed
  <2>2. out' = <<FixedText(i, fixed')>>
    BY <1>1, <1>2 DEF PrintFixed, AtStart
  <2>3. (FixedText(i, fixed))' = FixedText(i, fixed')
    BY DEF FixedText, PrintFixed, Rest
  <2>4. NoUnit'
    BY <1>2 DEF AtStart, NoUnit, PrintFixed
  <2> QED
    BY <2>1, <2>2, <2>3, <2>4 DEF SavingFixed
<1>4. (cppFileIndex \in Nat /\ next \in Nat \ {0} /\ fixed \in 1 .. 4 /\ exported \in BOOLEAN)'
  BY <1>2 DEF PrintFixed, ProgressInv, Types
<1>5. UNCHANGED <<input, image, most, mixed>> /\ status' # "done" /\ saving' = FixedFile(fixed')
  BY DEF PrintFixed, Rest, ghosts, Printing, Ready
<1>6. Position(i)'
  BY <1>3 DEF Position
<1> QED
  BY <1>1, <1>4, <1>5, <1>6, Names, RunProgress

(* A unit that is full, or the last one, is written.                       *)
LEMMA SaveUnitProgress ==
  ASSUME ProgressInv, NEW i \in Image, image = <<i>>, Printing, SaveUnit,
         InUnit(i), next - 1 = Before(i, cppFileIndex + 1),
         UNCHANGED <<input, image, most, mixed, status>>, UNCHANGED <<out, exported, fixed, next>>
  PROVE  ProgressInv'
<1>1. cppFileIndex \in Nat /\ UnitsOf(i) \in Nat /\ next \in Nat \ {0}
  BY UnitRange DEF ProgressInv, Types
<1>2. cppFileIndex' = cppFileIndex + 1 /\ saving' = Unit(cppFileIndex)
  BY DEF SaveUnit
<1>3. SavingUnit(i)'
  <2>1. saving' = Unit(cppFileIndex' - 1) /\ cppFileIndex' \in 1 .. UnitsOf(i)
    BY <1>1, <1>2 DEF InUnit
  <2>2. next' = Before(i, cppFileIndex') + 1
    BY <1>1, <1>2
  <2>3. out' = Prefix(i, cppFileIndex' - 1, Before(i, cppFileIndex'))
    <3>1. cppFileIndex' - 1 = cppFileIndex
      BY <1>1, <1>2
    <3> QED
      BY <1>2, <3>1 DEF InUnit
  <2>4. UnitsOf(i)' = UnitsOf(i) /\ \A k, m : Before(i, k)' = Before(i, k)
    BY DEF UnitsOf, Before
  <2> QED
    BY <2>1, <2>2, <2>3 DEF SavingUnit, InUnit, UnitsOf, Before
<1>4. (cppFileIndex \in Nat /\ next \in Nat \ {0} /\ fixed \in 0 .. 4 /\ exported \in BOOLEAN)'
  BY <1>1, <1>2 DEF ProgressInv, Types
<1>5. saving' \notin {NoFile, PatchedFile, ImageFile} /\ status' # "done"
  BY <1>2, Names DEF Printing, Ready
<1>6. Position(i)'
  BY <1>3 DEF Position
<1> QED
  BY <1>4, <1>5, <1>6, RunProgress

LEMMA FlushUnitProgress == ASSUME ProgressInv, FlushUnit PROVE ProgressInv'
<1>1. PICK i \in Image : image = <<i>> /\ (AtStart \/ BetweenUnits(i) \/ InUnit(i))
  BY ReadyPosition DEF FlushUnit, Printing
<1>2. InUnit(i)
  BY <1>1, FixedHasFour DEF FlushUnit, AtStart, BetweenUnits
<1> DEFINE k == cppFileIndex
<1>3. /\ k \in Nat /\ next \in Nat \ {0} /\ next - 1 \in Nat /\ next <= Count(i) /\ Count(i) \in Nat
      /\ PerUnit \in Nat /\ PerUnit > 0
  BY <1>1, Sizes DEF ProgressInv, Types, FlushUnit, Printed, Count
<1>4. (next - 1) % PerUnit = 0
  BY DEF FlushUnit, StartsUnit
<1>5. /\ k + 1 \in Nat /\ Before(i, k + 1) \in Nat /\ Before(i, k + 1) <= (k + 1) * PerUnit
      /\ Before(i, k + 1) = Count(i) \/ Before(i, k + 1) = (k + 1) * PerUnit
      /\ (k + 1) * PerUnit \in Nat
  <2>1. k + 1 \in Nat
    BY <1>3
  <2> QED
    BY <2>1, UnitRange
<1>6. next - 1 = (k + 1) * PerUnit
  <2>1. k * PerUnit < next - 1 /\ next - 1 <= (k + 1) * PerUnit
    BY <1>2, <1>3, <1>5 DEF InUnit
  <2>2. ~(next - 1 < (k + 1) * PerUnit)
    BY <1>3, <1>4, <2>1, Multiples
  <2> QED
    BY <1>3, <1>5, <2>1, <2>2
<1>7. next - 1 = Before(i, k + 1)
  BY <1>2, <1>3, <1>5, <1>6 DEF InUnit
<1> QED
  BY <1>1, <1>2, <1>7, SaveUnitProgress DEF FlushUnit, Rest, ghosts

LEMMA FinishProgress == ASSUME ProgressInv, Finish PROVE ProgressInv'
<1>1. PICK i \in Image : image = <<i>> /\ (AtStart \/ BetweenUnits(i) \/ InUnit(i))
  BY ReadyPosition DEF Finish, Printing
<1>2. /\ cppFileIndex \in Nat /\ next \in Nat \ {0} /\ next = Count(i) + 1 /\ Count(i) \in Nat
      /\ UNCHANGED <<input, image, most, mixed>> /\ UNCHANGED <<out, exported, fixed, next, stage>>
  BY <1>1, Sizes DEF ProgressInv, Types, Finish, Printed, Count, ghosts
<1>3. CASE out # <<>>
  <2>1. InUnit(i)
    BY <1>1, <1>3, FixedHasFour DEF Finish, AtStart, BetweenUnits
  <2>2. cppFileIndex + 1 \in Nat
    BY <1>2
  <2>3. Before(i, cppFileIndex + 1) <= Count(i) /\ Before(i, cppFileIndex + 1) \in Nat
    BY <2>2, UnitRange
  <2>4. next - 1 = Before(i, cppFileIndex + 1)
    BY <1>2, <2>1, <2>3 DEF InUnit
  <2> QED
    BY <1>1, <1>2, <1>3, <2>1, <2>4, SaveUnitProgress DEF Finish
<1>4. CASE out = <<>>
  <2>1. BetweenUnits(i)
    <3>1. ~InUnit(i)
      <4>1. ASSUME InUnit(i) PROVE FALSE
        <5>1. /\ cppFileIndex * PerUnit \in Nat /\ next - 1 \in Nat
              /\ cppFileIndex * PerUnit <= next - 1
          BY <1>2, <4>1, UnitRange DEF InUnit
        <5>2. Prefix(i, cppFileIndex, next - 1) # <<>>
          BY <1>2, <5>1, Texts
        <5> QED
          BY <1>4, <4>1, <5>2 DEF InUnit
      <4> QED
        BY <4>1
    <3> QED
      BY <1>1, <3>1, FixedHasFour DEF Finish, AtStart
  <2>2. UNCHANGED <<saving, cppFileIndex>>
    BY <1>4 DEF Finish
  <2>3. BetweenUnits(i)'
    BY <1>2, <2>1, <2>2 DEF BetweenUnits, UnitsOf, Before
  <2>4. (cppFileIndex \in Nat /\ next \in Nat \ {0} /\ fixed \in 0 .. 4 /\ exported \in BOOLEAN)'
    BY <1>2, <2>2 DEF ProgressInv, Types
  <2>5. saving' = NoFile /\ stage' = "compare"
    BY <1>1, <1>2, <2>1, <2>2 DEF BetweenUnits, ProgressInv
  <2>6. Position(i)'
    BY <2>3 DEF Position
  <2> QED
    BY <1>1, <1>2, <2>3, <2>4, <2>5, <2>6, Names, RunProgress
<1> QED
  BY <1>3, <1>4

LEMMA PrintFunctionProgress == ASSUME ProgressInv, PrintFunction PROVE ProgressInv'
<1>1. PICK i \in Image : image = <<i>> /\ (AtStart \/ BetweenUnits(i) \/ InUnit(i))
  BY ReadyPosition DEF PrintFunction, Printing
<1> DEFINE k == cppFileIndex
           b == k * PerUnit
           m == next - 1
<1>2. /\ k \in Nat /\ next \in Nat \ {0} /\ next <= Count(i) /\ Count(i) \in Nat
      /\ PerUnit \in Nat /\ PerUnit > 0 /\ UnitsOf(i) \in Nat
      /\ StartsUnit => out = <<>>
  BY <1>1, Sizes, UnitRange DEF ProgressInv, Types, PrintFunction, Printed, Count
<1>3. /\ b \in Nat /\ (k + 1) * PerUnit = b + PerUnit /\ b % PerUnit = 0
      /\ \A l \in Nat : b < l /\ l < b + PerUnit => l % PerUnit # 0
  BY <1>2, Multiples
<1>4. /\ Before(i, k) <= b /\ (Before(i, k) = Count(i) \/ Before(i, k) = b)
      /\ b < Count(i) => k + 1 <= UnitsOf(i)
  BY <1>2, UnitRange
<1>5. /\ Before(i, k + 1) = Count(i) \/ Before(i, k + 1) = b + PerUnit
      /\ Before(i, k + 1) \in Nat /\ Before(i, k + 1) <= b + PerUnit
  <2>1. k + 1 \in Nat
    BY <1>2
  <2> QED
    BY <2>1, <1>3, UnitRange
<1>6. BetweenUnits(i) \/ InUnit(i)
  BY <1>1, FixedHasFour DEF PrintFunction, AtStart
<1> HIDE DEF b
<1>7. /\ b <= m /\ m + 1 <= Before(i, k + 1) /\ k + 1 <= UnitsOf(i)
      /\ out' = Prefix(i, k, m + 1)
  <2>1. m \in Nat /\ m + 1 = next
    BY <1>2
  <2> HIDE DEF m
  <2>4. b <= m => /\ Prefix(i, k, m) # <<>>
                  /\ m = b => Append(<<Include>>, Code(Functions[i][m + 1])) = Prefix(i, k, m + 1)
                  /\ Append(Prefix(i, k, m), Code(Functions[i][m + 1])) = Prefix(i, k, m + 1)
    <3> HIDE DEF k
    <3>1. b = k * PerUnit
      BY DEF b
    <3>2. ASSUME b <= m
          PROVE  /\ Prefix(i, k, m) # <<>>
                 /\ m = k * PerUnit =>
                      Append(<<Include>>, Code(Functions[i][m + 1])) = Prefix(i, k, m + 1)
                 /\ Append(Prefix(i, k, m), Code(Functions[i][m + 1])) = Prefix(i, k, m + 1)
      <4>1. k \in Nat /\ m \in Nat
        BY <1>2, <2>1
      <4>2. k * PerUnit \in Nat /\ k * PerUnit <= m
        BY <1>3, <3>1, <3>2
      <4> QED
        BY <4>1, <4>2, Texts
    <3> QED
      BY <3>1, <3>2
  <2>2. CASE BetweenUnits(i)
    <3>1. m = b
      BY <1>2, <1>3, <1>4, <2>1, <2>2 DEF BetweenUnits, m
    <3>2. StartsUnit
      BY <1>3, <3>1 DEF StartsUnit, m
    <3>3. out' = Append(<<Include>>, Code(Functions[i][m + 1]))
      BY <1>1, <2>1, <3>2 DEF PrintFunction, Printed
    <3>4. out' = Prefix(i, k, m + 1)
      BY <1>3, <2>4, <3>1, <3>3
    <3> QED
      BY <1>2, <1>3, <1>4, <1>5, <2>1, <3>1, <3>4
  <2>3. CASE InUnit(i)
    <3>1. b < m /\ m <= Before(i, k + 1) /\ k + 1 <= UnitsOf(i) /\ out = Prefix(i, k, m)
      BY <2>3 DEF InUnit, b, m
    <3>2. out # <<>>
      BY <1>3, <2>1, <2>4, <3>1
    <3>3. ~StartsUnit
      BY <1>2, <3>2
    <3>4. m # b + PerUnit
      <4>1. ((k + 1) * PerUnit) % PerUnit = 0
        <5>1. k + 1 \in Nat
          BY <1>2
        <5> QED
          BY <1>2, <5>1, Multiples
      <4> QED
        BY <1>3, <3>3, <4>1 DEF StartsUnit, m
    <3>5. out' = Append(out, Code(Functions[i][m + 1]))
      BY <1>1, <2>1, <3>3 DEF PrintFunction, Printed
    <3>6. out' = Prefix(i, k, m + 1)
      BY <1>3, <2>1, <2>4, <3>1, <3>5
    <3>7. m + 1 <= Before(i, k + 1)
      BY <1>2, <1>3, <1>5, <2>1, <3>1, <3>4
    <3> QED
      BY <3>1, <3>6, <3>7, <2>1, <1>3
  <2> QED
    BY <1>6, <2>2, <2>3 DEF m
<1>8. /\ next' = next + 1 /\ UNCHANGED <<cppFileIndex, exported, fixed, saving, stage>>
      /\ UNCHANGED <<input, image, most, mixed, status>>
  BY DEF PrintFunction, Rest, ghosts
<1>9. InUnit(i)'
  <2>1. saving = NoFile /\ fixed = 4 /\ exported
    BY <1>6 DEF BetweenUnits, InUnit
  <2>2. next' - 1 = m + 1 /\ b < m + 1
    BY <1>2, <1>3, <1>7, <1>8
  <2>3. /\ saving' = NoFile /\ fixed' = 4 /\ exported' /\ cppFileIndex' + 1 <= UnitsOf(i)
        /\ cppFileIndex' * PerUnit < next' - 1 /\ next' - 1 <= Before(i, cppFileIndex' + 1)
        /\ out' = Prefix(i, cppFileIndex', next' - 1)
    BY <1>7, <1>8, <2>1, <2>2 DEF b
  <2> QED
    BY <2>3 DEF InUnit, UnitsOf, Before
<1>10. Position(i)'
  BY <1>9 DEF Position
<1>11. (cppFileIndex \in Nat /\ next \in Nat \ {0} /\ fixed \in 0 .. 4 /\ exported \in BOOLEAN)'
  BY <1>2, <1>8 DEF ProgressInv, Types
<1>12. stage = "compare" /\ saving = NoFile /\ status = "running"
  BY ReadyPosition DEF PrintFunction, Printing, Ready
<1> QED
  BY <1>1, <1>8, <1>10, <1>11, <1>12, Names, RunProgress

LEMMA OtherProgress ==
  ASSUME ProgressInv, SkipKeeping \/ Truncate \/ Compare \/ Fill \/ FillShort
  PROVE  ProgressInv'
<1>1. CASE SkipKeeping
  <2>1. PICK i \in Image : image = <<i>>
    BY <1>1, Names DEF ProgressInv, Types, SkipKeeping, AtStart
  <2>2. Keeping
    <3>1. Position(i) /\ saving = PatchedFile
      BY <1>1, <2>1 DEF ProgressInv, SkipKeeping
    <3> QED
      BY <3>1, Names DEF Position, AtStart, Exporting, SavingFixed, BetweenUnits, InUnit, SavingUnit,
                         ProgressInv, Types
  <2>3. AtStart'
    BY <1>1, <2>2 DEF Keeping, AtStart, Idle, NoUnit, SkipKeeping
  <2>4. Position(i)'
    BY <2>3 DEF Position
  <2>5. (cppFileIndex \in Nat /\ next \in Nat \ {0} /\ fixed \in 0 .. 4 /\ exported \in BOOLEAN)'
    BY <1>1 DEF ProgressInv, Types, SkipKeeping
  <2>6. status' # "done"
    BY <1>1, Names DEF SkipKeeping, ProgressInv, Finished, BetweenUnits
  <2> QED
    BY <1>1, <2>1, <2>4, <2>5, <2>6, Names, RunProgress DEF SkipKeeping, ghosts
<1>2. CASE Compare
  <2>1. CASE SameOnDisk
    BY <1>2, <2>1, SavedProgress DEF Compare, Rest, ghosts, ProgressInv, Types
  <2>2. CASE ~SameOnDisk
    <3>1. /\ stage' = "truncate" /\ UNCHANGED <<saving, out, cppFileIndex, exported, fixed, next>>
          /\ UNCHANGED <<input, image, status, most, mixed>> /\ saving # NoFile
      BY <1>2, <2>2 DEF Compare, Rest, ghosts
    <3>2. PICK i \in Image : image = <<i>>
      BY <3>1 DEF ProgressInv, Types, AtStart
    <3>3. Position(i)'
      <4>1. Position(i)
        BY <3>2 DEF ProgressInv
      <4> QED
        BY <3>1, <4>1 DEF Position, AtStart, Keeping, Exporting, SavingFixed, FixedText, BetweenUnits,
                          InUnit, SavingUnit, Idle, NoUnit
    <3>4. (cppFileIndex \in Nat /\ next \in Nat \ {0} /\ fixed \in 0 .. 4 /\ exported \in BOOLEAN)'
      BY <3>1 DEF ProgressInv, Types
    <3>5. status' # "done"
      BY <3>1 DEF ProgressInv, Finished, BetweenUnits
    <3> QED
      BY <3>1, <3>2, <3>3, <3>4, <3>5, RunProgress
  <2> QED
    BY <2>1, <2>2
<1>3. CASE Truncate
  <2>1. /\ stage = "truncate" /\ stage' = "fill"
        /\ UNCHANGED <<saving, out, cppFileIndex, exported, fixed, next>>
        /\ UNCHANGED <<input, image, status, most, mixed>>
    BY <1>3 DEF Truncate
  <2>2. saving # NoFile
    BY <2>1 DEF ProgressInv
  <2>3. PICK i \in Image : image = <<i>>
    BY <2>2 DEF ProgressInv, Types, AtStart
  <2>4. Position(i)'
    <3>1. Position(i)
      BY <2>3 DEF ProgressInv
    <3> QED
      BY <2>1, <3>1 DEF Position, AtStart, Keeping, Exporting, SavingFixed, FixedText, BetweenUnits,
                        InUnit, SavingUnit, Idle, NoUnit
  <2>5. (cppFileIndex \in Nat /\ next \in Nat \ {0} /\ fixed \in 0 .. 4 /\ exported \in BOOLEAN)'
    BY <2>1 DEF ProgressInv, Types
  <2>6. status' # "done"
    BY <2>1, <2>2 DEF ProgressInv, Finished, BetweenUnits
  <2> QED
    BY <2>1, <2>2, <2>3, <2>4, <2>5, <2>6, RunProgress
<1>4. CASE Fill
  <2>1. saving # NoFile
    BY <1>4 DEF Fill, ProgressInv
  <2> QED
    BY <1>4, <2>1, SavedProgress DEF Fill, Rest, ghosts, ProgressInv, Types
<1>5. CASE FillShort
  <2>1. saving # NoFile
    BY <1>5 DEF FillShort, ProgressInv
  <2>2. CASE saving = ImageFile
    <3>1. Fresh /\ UNCHANGED <<input, image, most, mixed>> /\ status' = "failed"
      BY <1>5, <2>2 DEF FillShort, Failed, ghosts
    <3> QED
      BY <3>1, FreshProgress DEF ProgressInv, Types
  <2>3. CASE saving # ImageFile
    <3>1. mixed' \in BOOLEAN
      BY <1>5, <2>3, Zenon DEF FillShort, ProgressInv, Types
    <3>2. Saved /\ UNCHANGED <<cppFileIndex, exported, fixed, next>> /\ UNCHANGED <<input, image, status, most>>
      BY <1>5, <2>3 DEF FillShort
    <3> QED
      BY <2>1, <3>1, <3>2, SavedProgress
  <2> QED
    BY <2>2, <2>3
<1> QED
  BY <1>1, <1>2, <1>3, <1>4, <1>5

-----------------------------------------------------------------------------
(* The patched file that is kept: nothing, half an image or an image; and, *)
(* unless mixed, the image that the input asks for.                        *)
IsKept(text) == text = <<>> \/ \E i \in Image : text = <<Half(i)>> \/ text = Binary(i)

KeptInv ==
  /\ PatchedFile \in DOMAIN disk => IsKept(disk[PatchedFile])
  /\ ~mixed => /\ PatchedFile \in DOMAIN disk =>
                    disk[PatchedFile] \in {<<>>, Binary(Wanted(input))}
               /\ image # <<>> => image[1] = Wanted(input)

LEMMA Writes ==
  ASSUME NEW text, Write(text)
  PROVE  /\ DOMAIN disk' = DOMAIN disk \cup {saving} /\ disk'[saving] = text
         /\ \A f \in DOMAIN disk' : f # saving => disk'[f] = disk[f]
BY DEF Write

LEMMA Singleton ==
  ASSUME NEW S, NEW s \in Seq(S), Len(s) = 1
  PROVE  s = <<s[1]>>
<1>1. <<s[1]>> \in Seq(S) /\ Len(<<s[1]>>) = 1 /\ <<s[1]>>[1] = s[1]
  OBVIOUS
<1> QED
  BY <1>1

LEMMA Parts ==
  ASSUME NEW i \in Image, NEW text, NEW n \in 0 .. Len(Binary(i)) - 1, text = SubSeq(Binary(i), 1, n)
  PROVE  IsKept(text)
<1>1. Binary(i) \in Seq({Half(i)}) /\ Len(Binary(i)) = 2 /\ Binary(i)[1] = Half(i)
  BY DEF Binary
<1>2. CASE n = 0
  BY <1>1, <1>2 DEF IsKept
<1>3. CASE n = 1
  <2>1. text \in Seq({Half(i)}) /\ Len(text) = 1 /\ text[1] = Half(i)
    BY <1>1, <1>3
  <2>2. text = <<Half(i)>>
    BY <2>1, Singleton
  <2> QED
    BY <2>2 DEF IsKept
<1> QED
  BY <1>1, <1>2, <1>3

LEMMA LoadImage ==
  ASSUME ProgressInv, KeptInv, LoadKept \/ LoadGame \/ LoadPatched
  PROVE  \E i \in Image : image' = <<i>> /\ (~mixed => i = Wanted(input))
<1>1. CASE LoadKept
  <2> DEFINE text == disk[PatchedFile]
             i == [text[1].of[1] EXCEPT !.whole = (Len(text) = 2)]
  <2>1. image' = <<i>> /\ PatchedFile \in DOMAIN disk /\ text # <<>>
    BY <1>1 DEF LoadKept, Kept, Loaded
  <2>2. ASSUME NEW j \in Image, text = <<Half(j)>> \/ text = Binary(j)
        PROVE  i = [j EXCEPT !.whole = (Len(text) = 2)] /\ i \in Image
    <3>1. text[1].of[1] = j
      BY <2>2 DEF Binary, Half
    <3>2. (Len(text) = 2) \in BOOLEAN
      OBVIOUS
    <3> QED
      BY <3>1, <3>2 DEF Image
  <2>3. PICK j \in Image : text = <<Half(j)>> \/ text = Binary(j)
    BY <2>1 DEF KeptInv, IsKept
  <2>4. ASSUME ~mixed PROVE i = Wanted(input)
    <3>1. text = Binary(Wanted(input)) /\ Wanted(input) \in Image
      BY <2>1, <2>4, WantedImage DEF KeptInv, ProgressInv, Types
    <3>2. Len(text) = 2
      BY <3>1 DEF Binary
    <3>3. i = [Wanted(input) EXCEPT !.whole = TRUE]
      BY <2>2, <3>1, <3>2
    <3>4. [Wanted(input) EXCEPT !.whole = TRUE] = Wanted(input)
      <4>1. Wanted(input) \in Image /\ Wanted(input).whole = TRUE
        BY <3>1 DEF Wanted
      <4> QED
        BY <4>1 DEF Image
    <3> HIDE DEF i
    <3> QED
      BY <3>3, <3>4
  <2> QED
    BY <2>1, <2>2, <2>3, <2>4
<1>2. CASE LoadGame \/ LoadPatched
  BY <1>2, WantedImage DEF LoadGame, LoadPatched, Loaded, ProgressInv, Types
<1> QED
  BY <1>1, <1>2

(* The text of a file while it is saved.                                   *)
LEMMA Saving ==
  ASSUME ProgressInv, saving # NoFile
  PROVE  \E i \in Image :
           /\ image = <<i>> /\ Position(i)
           /\ saving \in {PatchedFile, ImageFile} => Text = Binary(i)
           /\ saving \notin {PatchedFile, ImageFile} => Text = out
<1>1. PICK i \in Image : image = <<i>>
  BY DEF ProgressInv, Types, AtStart
<1>2. Position(i)
  BY <1>1 DEF ProgressInv
<1> QED
  BY <1>1, <1>2, Names DEF Text, KeptImage

LEMMA KillStep ==
  ASSUME ProgressInv, Kill
  PROVE  ProgressInv'
<1>1. mixed' \in BOOLEAN
  BY Zenon DEF Kill, ProgressInv, Types
<1>2. Fresh /\ UNCHANGED <<input, image, most>> /\ status' = "killed"
  BY DEF Kill
<1> QED
  BY <1>1, <1>2, FreshProgress DEF ProgressInv, Types

LEMMA BeginStep ==
  ASSUME ProgressInv, Begin
  PROVE  ProgressInv'
<1>1. mixed' \in BOOLEAN
  BY Zenon DEF Begin, ProgressInv, Types
<1>2. most' \in Nat
  <2>1. most' \in {most} \cup {UnitsOf(i) : i \in Image}
    BY DEF Begin, ProgressInv, Types
  <2>2. \A i \in Image : UnitsOf(i) \in Nat
    BY UnitRange
  <2> QED
    BY <2>1, <2>2 DEF ProgressInv, Types
<1>3. Fresh /\ input' \in Inputs /\ image' = <<>> /\ status' = "running"
  BY DEF Begin
<1> QED
  BY <1>1, <1>2, <1>3, FreshProgress

LEMMA Progress == ASSUME ProgressInv, KeptInv, [Next]_vars PROVE ProgressInv'
<1>1. CASE Begin
  BY <1>1, BeginStep
<1>2. CASE LoadKept \/ LoadGame \/ LoadPatched
  BY <1>2, LoadImage, LoadProgress
<1>3. CASE Export \/ PrintFixed \/ FlushUnit \/ PrintFunction \/ Finish
  BY <1>3, ExportProgress, PrintFixedProgress, FlushUnitProgress, PrintFunctionProgress, FinishProgress
<1>4. CASE SkipKeeping \/ Compare \/ Truncate \/ Fill \/ FillShort
  BY <1>4, OtherProgress
<1>5. CASE PatchFails \/ ExportFails
  <2>1. Fresh /\ UNCHANGED <<input, image, most, mixed>> /\ status' = "failed"
    BY <1>5 DEF PatchFails, ExportFails, Failed, ghosts
  <2> QED
    BY <2>1, FreshProgress DEF ProgressInv, Types
<1>6. CASE Kill
  BY <1>6, KillStep
<1>7. CASE UNCHANGED vars
  <2>1. /\ UNCHANGED <<input, image, out, cppFileIndex, exported, fixed, next>>
        /\ UNCHANGED <<saving, stage, status, most, mixed>>
    BY <1>7 DEF vars, progress, bounds, ghosts
  <2>2. \A i \in Image : Position(i)' = Position(i)
    BY <2>1 DEF Position, AtStart, Keeping, Exporting, SavingFixed, FixedText, BetweenUnits,
                InUnit, SavingUnit, Idle, NoUnit
  <2>3. Types' /\ (image = <<>> \/ \E i \in Image : image = <<i>>)
    BY <2>1 DEF ProgressInv, Types
  <2>4. (AtStart /\ Idle)' = (AtStart /\ Idle)
    BY <2>1 DEF AtStart, Idle, NoUnit
  <2>5. Finished' = Finished
    BY <2>1 DEF Finished, BetweenUnits, Count
  <2> QED
    BY <2>1, <2>2, <2>3, <2>4, <2>5 DEF ProgressInv
<1> QED
  BY <1>1, <1>2, <1>3, <1>4, <1>5, <1>6, <1>7 DEF Next

-----------------------------------------------------------------------------
(* What a step of a run does to the directory: nothing, or something to    *)
(* the file that it writes.                                                *)
LEMMA DiskStep ==
  ASSUME ProgressInv, [Next]_vars
  PROVE  \/ UNCHANGED disk
         \/ /\ saving # NoFile /\ UNCHANGED <<input, image, stale, most>>
            /\ \/ Truncate
               \/ Fill
               \/ \E text \in Part \cup {Text} :
                    /\ Write(text) /\ stage = "fill" /\ UNCHANGED touched
                    /\ mixed' = (mixed \/ saving = PatchedFile)
                    /\ \/ Fresh /\ UNCHANGED short
                       \/ Saved /\ UNCHANGED <<exported, fixed, cppFileIndex, status>>
                          /\ short' = short \cup {saving} /\ saving # ImageFile
<1>1. stage # "compare" => saving # NoFile
  BY DEF ProgressInv
<1>2. CASE Begin \/ LoadKept \/ LoadGame \/ LoadPatched \/ SkipKeeping \/ PatchFails \/ Export
           \/ ExportFails \/ PrintFixed \/ FlushUnit \/ PrintFunction \/ Finish \/ Compare
  BY <1>2 DEF Begin, LoadKept, LoadGame, LoadPatched, Loaded, SkipKeeping, PatchFails, Export,
              ExportFails, PrintFixed, FlushUnit, PrintFunction, Finish, Compare
<1>3. CASE Truncate \/ Fill
  BY <1>1, <1>3 DEF Truncate, Fill, Rest, ghosts
<1>4. CASE FillShort
  <2>1. PICK text \in Part : Write(text)
    BY <1>4 DEF FillShort
  <2>2. stage = "fill" /\ UNCHANGED <<input, image, stale, most, touched>>
    BY <1>4 DEF FillShort, Failed, ghosts
  <2>3. CASE saving = ImageFile
    <3>1. Fresh /\ UNCHANGED <<mixed, short>>
      BY <1>4, <2>3 DEF FillShort, Failed, ghosts
    <3>2. mixed \in BOOLEAN /\ saving # PatchedFile
      BY <2>3, Names DEF ProgressInv, Types
    <3>3. mixed' = (mixed \/ saving = PatchedFile)
      BY <3>1, <3>2
    <3> QED
      BY <1>1, <2>1, <2>2, <3>1, <3>3
  <2>4. CASE saving # ImageFile
    BY <1>1, <1>4, <2>1, <2>2, <2>4 DEF FillShort
  <2> QED
    BY <2>3, <2>4
<1>5. CASE Kill
  BY <1>1, <1>5 DEF Kill
<1>6. CASE UNCHANGED vars
  BY <1>6 DEF vars
<1> QED
  BY <1>2, <1>3, <1>4, <1>5, <1>6 DEF Next

LEMMA SameImage ==
  ASSUME ProgressInv, KeptInv, [Next]_vars, ~mixed'
  PROVE  /\ ~mixed /\ Wanted(input') = Wanted(input)
         /\ image' # <<>> => image'[1] = Wanted(input)
<1>1. CASE Begin
  BY <1>1 DEF Begin
<1>2. CASE LoadKept \/ LoadGame \/ LoadPatched
  <2>1. UNCHANGED <<mixed, input>>
    BY <1>2 DEF LoadKept, LoadGame, LoadPatched, Loaded
  <2> QED
    BY <1>2, <2>1, LoadImage
<1>3. CASE FillShort \/ Kill
  <2>1. UNCHANGED <<input, image>> /\ ~mixed
    <3>1. UNCHANGED <<input, image>>
      BY <1>3 DEF FillShort, Failed, Kill
    <3>2. ~mixed
      BY <1>3 DEF FillShort, Failed, Kill, ghosts
    <3> QED
      BY <3>1, <3>2
  <2> QED
    BY <2>1 DEF KeptInv
<1>4. CASE \/ SkipKeeping \/ PatchFails \/ Export \/ ExportFails \/ PrintFixed \/ FlushUnit
           \/ PrintFunction \/ Finish \/ Compare \/ Truncate \/ Fill \/ UNCHANGED vars
  <2>1. UNCHANGED <<mixed, input, image>>
    BY <1>4 DEF SkipKeeping, PatchFails, Failed, Export, ExportFails, PrintFixed, FlushUnit,
                PrintFunction, Finish, Compare, Truncate, Fill, Rest, ghosts, vars
  <2> QED
    BY <2>1 DEF KeptInv
<1> QED
  BY <1>1, <1>2, <1>3, <1>4 DEF Next

LEMMA KeptText ==
  ASSUME ProgressInv, KeptInv, saving = PatchedFile
  PROVE  /\ IsKept(<<>>) /\ \A text \in Part \cup {Text} : IsKept(text)
         /\ ~mixed => Text = Binary(Wanted(input))
<1>1. PICK i \in Image : image = <<i>> /\ Text = Binary(i)
  BY Saving, Names
<1>2. \A text \in Part : IsKept(text)
  BY <1>1, Parts DEF Part
<1> QED
  BY <1>1, <1>2 DEF IsKept, KeptInv

LEMMA KeptStep == ASSUME ProgressInv, KeptInv, [Next]_vars PROVE KeptInv'
<1>1. UNCHANGED disk => KeptInv'
  BY SameImage DEF KeptInv, IsKept
<1>2. ASSUME ~UNCHANGED disk
      PROVE  KeptInv'
  <2>1. PICK text \in {<<>>, Text} \cup Part :
          Write(text) /\ (text \notin {<<>>, Text} /\ saving = PatchedFile => mixed')
    BY <1>2, DiskStep DEF Truncate, Fill
  <2>2. /\ DOMAIN disk' = DOMAIN disk \cup {saving} /\ disk'[saving] = text
        /\ \A f \in DOMAIN disk' : f # saving => disk'[f] = disk[f]
    BY <2>1, Writes
  <2>3. CASE saving # PatchedFile
    BY <2>2, <2>3, SameImage DEF KeptInv, IsKept
  <2>4. CASE saving = PatchedFile
    <3>1. IsKept(disk'[PatchedFile])
      BY <2>1, <2>2, <2>4, KeptText
    <3>2. ~mixed' => disk'[PatchedFile] \in {<<>>, Binary(Wanted(input))}
      BY <2>1, <2>2, <2>4, KeptText, SameImage
    <3> QED
      BY <3>1, <3>2, SameImage DEF KeptInv, IsKept
  <2> QED
    BY <2>3, <2>4
<1> QED
  BY <1>1, <1>2

-----------------------------------------------------------------------------
(* The text that an image asks of a file.                                  *)
Asks(i, f, text) ==
  \/ f = ImageFile /\ text = Binary(i)
  \/ \E n \in 1 .. 4 : f = FixedFile(n) /\ text = <<FixedText(i, n)>>
  \/ \E k \in 0 .. UnitsOf(i) - 1 : f = Unit(k) /\ text = UnitText(i, k)

LEMMA AsksOne ==
  ASSUME NEW i, NEW f, NEW a, NEW b, Asks(i, f, a), Asks(i, f, b)
  PROVE  a = b
<1>1. CASE f = ImageFile
  BY <1>1, Names DEF Asks
<1>2. ASSUME NEW n \in 1 .. 4, f = FixedFile(n) PROVE a = b
  <2>1. ASSUME NEW text, Asks(i, f, text) PROVE text = <<FixedText(i, n)>>
    BY <1>2, <2>1, Names DEF Asks
  <2> QED
    BY <2>1
<1>3. ASSUME NEW k \in 0 .. UnitsOf(i) - 1, f = Unit(k) PROVE a = b
  <2>1. ASSUME NEW text, Asks(i, f, text) PROVE text = UnitText(i, k)
    BY <1>3, <2>1, Names DEF Asks
  <2> QED
    BY <2>1
<1> QED
  BY <1>1, <1>2, <1>3 DEF Asks

LEMMA UpToDateAsks ==
  \A i, f : IsUpToDate(i, f) <=> f \in DOMAIN disk /\ Asks(i, f, disk[f])
BY FixedHasFour DEF IsUpToDate, Asks

(* What is saved is what the image asks for.                               *)
LEMMA SavingAsked ==
  ASSUME ProgressInv, saving # NoFile, saving # PatchedFile, NEW i \in Image, image = <<i>>
  PROVE  Asks(i, saving, Text) /\ saving \in FilesOf(i)
<1>1. /\ Position(i)
      /\ saving = ImageFile => Text = Binary(i)
      /\ saving # ImageFile => Text = out
  BY Saving
<1>2. CASE saving = ImageFile
  BY <1>1, <1>2 DEF Asks, FilesOf
<1>3. CASE SavingFixed(i)
  <2>1. fixed \in 1 .. 4
    BY <1>3 DEF SavingFixed, ProgressInv, Types
  <2>2. saving # ImageFile
    BY <1>3, <2>1, Names DEF SavingFixed
  <2> QED
    BY <1>1, <1>3, <2>1, <2>2, FixedHasFour DEF SavingFixed, Asks, FilesOf
<1>4. CASE SavingUnit(i)
  <2> DEFINE k == cppFileIndex - 1
  <2>1. k \in 0 .. UnitsOf(i) - 1 /\ k + 1 = cppFileIndex
    BY <1>4, UnitRange DEF SavingUnit
  <2>2. saving = Unit(k) /\ saving # ImageFile
    BY <1>4, Names DEF SavingUnit
  <2>3. out = UnitText(i, k)
    <3>1. out = Prefix(i, k, Before(i, k + 1))
      BY <1>4, <2>1 DEF SavingUnit
    <3> QED
      BY <3>1, WholeUnit
  <2> HIDE DEF k
  <2> QED
    BY <1>1, <2>1, <2>2, <2>3 DEF Asks, FilesOf
<1> QED
  BY <1>1, <1>2, <1>3, <1>4 DEF Position, AtStart, Keeping, Exporting, BetweenUnits, InUnit

LEMMA Elsewhere ==
  ASSUME ProgressInv, [Next]_vars, UNCHANGED input,
         NEW i, NEW f, f # saving \/ UNCHANGED disk
  PROVE  IsUpToDate(i, f) => IsUpToDate(i, f)'
<1>1. UNCHANGED disk \/ \E text : Write(text)
  BY DiskStep DEF Truncate, Fill
<1>2. f \in DOMAIN disk => f \in DOMAIN disk' /\ disk'[f] = disk[f]
  BY <1>1, Writes
<1>3. \A text : Asks(i, f, text)' = Asks(i, f, text)
  BY DEF Asks, FixedText, UnitsOf, UnitText, Smaller
<1> QED
  BY <1>2, FixedHasFour DEF IsUpToDate, FixedText

(* A file that has the text it is asked for.                               *)
LEMMA Asked ==
  ASSUME UNCHANGED input, NEW i, NEW f, f \in DOMAIN disk', Asks(i, f, disk'[f])
  PROVE  IsUpToDate(i, f)'
BY FixedHasFour DEF Asks, IsUpToDate, FixedText

-----------------------------------------------------------------------------
(* A file that a run found up to date stays so, and is never opened.       *)
Ours == {PatchedFile, ImageFile}

TouchedInv ==
  /\ image = <<>> => touched = {}
  /\ stage = "fill" => saving \in touched
  /\ stage = "truncate" => saving \in stale \cup Ours
  /\ OnlyStaleTouched
  /\ image # <<>> =>
       \A f \in FilesOf(image[1]) : f \in stale \/ f \in touched \/ IsUpToDate(image[1], f)

LEMMA TouchedStep == ASSUME ProgressInv, KeptInv, TouchedInv, [Next]_vars PROVE TouchedInv'
<1>1. CASE Begin
  BY <1>1 DEF Begin, Fresh, TouchedInv, OnlyStaleTouched
<1>2. CASE LoadKept \/ LoadGame \/ LoadPatched
  <2>1. PICK i \in Image : image' = <<i>>
    BY <1>2, LoadImage
  <2>2. /\ UNCHANGED <<input, disk, touched>> /\ touched = {}
        /\ stale' = {f \in FilesOf(i) : ~IsUpToDate(i, f)}
    <3>1. ASSUME NEW j, Loaded(j)
          PROVE  /\ UNCHANGED <<input, disk, touched>> /\ image' = <<j>>
                 /\ stale' = {f \in FilesOf(j) : ~IsUpToDate(j, f)}
      BY <3>1 DEF Loaded
    <3>2. \E j : Loaded(j)
      BY <1>2 DEF LoadKept, LoadGame, LoadPatched
    <3>3. touched = {}
      BY <1>2 DEF LoadKept, LoadGame, LoadPatched, Loading, TouchedInv
    <3> QED
      BY <2>1, <3>1, <3>2, <3>3
  <2>3. stage' = "compare" \/ (stage' = "truncate" /\ saving' = PatchedFile)
    <3>1. saving = NoFile /\ stage = "compare"
      BY <1>2 DEF LoadKept, LoadGame, LoadPatched, Loading, ProgressInv, AtStart
    <3> QED
      BY <1>2, <3>1 DEF LoadKept, LoadGame, LoadPatched
  <2>4. \A f \in FilesOf(i) : f \in stale' \/ IsUpToDate(i, f)'
    <3>1. \A f : IsUpToDate(i, f) => IsUpToDate(i, f)'
      BY <2>2, Elsewhere
    <3> QED
      BY <2>2, <3>1
  <2> QED
    BY <2>1, <2>2, <2>3, <2>4 DEF TouchedInv, OnlyStaleTouched, FilesOf, Ours
<1>3. ASSUME UNCHANGED <<input, image, stale>>,
             UNCHANGED touched \/ (touched' = touched \cup {saving} /\ stage = "truncate"),
             UNCHANGED disk \/ saving \in touched',
             image # <<>>,
             stage' = "fill" => saving' \in touched',
             stage' = "truncate" => saving' \in stale \cup Ours
      PROVE  TouchedInv'
  <2>1. PICK i \in Image : image = <<i>>
    BY <1>3 DEF ProgressInv, Types
  <2>2. OnlyStaleTouched'
    BY <1>3 DEF TouchedInv, OnlyStaleTouched, Ours
  <2>3. ASSUME NEW f \in FilesOf(i)
        PROVE  f \in stale \/ f \in touched' \/ IsUpToDate(i, f)'
    <3>1. f \in stale \/ f \in touched \/ IsUpToDate(i, f)
      BY <2>1 DEF TouchedInv
    <3>2. f # saving \/ UNCHANGED disk => (IsUpToDate(i, f) => IsUpToDate(i, f)')
      BY <1>3, Elsewhere
    <3> QED
      BY <1>3, <3>1, <3>2
  <2> QED
    BY <1>3, <2>1, <2>2, <2>3 DEF TouchedInv, FilesOf
<1>4. CASE Truncate
  <2>1. saving # NoFile /\ image # <<>>
    BY <1>4 DEF Truncate, ProgressInv, AtStart
  <2> QED
    BY <1>3, <1>4, <2>1 DEF Truncate
<1>5. CASE Compare
  <2>1. saving # NoFile /\ image # <<>> /\ stage = "compare"
    BY <1>5 DEF Compare, ProgressInv, AtStart
  <2>2. CASE SameOnDisk
    BY <1>3, <1>5, <2>1, <2>2 DEF Compare, Saved, Rest, ghosts
  <2>3. CASE ~SameOnDisk
    <3>1. PICK i \in Image : image = <<i>>
      BY <2>1 DEF ProgressInv, Types
    <3>2. saving \notin {PatchedFile, ImageFile}
      BY <2>1 DEF ProgressInv
    <3>3. Text = out
      BY <2>1, <3>2, Saving
    <3>4. Asks(i, saving, out) /\ saving \in FilesOf(i)
      BY <2>1, <3>1, <3>2, <3>3, SavingAsked
    <3>5. ~IsUpToDate(i, saving)
      BY <2>3, <3>4, UpToDateAsks, AsksOne DEF SameOnDisk
    <3>6. saving \in stale
      BY <3>1, <3>2, <3>4, <3>5 DEF TouchedInv, OnlyStaleTouched
    <3> QED
      BY <1>3, <1>5, <2>1, <2>3, <3>6 DEF Compare, Rest, ghosts
  <2> QED
    BY <2>2, <2>3
<1>6. CASE Fill \/ FillShort
  <2>1. saving # NoFile /\ image # <<>> /\ saving \in touched
    BY <1>6 DEF Fill, FillShort, ProgressInv, AtStart, TouchedInv
  <2>2. UNCHANGED <<input, image, stale, touched>> /\ stage' = "compare"
    BY <1>6 DEF Fill, FillShort, Failed, Fresh, Saved, Rest, ghosts
  <2> QED
    BY <1>3, <2>1, <2>2
<1>7. CASE Kill \/ PatchFails \/ ExportFails
  <2>1. /\ UNCHANGED <<input, image, stale, touched>> /\ stage' = "compare"
        /\ UNCHANGED disk \/ stage = "fill"
    BY <1>7 DEF Kill, PatchFails, ExportFails, Failed, Fresh, ghosts
  <2>2. CASE image # <<>>
    BY <1>3, <2>1, <2>2 DEF TouchedInv
  <2>3. CASE image = <<>>
    BY <2>1, <2>3 DEF TouchedInv, OnlyStaleTouched
  <2> QED
    BY <2>2, <2>3
<1>8. CASE SkipKeeping \/ Export \/ PrintFixed \/ FlushUnit \/ PrintFunction \/ Finish
  <2>1. UNCHANGED <<input, image, stale, touched, disk>>
    BY <1>8 DEF SkipKeeping, Export, PrintFixed, FlushUnit, PrintFunction, Finish, Rest, ghosts
  <2>2. image # <<>>
    BY <1>8, Names DEF SkipKeeping, Export, PrintFixed, FlushUnit, PrintFunction, Finish, Printing, Ready,
                       ProgressInv, AtStart
  <2>3. stage' = "compare" \/ (stage' = "truncate" /\ saving' = ImageFile)
    <3>1. Ready => stage = "compare"
      BY DEF Ready, ProgressInv
    <3> QED
      BY <1>8, <3>1 DEF SkipKeeping, Export, PrintFixed, FlushUnit, PrintFunction, Finish, Printing
  <2> QED
    BY <1>3, <2>1, <2>2, <2>3 DEF Ours
<1>9. CASE UNCHANGED vars
  <2>1. UNCHANGED <<input, image, stale, touched, disk, saving, stage>>
    BY <1>9 DEF vars, progress, ghosts
  <2>2. CASE image # <<>>
    BY <1>3, <2>1, <2>2 DEF TouchedInv
  <2>3. CASE image = <<>>
    BY <2>1, <2>3 DEF TouchedInv, OnlyStaleTouched, Ours
  <2> QED
    BY <2>2, <2>3
<1> QED
  BY <1>1, <1>2, <1>4, <1>5, <1>6, <1>7, <1>8, <1>9 DEF Next

-----------------------------------------------------------------------------
(* The files that a run has come to are what they have to be, apart from   *)
(* the one at hand and those cut short.                                    *)
Reached ==
  {f \in {ImageFile} : exported} \cup {FixedFile(n) : n \in 1 .. fixed}
    \cup {Unit(k) : k \in 0 .. cppFileIndex - 1}

Right(i, f) == IsUpToDate(i, f) \/ (f \in short /\ f # ImageFile)

WrittenInv ==
  /\ short \subseteq DOMAIN disk
  /\ image # <<>> => \A f \in Reached : f = saving \/ Right(image[1], f)

LEMMA NotReached == ASSUME Fresh PROVE Reached' = {}
BY DEF Fresh, Reached

(* The directory loses no file.                                            *)
LEMMA NoFileLost == ASSUME ProgressInv, [Next]_vars PROVE DOMAIN disk \subseteq DOMAIN disk'
<1>1. UNCHANGED disk \/ \E text : Write(text)
  BY DiskStep DEF Truncate, Fill
<1> QED
  BY <1>1, Writes

(* A step that passes to another file.                                     *)
LEMMA PassOn ==
  ASSUME ProgressInv, WrittenInv, [Next]_vars, image # <<>>,
         UNCHANGED <<input, image>>, UNCHANGED short \/ short' = short \cup {saving},
         short' \subseteq DOMAIN disk', Reached' \subseteq Reached \cup {saving'},
         NEW g, g = saving,
         g \in {NoFile, PatchedFile} \/ saving' = g \/ Right(image[1], g)'
  PROVE  WrittenInv'
<1>1. PICK i \in Image : image = <<i>>
  BY DEF ProgressInv, Types
<1>2. /\ fixed \in 0 .. 4 /\ cppFileIndex \in Nat
      /\ NoFile \notin Reached /\ PatchedFile \notin Reached
  BY Names DEF Reached, ProgressInv, Types
<1>3. ASSUME NEW f \in Reached', f # saving'
      PROVE  Right(i, f)'
  <2>1. f \in Reached
    BY <1>3
  <2>2. CASE f = g
    BY <1>1, <1>2, <1>3, <2>1, <2>2
  <2>3. CASE f # g
    <3>1. Right(i, f)
      BY <1>1, <2>1, <2>3 DEF WrittenInv
    <3>2. IsUpToDate(i, f) => IsUpToDate(i, f)'
      BY <2>3, Elsewhere
    <3> QED
      BY <3>1, <3>2 DEF Right
  <2> QED
    BY <2>2, <2>3
<1> QED
  BY <1>1, <1>3 DEF WrittenInv

LEMMA WrittenStep == ASSUME ProgressInv, KeptInv, WrittenInv, [Next]_vars PROVE WrittenInv'
<1> PICK g : g = saving
  OBVIOUS
<1>1. CASE Begin
  BY <1>1 DEF Begin, WrittenInv
<1>2. CASE LoadKept \/ LoadGame \/ LoadPatched
  <2>1. UNCHANGED <<disk, short, fixed, exported, cppFileIndex>> /\ image = <<>>
    BY <1>2 DEF LoadKept, LoadGame, LoadPatched, Loading, Loaded
  <2>2. Reached' = {}
    BY <2>1 DEF Reached, ProgressInv, Idle, NoUnit
  <2> QED
    BY <2>1, <2>2 DEF WrittenInv
<1>3. CASE PatchFails \/ ExportFails \/ Kill \/ (FillShort /\ saving = ImageFile)
  <2>1. Fresh /\ UNCHANGED short
    BY <1>3 DEF PatchFails, ExportFails, Kill, FillShort, Failed, ghosts
  <2> QED
    BY <2>1, NotReached, NoFileLost DEF WrittenInv
<1>4. CASE SkipKeeping \/ Export \/ PrintFixed \/ FlushUnit \/ PrintFunction \/ Finish
  <2>1. UNCHANGED <<input, image, disk, short>> /\ image # <<>>
    BY <1>4, Names DEF SkipKeeping, Export, PrintFixed, FlushUnit, PrintFunction, Finish, Rest, ghosts,
                       Printing, Ready, ProgressInv, AtStart
  <2>2. saving = NoFile \/ saving = PatchedFile
    BY <1>4 DEF SkipKeeping, Export, PrintFixed, FlushUnit, PrintFunction, Finish, Printing, Ready
  <2>3. Reached' \subseteq Reached \cup {saving'}
    <3>1. fixed \in 0 .. 4 /\ cppFileIndex \in Nat
      BY DEF ProgressInv, Types
    <3>2. CASE SkipKeeping \/ PrintFunction
      BY <3>2 DEF SkipKeeping, PrintFunction, Reached
    <3>3. CASE Export
      BY <3>3 DEF Export, Reached
    <3>4. CASE PrintFixed
      BY <3>1, <3>4 DEF PrintFixed, Reached
    <3>5. CASE FlushUnit
      BY <3>1, <3>5 DEF FlushUnit, SaveUnit, Reached
    <3>6. CASE Finish
      BY <3>1, <3>6 DEF Finish, SaveUnit, Reached
    <3> QED
      BY <1>4, <3>2, <3>3, <3>4, <3>5, <3>6
  <2>4. short' \subseteq DOMAIN disk'
    BY <2>1 DEF WrittenInv
  <2> QED
    BY <2>1, <2>2, <2>3, <2>4, PassOn
<1>5. CASE Truncate \/ Compare \/ Fill \/ (FillShort /\ saving # ImageFile)
  <2>1. /\ UNCHANGED <<input, image, exported, fixed, cppFileIndex>>
        /\ saving # NoFile /\ image # <<>>
    <3>1. UNCHANGED <<input, image, exported, fixed, cppFileIndex>>
      BY <1>5 DEF Truncate, Compare, Fill, FillShort, Rest
    <3>2. saving # NoFile
      BY <1>5 DEF Truncate, Compare, Fill, FillShort, ProgressInv
    <3> QED
      BY <3>1, <3>2 DEF ProgressInv, AtStart
  <2>2. PICK i \in Image : image = <<i>>
    BY <2>1 DEF ProgressInv, Types
  <2>3. Reached' = Reached
    BY <2>1 DEF Reached
  <2>4. saving # PatchedFile => Asks(i, saving, Text)
    BY <2>1, <2>2, SavingAsked
  <2>5. CASE Truncate
    <3>1. UNCHANGED <<short, saving>>
      BY <2>5 DEF Truncate
    <3>2. short' \subseteq DOMAIN disk'
      BY <3>1, NoFileLost DEF WrittenInv
    <3> QED
      BY <2>1, <2>3, <3>1, <3>2, PassOn
  <2>6. CASE Compare
    <3>1. UNCHANGED <<disk, short>> /\ stage = "compare"
      BY <2>6 DEF Compare, Rest, ghosts
    <3>2. saving \notin {PatchedFile, ImageFile} /\ Text = out
      BY <2>1, <3>1, Saving DEF ProgressInv
    <3>3. SameOnDisk => IsUpToDate(i, g)'
      BY <2>1, <2>4, <3>1, <3>2, Asked DEF SameOnDisk
    <3>4. SameOnDisk \/ saving' = saving
      BY <2>6 DEF Compare
    <3>5. short' \subseteq DOMAIN disk'
      BY <3>1 DEF WrittenInv
    <3> QED
      BY <2>1, <2>2, <2>3, <3>1, <3>3, <3>4, <3>5, PassOn DEF Right
  <2>7. CASE Fill
    <3>1. UNCHANGED short /\ Write(Text)
      BY <2>7 DEF Fill, Rest, ghosts
    <3>2. saving # PatchedFile => IsUpToDate(i, g)'
      BY <2>1, <2>4, <3>1, Writes, Asked
    <3>3. short' \subseteq DOMAIN disk'
      BY <3>1, NoFileLost DEF WrittenInv
    <3> QED
      BY <2>1, <2>2, <2>3, <3>1, <3>2, <3>3, PassOn DEF Right
  <2>8. CASE FillShort /\ saving # ImageFile
    <3>1. short' = short \cup {saving} /\ \E text : Write(text)
      BY <2>8 DEF FillShort
    <3>2. saving \in short' /\ short' \subseteq DOMAIN disk'
      BY <3>1, NoFileLost, Writes DEF WrittenInv
    <3> QED
      BY <2>1, <2>2, <2>3, <2>8, <3>1, <3>2, PassOn DEF Right
  <2> QED
    BY <1>5, <2>5, <2>6, <2>7, <2>8
<1>6. CASE UNCHANGED vars
  <2>1. UNCHANGED <<input, image, disk, short, saving, exported, fixed, cppFileIndex>>
    BY <1>6 DEF vars, progress, ghosts
  <2> QED
    BY <2>1 DEF WrittenInv, Reached, Right, IsUpToDate, FixedText
<1> QED
  BY <1>1, <1>2, <1>3, <1>4, <1>5, <1>6 DEF Next

-----------------------------------------------------------------------------
(* No unit is there but those that this run or an earlier one can have     *)
(* written.                                                                *)
LeftInv ==
  \A f \in DOMAIN disk : f.name = "ppc_recomp" =>
    \E k \in Nat :
      f = Unit(k) /\ (k < most \/ (image # <<>> /\ k < UnitsOf(image[1])))

LEMMA LeftStep == ASSUME ProgressInv, KeptInv, LeftInv, [Next]_vars PROVE LeftInv'
<1>1. CASE Begin
  <2>1. UNCHANGED disk /\ most \in Nat /\ most' \in Nat
    BY <1>1, Progress DEF Begin, ProgressInv, Types
  <2>2. image # <<>> => UnitsOf(image[1]) \in Nat
    BY UnitRange DEF ProgressInv, Types
  <2>3. most <= most' /\ (image # <<>> => UnitsOf(image[1]) <= most')
    BY <1>1, <2>1, <2>2 DEF Begin
  <2>4. ASSUME NEW f \in DOMAIN disk', f.name = "ppc_recomp"
        PROVE  \E k \in Nat : f = Unit(k) /\ k < most'
    <3>1. PICK k \in Nat :
            f = Unit(k) /\ (k < most \/ (image # <<>> /\ k < UnitsOf(image[1])))
      BY <2>1, <2>4 DEF LeftInv
    <3>2. k < most'
      BY <2>1, <2>2, <2>3, <3>1
    <3> QED
      BY <3>1, <3>2
  <2> QED
    BY <2>4 DEF LeftInv
<1>2. CASE LoadKept \/ LoadGame \/ LoadPatched
  <2>1. UNCHANGED <<disk, most>> /\ image = <<>>
    BY <1>2 DEF LoadKept, LoadGame, LoadPatched, Loading, Loaded
  <2> QED
    BY <2>1 DEF LeftInv
<1>3. CASE ~(Begin \/ LoadKept \/ LoadGame \/ LoadPatched)
  <2>1. UNCHANGED <<image, most>>
    BY <1>3 DEF Next, SkipKeeping, PatchFails, Failed, Export, ExportFails, PrintFixed, FlushUnit,
                PrintFunction, Finish, Compare, Truncate, Fill, FillShort, Kill, Rest, ghosts, vars
  <2>2. CASE UNCHANGED disk
    BY <2>1, <2>2 DEF LeftInv
  <2>3. CASE ~UNCHANGED disk
    <3>1. saving # NoFile /\ \E text : Write(text)
      BY <2>3, DiskStep DEF Truncate, Fill
    <3>2. PICK i \in Image : image = <<i>>
      BY <3>1 DEF ProgressInv, Types, AtStart
    <3>3. DOMAIN disk' = DOMAIN disk \cup {saving}
      BY <3>1, Writes
    <3>4. saving.name = "ppc_recomp" => \E k \in 0 .. UnitsOf(i) - 1 : saving = Unit(k)
      <4>1. CASE saving = PatchedFile
        BY <4>1, Names
      <4>2. CASE saving # PatchedFile
        <5>1. Asks(i, saving, Text)
          BY <3>1, <3>2, <4>2, SavingAsked
        <5> QED
          BY <5>1, Names DEF Asks
      <4> QED
        BY <4>1, <4>2
    <3>5. saving.name = "ppc_recomp" => \E k \in Nat : saving = Unit(k) /\ k < UnitsOf(i)
      <4>1. UnitsOf(i) \in Nat
        BY UnitRange
      <4> QED
        BY <3>4, <4>1
    <3> QED
      BY <2>1, <3>2, <3>3, <3>5 DEF LeftInv
  <2> QED
    BY <2>2, <2>3
<1> QED
  BY <1>1, <1>2, <1>3

-----------------------------------------------------------------------------
(* The sizes of what is held and written.                                  *)
Short(text) == \E S : text \in Seq(S) /\ Len(text) <= PerUnit + 1

LEMMA PrefixLength ==
  ASSUME NEW i \in Image, NEW k \in Nat, NEW m \in Nat,
         k * PerUnit <= m, m <= Before(i, k + 1)
  PROVE  Short(Prefix(i, k, m))
<1> DEFINE b == k * PerUnit
           s == TextFrom(i, b, m)
<1>1. b \in Nat /\ (k + 1) * PerUnit = b + PerUnit /\ PerUnit \in Nat
  BY UnitRange, Sizes
<1>2. m <= b + PerUnit
  <2>1. k + 1 \in Nat
    OBVIOUS
  <2>2. Before(i, k + 1) <= (k + 1) * PerUnit /\ Before(i, k + 1) \in Nat
    BY <2>1, UnitRange
  <2> QED
    BY <1>1, <2>2
<1> HIDE DEF b
<1>3. b <= m
  BY DEF b
<1>4. s \in [1 .. m - b + 1 -> {s[n] : n \in 1 .. m - b + 1}] /\ m - b + 1 \in Nat
  BY <1>1, <1>3 DEF TextFrom
<1> HIDE DEF s
<1>5. s \in Seq({s[n] : n \in 1 .. m - b + 1}) /\ Len(s) = m - b + 1
  BY <1>4
<1>6. Short(s)
  BY <1>1, <1>2, <1>3, <1>5 DEF Short
<1> QED
  BY <1>6 DEF Prefix, s, b

LEMMA ShortTexts ==
  /\ Short(<<>>) /\ \A x : Short(<<x>>)
  /\ \A i : Short(Binary(i))
  /\ \A text : Short(text) => \A n \in 0 .. Len(text) - 1 : Short(SubSeq(text, 1, n))
<1> PerUnit \in Nat /\ PerUnit > 0
  BY OutputAssumption
<1>1. <<>> \in Seq({}) /\ Len(<<>>) = 0
  OBVIOUS
<1>2. ASSUME NEW x PROVE <<x>> \in Seq({x}) /\ Len(<<x>>) = 1
  OBVIOUS
<1>3. ASSUME NEW i PROVE Binary(i) \in Seq({Half(i)}) /\ Len(Binary(i)) = 2
  BY DEF Binary
<1>4. ASSUME NEW S, NEW text \in Seq(S), Len(text) <= PerUnit + 1, NEW n \in 0 .. Len(text) - 1
      PROVE  SubSeq(text, 1, n) \in Seq(S) /\ Len(SubSeq(text, 1, n)) = n
  BY <1>4
<1>5. ASSUME NEW text, Short(text), NEW n \in 0 .. Len(text) - 1
      PROVE  Short(SubSeq(text, 1, n))
  <2>1. PICK S : text \in Seq(S) /\ Len(text) <= PerUnit + 1
    BY <1>5 DEF Short
  <2>2. SubSeq(text, 1, n) \in Seq(S) /\ Len(SubSeq(text, 1, n)) = n /\ Len(text) \in Nat
    BY <1>4, <1>5, <2>1
  <2>3. n <= PerUnit + 1
    BY <1>5, <2>1, <2>2
  <2> QED
    BY <2>2, <2>3 DEF Short
<1>6. Short(<<>>)
  BY <1>1 DEF Short
<1>7. ASSUME NEW x PROVE Short(<<x>>)
  <2>1. <<x>> \in Seq({x}) /\ Len(<<x>>) <= PerUnit + 1
    BY <1>2
  <2> QED
    BY <2>1, Zenon DEF Short
<1>8. ASSUME NEW i PROVE Short(Binary(i))
  <2>1. Binary(i) \in Seq({Half(i)}) /\ Len(Binary(i)) = 2
    BY <1>3, Zenon
  <2>2. Len(Binary(i)) <= PerUnit + 1
    BY <2>1
  <2> QED
    BY <2>1, <2>2, Zenon DEF Short
<1> QED
  BY <1>5, <1>6, <1>7, <1>8

LEMMA UnitsBounded == ASSUME NEW i \in Image PROVE UnitsOf(i) \in 0 .. MaxUnits
<1>1. MaxUnits \in Nat
  BY OutputAssumption
<1>2. MaxUnits * PerUnit < Count(i) <=> MaxUnits + 1 <= UnitsOf(i)
  BY <1>1, UnitRange
<1>3. MaxUnits * PerUnit \in Nat /\ UnitsOf(i) \in Nat
  BY <1>1, UnitRange
<1> QED
  BY <1>1, <1>2, <1>3, Sizes

(* What out holds, the number of the unit and the file at hand.            *)
LEMMA HeldTypes ==
  ASSUME ProgressInv
  PROVE  Short(out) /\ cppFileIndex \in 0 .. MaxUnits /\ saving \in File \cup {NoFile}
<1>1. MaxUnits \in Nat /\ DOMAIN Fixed = 1 .. 4
  BY OutputAssumption, FixedHasFour
<1>2. CASE image = <<>>
  BY <1>1, <1>2, ShortTexts DEF ProgressInv, AtStart, Idle, NoUnit
<1>3. CASE image # <<>>
  <2>1. PICK i \in Image : image = <<i>> /\ Position(i)
    BY <1>3 DEF ProgressInv, Types
  <2>2. UnitsOf(i) \in 0 .. MaxUnits
    BY UnitsBounded
  <2>3. cppFileIndex \in Nat /\ next \in Nat \ {0} /\ fixed \in 0 .. 4
    BY DEF ProgressInv, Types
  <2>4. CASE AtStart \/ Keeping \/ Exporting
    BY <1>1, <2>4, ShortTexts DEF AtStart, Keeping, Exporting, Idle, NoUnit, File
  <2>5. CASE SavingFixed(i)
    BY <1>1, <2>3, <2>5, ShortTexts DEF SavingFixed, NoUnit, File
  <2>6. CASE BetweenUnits(i)
    BY <1>1, <2>2, <2>3, <2>6, ShortTexts DEF BetweenUnits
  <2>7. CASE InUnit(i)
    <3>1. next - 1 \in Nat /\ cppFileIndex * PerUnit \in Nat
      BY <2>3, UnitRange
    <3>2. cppFileIndex * PerUnit <= next - 1 /\ next - 1 <= Before(i, cppFileIndex + 1)
      BY <2>7, <3>1 DEF InUnit
    <3>3. Short(out)
      BY <2>3, <2>7, <3>1, <3>2, PrefixLength DEF InUnit
    <3> QED
      BY <1>1, <2>2, <2>3, <2>7, <3>3 DEF InUnit
  <2>8. CASE SavingUnit(i)
    <3> DEFINE k == cppFileIndex - 1
               m == Before(i, cppFileIndex)
    <3>1. k \in 0 .. MaxUnits /\ k \in Nat /\ k + 1 = cppFileIndex /\ cppFileIndex \in 0 .. MaxUnits
          /\ k + 1 <= UnitsOf(i)
      BY <1>1, <2>2, <2>8 DEF SavingUnit
    <3>2. k * PerUnit <= m
      <4>1. k * PerUnit < Count(i) /\ k * PerUnit \in Nat /\ (k + 1) * PerUnit = k * PerUnit + PerUnit
        BY <3>1, UnitRange
      <4>2. Count(i) \in Nat /\ PerUnit \in Nat
        BY Sizes
      <4> HIDE DEF k
      <4>3. m = Count(i) \/ m = (k + 1) * PerUnit
        BY <3>1, <2>3, UnitRange
      <4> QED
        BY <4>1, <4>2, <4>3
    <3>3. m \in Nat /\ m <= Before(i, k + 1)
      <4>1. m \in Nat
        BY <2>3, UnitRange
      <4> QED
        BY <3>1, <4>1
    <3>4. Short(Prefix(i, k, m))
      BY <3>1, <3>2, <3>3, PrefixLength
    <3>5. saving \in File
      BY <2>8, <3>1 DEF SavingUnit, File
    <3> QED
      BY <2>8, <3>1, <3>4, <3>5 DEF SavingUnit
  <2> QED
    BY <2>1, <2>4, <2>5, <2>6, <2>7, <2>8 DEF Position
<1> QED
  BY <1>2, <1>3

SizeInv ==
  /\ DOMAIN disk \subseteq File /\ \A f \in DOMAIN disk : Short(disk[f])
  /\ stage \in {"compare", "truncate", "fill"}
  /\ status \in {"running", "done", "failed", "killed"}
  /\ runs \in 1 .. MaxRuns /\ faults \in 0 .. MaxFaults
  /\ stale \subseteq File

LEMMA SizeStep == ASSUME ProgressInv, KeptInv, SizeInv, [Next]_vars PROVE SizeInv'
<1>1. DOMAIN disk' \subseteq File /\ \A f \in DOMAIN disk' : Short(disk'[f])
  <2>1. CASE UNCHANGED disk
    BY <2>1 DEF SizeInv
  <2>2. CASE ~UNCHANGED disk
    <3>1. saving # NoFile /\ saving \in File
      BY <2>2, DiskStep, HeldTypes
    <3>2. Short(Text)
      <4>1. PICK i \in Image :
              /\ saving \in {PatchedFile, ImageFile} => Text = Binary(i)
              /\ saving \notin {PatchedFile, ImageFile} => Text = out
        BY <3>1, Saving
      <4> QED
        BY <4>1, HeldTypes, ShortTexts
    <3>3. \A text \in {<<>>, Text} \cup Part : Short(text)
      BY <3>2, ShortTexts DEF Part
    <3>4. PICK text \in {<<>>, Text} \cup Part : Write(text)
      BY <2>2, DiskStep DEF Truncate, Fill
    <3> QED
      BY <3>1, <3>3, <3>4, Writes DEF SizeInv
  <2> QED
    BY <2>1, <2>2
<1>2. (stage \in {"compare", "truncate", "fill"})'
  BY DEF SizeInv, Next, Begin, LoadKept, LoadGame, LoadPatched, SkipKeeping, PatchFails, Failed, Export,
         ExportFails, PrintFixed, FlushUnit, PrintFunction, Finish, Compare, Saved, Truncate, Fill,
         FillShort, Kill, Fresh, vars, progress
<1>3. (status \in {"running", "done", "failed", "killed"})'
  BY DEF SizeInv, Next, Begin, LoadKept, LoadGame, LoadPatched, Loaded, SkipKeeping, PatchFails, Failed,
         Export, ExportFails, PrintFixed, FlushUnit, PrintFunction, Finish, Compare, Truncate, Fill,
         FillShort, Kill, Rest, vars
<1>4. (runs \in 1 .. MaxRuns /\ faults \in 0 .. MaxFaults)'
  <2>1. MaxRuns \in Nat /\ MaxFaults \in Nat /\ runs \in 1 .. MaxRuns /\ faults \in 0 .. MaxFaults
    BY OutputAssumption DEF SizeInv
  <2>2. UNCHANGED runs \/ (runs < MaxRuns /\ runs' = runs + 1)
    BY DEF Next, Begin, LoadKept, LoadGame, LoadPatched, Loaded, SkipKeeping, PatchFails, Failed, Export,
           ExportFails, PrintFixed, FlushUnit, PrintFunction, Finish, Compare, Truncate, Fill,
           FillShort, Kill, Rest, vars, bounds
  <2>3. UNCHANGED faults \/ (faults < MaxFaults /\ faults' = faults + 1)
    BY DEF Next, Begin, LoadKept, LoadGame, LoadPatched, Loaded, SkipKeeping, PatchFails, Failed, Export,
           ExportFails, PrintFixed, FlushUnit, PrintFunction, Finish, Compare, Truncate, Fill,
           FillShort, Kill, Rest, vars, bounds
  <2> QED
    BY <2>1, <2>2, <2>3
<1>5. stale' \subseteq File
  <2>1. CASE LoadKept \/ LoadGame \/ LoadPatched
    <3>1. PICK i \in Image : image' = <<i>>
      BY <2>1, LoadImage
    <3>2. stale' \subseteq FilesOf(i)
      <4>1. ASSUME NEW j, Loaded(j) PROVE image' = <<j>> /\ stale' \subseteq FilesOf(j)
        BY <4>1 DEF Loaded
      <4>2. \E j : Loaded(j)
        BY <2>1 DEF LoadKept, LoadGame, LoadPatched
      <4> QED
        BY <3>1, <4>1, <4>2
    <3>3. UnitsOf(i) \in 0 .. MaxUnits /\ MaxUnits \in Nat
      BY UnitsBounded, OutputAssumption
    <3> QED
      BY <3>2, <3>3 DEF FilesOf, File
  <2>2. CASE ~(LoadKept \/ LoadGame \/ LoadPatched)
    <3>1. UNCHANGED stale \/ stale' = {}
      BY <2>2 DEF Next, Begin, SkipKeeping, PatchFails, Failed, Export, ExportFails, PrintFixed, FlushUnit,
                  PrintFunction, Finish, Compare, Truncate, Fill, FillShort, Kill, Rest, ghosts, vars
    <3> QED
      BY <3>1 DEF SizeInv
  <2> QED
    BY <2>1, <2>2
<1> QED
  BY <1>1, <1>2, <1>3, <1>4, <1>5 DEF SizeInv

-----------------------------------------------------------------------------
(* A file that was cut short holds a beginning of what was asked of it.    *)
Piece(text, whole) ==
  text = whole \/ text = <<>> \/ \E n \in 0 .. Len(whole) - 1 : text = SubSeq(whole, 1, n)

PieceInv ==
  /\ image = <<>> => short = {}
  /\ image # <<>> => \A f \in short : f # PatchedFile =>
       \E whole : Asks(image[1], f, whole) /\ Piece(disk[f], whole)

LEMMA PieceStep ==
  ASSUME ProgressInv, KeptInv, WrittenInv, PieceInv, [Next]_vars
  PROVE  PieceInv'
<1>1. CASE Begin
  BY <1>1 DEF Begin, PieceInv
<1>2. CASE image = <<>> /\ ~Begin
  <2>1. short = {} => short' = {}
    <3>1. saving = NoFile /\ stage = "compare"
      BY <1>2 DEF ProgressInv, AtStart
    <3> QED
      BY <1>2, <3>1, Names DEF Next, LoadKept, LoadGame, LoadPatched, Loaded, SkipKeeping, PatchFails, Failed,
             Export, ExportFails, PrintFixed, FlushUnit, PrintFunction, Finish, Compare, Truncate, Fill,
             FillShort, Kill, Printing, Ready, Rest, ghosts, vars
  <2> QED
    BY <1>2, <2>1 DEF PieceInv
<1>3. CASE image # <<>> /\ ~Begin
  <2>1. UNCHANGED <<input, image>>
    BY <1>3 DEF Next, LoadKept, LoadGame, LoadPatched, Loading, SkipKeeping, PatchFails, Failed,
           Export, ExportFails, PrintFixed, FlushUnit, PrintFunction, Finish, Compare, Truncate, Fill,
           FillShort, Kill, Rest, vars
  <2>2. PICK i \in Image : image = <<i>>
    BY <1>3 DEF ProgressInv, Types
  <2>3. \A f, text : Asks(i, f, text)' = Asks(i, f, text)
    BY <2>1 DEF Asks, FixedText, UnitsOf, UnitText, Smaller
  <2>4. ASSUME NEW f \in short', f # PatchedFile
        PROVE  \E whole : Asks(i, f, whole) /\ Piece(disk'[f], whole)
    <3>1. CASE f \in short /\ UNCHANGED disk
      BY <2>2, <2>4, <3>1 DEF PieceInv
    <3>2. CASE ~(f \in short /\ UNCHANGED disk)
      <4>1. PICK text \in {<<>>, Text} \cup Part : Write(text) /\ saving # NoFile
        <5>1. UNCHANGED short \/ FillShort
          BY <1>3 DEF Next, LoadKept, LoadGame, LoadPatched, Loaded, SkipKeeping, PatchFails, Failed,
                 Export, ExportFails, PrintFixed, FlushUnit, PrintFunction, Finish, Compare, Truncate,
                 Fill, Kill, Rest, ghosts, vars
        <5>2. CASE FillShort
          BY <5>2 DEF FillShort, ProgressInv
        <5>3. CASE ~UNCHANGED disk
          BY <5>3, DiskStep DEF Truncate, Fill
        <5> QED
          BY <2>4, <3>2, <5>1, <5>2, <5>3
      <4>2. CASE f = saving
        <5>1. Asks(i, f, Text)
          BY <2>2, <2>4, <4>1, <4>2, SavingAsked
        <5>2. disk'[f] = text
          BY <4>1, <4>2, Writes
        <5> QED
          BY <4>1, <5>1, <5>2 DEF Piece, Part
      <4>3. CASE f # saving
        <5>1. f \in short
          <6>1. short' = short \/ short' = short \cup {saving}
            BY <1>3 DEF Next, LoadKept, LoadGame, LoadPatched, Loaded, SkipKeeping, PatchFails, Failed,
                   Export, ExportFails, PrintFixed, FlushUnit, PrintFunction, Finish, Compare, Truncate,
                   Fill, FillShort, Kill, Rest, ghosts, vars
          <6> QED
            BY <2>4, <4>3, <6>1
        <5>2. disk'[f] = disk[f]
          BY <4>1, <4>3, <5>1, Writes DEF WrittenInv
        <5> QED
          BY <2>2, <2>4, <5>1, <5>2 DEF PieceInv
      <4> QED
        BY <4>2, <4>3
    <3> QED
      BY <3>1, <3>2
  <2> QED
    BY <2>1, <2>2, <2>3, <2>4 DEF PieceInv, Piece
<1> QED
  BY <1>1, <1>2, <1>3

-----------------------------------------------------------------------------
(* The invariant, and what follows from it.                                *)
OutputInv == ProgressInv /\ KeptInv /\ TouchedInv /\ WrittenInv /\ LeftInv /\ SizeInv /\ PieceInv

LEMMA OutputInit == ASSUME Init PROVE OutputInv
<1>1. ProgressInv
  BY ProgressInit
<1>2. /\ DOMAIN disk = {} /\ image = <<>> /\ stage = "compare" /\ touched = {} /\ short = {}
  BY DEF Init
<1>3. SizeInv
  BY OutputAssumption DEF Init, SizeInv
<1> QED
  BY <1>1, <1>2, <1>3 DEF OutputInv, KeptInv, TouchedInv, OnlyStaleTouched, WrittenInv, LeftInv, PieceInv

LEMMA OutputStep == ASSUME OutputInv, [Next]_vars PROVE OutputInv'
BY Progress, KeptStep, TouchedStep, WrittenStep, LeftStep, SizeStep, PieceStep DEF OutputInv

LEMMA AllReached ==
  ASSUME OutputInv, status = "done"
  PROVE  \E i \in Image : image = <<i>> /\ \A f \in FilesOf(i) : Right(i, f)
<1>1. PICK i \in Image : image = <<i>>
  BY DEF OutputInv, ProgressInv, Types, Finished
<1>2. BetweenUnits(i) /\ next = Count(i) + 1 /\ cppFileIndex \in Nat
  BY <1>1 DEF OutputInv, ProgressInv, Types, Finished
<1>3. cppFileIndex = UnitsOf(i)
  <2>1. /\ Before(i, cppFileIndex) <= cppFileIndex * PerUnit /\ Before(i, cppFileIndex) \in Nat
        /\ cppFileIndex * PerUnit < Count(i) <=> cppFileIndex + 1 <= UnitsOf(i)
        /\ UnitsOf(i) \in Nat /\ cppFileIndex * PerUnit \in Nat
    BY <1>2, UnitRange
  <2>2. Count(i) \in Nat
    BY Sizes
  <2>3. Before(i, cppFileIndex) = Count(i) /\ cppFileIndex <= UnitsOf(i)
    BY <1>2, <2>1, <2>2 DEF BetweenUnits
  <2> QED
    BY <1>2, <2>1, <2>2, <2>3
<1>4. FilesOf(i) = Reached
  BY <1>2, <1>3, FixedHasFour DEF FilesOf, Reached, BetweenUnits
<1>5. \A f \in FilesOf(i) : f # saving
  BY <1>2, FixedHasFour, Names DEF FilesOf, BetweenUnits
<1> QED
  BY <1>1, <1>4, <1>5 DEF OutputInv, WrittenInv

LEMMA TypesFollow == OutputInv => TypeOK
<1> SUFFICES ASSUME OutputInv PROVE TypeOK
  OBVIOUS
<1>1. Types /\ Short(out) /\ cppFileIndex \in 0 .. MaxUnits /\ saving \in File \cup {NoFile}
  BY HeldTypes DEF OutputInv, ProgressInv
<1>2. \A text : Short(text) => Len(text) <= PerUnit + 1
  BY DEF Short
<1>3. touched \subseteq File /\ short \subseteq File
  BY DEF OutputInv, TouchedInv, WrittenInv, OnlyStaleTouched, SizeInv, File
<1> QED
  BY <1>1, <1>2, <1>3, FixedHasFour DEF TypeOK, OutputInv, SizeInv, Types

LEMMA OutputFollows == OutputInv => DoneIsUpToDate /\ OnlyStaleTouched /\ OnlyItsUnits /\ OwnImage
<1> SUFFICES ASSUME OutputInv
             PROVE  DoneIsUpToDate /\ OnlyStaleTouched /\ OnlyItsUnits /\ OwnImage
  OBVIOUS
<1>1. DoneIsUpToDate
  BY AllReached DEF DoneIsUpToDate, Right
<1>2. OnlyStaleTouched
  BY DEF OutputInv, TouchedInv
<1>3. OwnImage
  BY DEF OutputInv, KeptInv, OwnImage
<1>4. OnlyItsUnits
  <2> SUFFICES ASSUME status = "done", most <= UnitsOf(image[1])
               PROVE  {f \in DOMAIN disk : f.name = "ppc_recomp"} =
                        {Unit(k) : k \in 0 .. UnitsOf(image[1]) - 1}
    BY DEF OnlyItsUnits
  <2>1. PICK i \in Image : image = <<i>> /\ \A f \in FilesOf(i) : Right(i, f)
    BY AllReached
  <2>2. UnitsOf(i) \in Nat /\ most \in Nat
    BY UnitRange DEF OutputInv, ProgressInv, Types
  <2>3. ASSUME NEW f \in DOMAIN disk, f.name = "ppc_recomp"
        PROVE  \E k \in 0 .. UnitsOf(i) - 1 : f = Unit(k)
    <3>1. PICK k \in Nat : f = Unit(k) /\ (k < most \/ k < UnitsOf(i))
      BY <2>1, <2>3 DEF OutputInv, LeftInv
    <3>2. k \in 0 .. UnitsOf(i) - 1
      BY <2>1, <2>2, <3>1
    <3> QED
      BY <3>1, <3>2
  <2>4. ASSUME NEW k \in 0 .. UnitsOf(i) - 1
        PROVE  Unit(k) \in DOMAIN disk /\ Unit(k).name = "ppc_recomp"
    <3>1. Right(i, Unit(k))
      BY <2>1 DEF FilesOf
    <3> QED
      BY <3>1, Names DEF Right, IsUpToDate, OutputInv, WrittenInv
  <2> QED
    BY <2>1, <2>3, <2>4
<1> QED
  BY <1>1, <1>2, <1>3, <1>4

LEMMA OutputHolds == Spec => []OutputInv
<1>1. Init => OutputInv
  BY OutputInit
<1>2. OutputInv /\ [Next]_vars => OutputInv'
  BY OutputStep
<1> QED
  BY <1>1, <1>2, PTL DEF Spec

-----------------------------------------------------------------------------
(* What SaveCurrentOutData is given is one unit at most, of the image's.   *)
THEOREM OutputTypeOK == Spec => []TypeOK
BY OutputHolds, TypesFollow, PTL

(* What a run leaves is what its image and configuration ask for, whatever *)
(* earlier runs left: LoadConfig, Recompile and SaveCurrentOutData.        *)
THEOREM FilesUpToDate == Spec => []DoneIsUpToDate
BY OutputHolds, OutputFollows, PTL

(* SaveCurrentOutData opens no source file that was up to date.            *)
THEOREM NothingRewritten == Spec => []OnlyStaleTouched
BY OutputHolds, OutputFollows, PTL

(* The units that the build finds are the run's own: the loop over the     *)
(* functions and cppFileIndex.                                             *)
THEOREM UnitsAreTheRuns == Spec => []OnlyItsUnits
BY OutputHolds, OutputFollows, PTL

(* The file at patched_file_path serves its own game and patch.            *)
THEOREM KeptFileIsOwn == Spec => []OwnImage
BY OutputHolds, OutputFollows, PTL

-----------------------------------------------------------------------------
(* The native program.                                                     *)

LEMMA NativeStep ==
  ASSUME [NativeNext]_nativeVars
  PROVE  [Next]_vars
BY DEF NativeNext, nativeVars, Tool, Build, Boot, NoMemory

(* The build and the native program leave the tool's directories alone.    *)
THEOREM NativeImplements == NativeSpec => Spec
<1>1. NativeInit => Init
  BY DEF NativeInit
<1>2. [NativeNext]_nativeVars => [Next]_vars
  BY NativeStep
<1> QED
  BY <1>1, <1>2, PTL DEF NativeSpec, Spec

(* A torn text agrees with the whole one, as far as it goes.               *)
LEMMA Beginning ==
  ASSUME NEW S, NEW whole \in Seq(S), whole # <<>>, NEW text, Piece(text, whole), text # <<>>
  PROVE  /\ text \in Seq(S) /\ Len(text) \in 1 .. Len(whole)
         /\ \A n \in 1 .. Len(text) : text[n] = whole[n]
<1>1. Len(whole) \in Nat /\ Len(whole) > 0
  OBVIOUS
<1>2. CASE text = whole
  BY <1>1, <1>2
<1>3. ASSUME NEW m \in 0 .. Len(whole) - 1, text = SubSeq(whole, 1, m)
      PROVE  /\ text \in Seq(S) /\ Len(text) \in 1 .. Len(whole)
             /\ \A n \in 1 .. Len(text) : text[n] = whole[n]
  <2>1. text \in Seq(S) /\ Len(text) = m /\ \A n \in 1 .. m : text[n] = whole[n]
    BY <1>1, <1>3
  <2>2. m # 0
    BY <2>1
  <2> QED
    BY <1>1, <2>1, <2>2
<1> QED
  BY <1>2, <1>3 DEF Piece

(* What a run that is done leaves of a file that the image asks for.       *)
LEMMA DonePiece ==
  ASSUME OutputInv, status = "done", NEW i, image = <<i>>, NEW f \in FilesOf(i), NEW whole,
         Asks(i, f, whole)
  PROVE  f \in DOMAIN disk /\ Piece(disk[f], whole) /\ (f = ImageFile => disk[f] = whole)
<1>1. Right(i, f)
  BY AllReached
<1>2. CASE IsUpToDate(i, f)
  <2>1. f \in DOMAIN disk /\ Asks(i, f, disk[f])
    BY <1>2, UpToDateAsks
  <2> QED
    BY <2>1, AsksOne DEF Piece
<1>3. CASE f \in short /\ f # ImageFile
  <2>1. f # PatchedFile
    BY FixedHasFour, Names DEF FilesOf
  <2>2. PICK t : Asks(i, f, t) /\ Piece(disk[f], t)
    BY <1>3, <2>1 DEF OutputInv, PieceInv
  <2>3. t = whole
    BY <2>2, AsksOne
  <2> QED
    BY <1>3, <2>2, <2>3 DEF OutputInv, WrittenInv
<1> QED
  BY <1>1, <1>2, <1>3 DEF Right

LEMMA DoneFixed ==
  ASSUME OutputInv, status = "done", NEW i, image = <<i>>, NEW n \in 1 .. 4, IsThere(FixedFile(n))
  PROVE  disk[FixedFile(n)][1] = FixedText(i, n)
<1> DEFINE x == FixedText(i, n)
<1>1. Asks(i, FixedFile(n), <<x>>) /\ FixedFile(n) \in FilesOf(i)
  BY FixedHasFour DEF Asks, FilesOf
<1>2. Piece(disk[FixedFile(n)], <<x>>) /\ disk[FixedFile(n)] # <<>>
  BY <1>1, DonePiece DEF IsThere
<1> HIDE DEF x
<1>3. <<x>> \in Seq({x}) /\ <<x>> # <<>> /\ <<x>>[1] = x /\ Len(<<x>>) = 1
  OBVIOUS
<1> DEFINE d == disk[FixedFile(n)]
           w == <<x>>
<1> HIDE DEF d, w
<1>4. Piece(d, w) /\ d # <<>> /\ w \in Seq({x}) /\ w # <<>> /\ Len(w) = 1 /\ w[1] = x
  BY <1>2, <1>3 DEF d, w
<1>5. Len(d) \in 1 .. Len(w) /\ \A m \in 1 .. Len(d) : d[m] = w[m]
  BY <1>4, Beginning
<1>6. d[1] = x
  BY <1>4, <1>5
<1> QED
  BY <1>6 DEF d, x

LEMMA Divided ==
  ASSUME NEW P \in Nat, P > 0, NEW c \in Nat
  PROVE  \E k \in Nat, r \in Nat : r < P /\ c = k * P + r
<1>1. c \div P \in Nat /\ c % P \in Nat /\ c % P < P /\ c = ((c \div P) * P) + (c % P)
  BY SMT
<1> QED
  BY <1>1

(* The functions of an image have names of their own.                      *)
LEMMA FunctionNames ==
  ASSUME NEW i \in Image
  PROVE  /\ DOMAIN Functions[i] = 1 .. Count(i)
         /\ \A n \in 1 .. Count(i) :
              /\ Functions[i][n] = [at |-> Functions[i][n].at, name |-> Functions[i][n].name,
                                    body |-> Functions[i][n].body]
              /\ \A q \in 1 .. Count(i) : Functions[i][q].name = Functions[i][n].name => q = n
<1>1. Functions[i] = [n \in 1 .. Count(i) |-> Functions[i][n]]
  BY OutputAssumption, Zenon DEF Count
<1> QED
  BY <1>1, OutputAssumption DEF Count

LEMMA OwnUnit ==
  ASSUME OutputInv, status = "done", NEW i \in Image, image = <<i>>, NEW k \in 0 .. UnitsOf(i) - 1
  PROVE  /\ Unit(k) \in Units
         /\ \A n \in 2 .. Len(disk[Unit(k)]) :
              /\ k * PerUnit + n - 1 \in 1 .. Count(i)
              /\ DefinedAt(<<Unit(k), n>>) = Functions[i][k * PerUnit + n - 1]
         /\ Unit(k) \notin short =>
              disk[Unit(k)] \in Seq({disk[Unit(k)][n] : n \in DOMAIN disk[Unit(k)]})
              /\ Len(disk[Unit(k)]) = Before(i, k + 1) - k * PerUnit + 1
<1> DEFINE b == k * PerUnit
           m == Before(i, k + 1)
           t == TextFrom(i, b, m)
<1>1. /\ k \in Nat /\ UnitsOf(i) \in Nat /\ b \in Nat /\ m \in Nat /\ b <= m /\ m <= Count(i)
      /\ Count(i) \in Nat
  <2>1. k \in Nat /\ k + 1 \in Nat /\ k + 1 <= UnitsOf(i) /\ UnitsOf(i) \in Nat
    BY UnitRange
  <2>2. b \in Nat /\ b < Count(i) /\ (k + 1) * PerUnit = b + PerUnit
    BY <2>1, UnitRange
  <2>3. m \in Nat /\ m <= Count(i) /\ (m = Count(i) \/ m = (k + 1) * PerUnit)
    BY <2>1, UnitRange
  <2>4. Count(i) \in Nat /\ PerUnit \in Nat
    BY Sizes
  <2> HIDE DEF b, m
  <2> QED
    BY <2>1, <2>2, <2>3, <2>4
<1>2. Asks(i, Unit(k), t) /\ Unit(k) \in FilesOf(i)
  BY WholeUnit DEF Asks, FilesOf, Prefix
<1>3. Unit(k) \in DOMAIN disk /\ Piece(disk[Unit(k)], t)
  BY <1>2, DonePiece
<1>4. Unit(k) \notin short => disk[Unit(k)] = t
  <2> SUFFICES ASSUME Unit(k) \notin short PROVE disk[Unit(k)] = t
    OBVIOUS
  <2>1. IsUpToDate(i, Unit(k))
    BY <1>2, AllReached DEF Right
  <2> QED
    BY <1>2, <2>1, UpToDateAsks, AsksOne
<1>5. Unit(k) \in Units
  BY <1>3 DEF Units, Unit
<1> HIDE DEF b, m
<1>6. t \in [1 .. m - b + 1 -> {t[n] : n \in 1 .. m - b + 1}] /\ m - b + 1 \in Nat
  BY <1>1 DEF TextFrom
<1>7. /\ t \in Seq({t[n] : n \in 1 .. m - b + 1}) /\ Len(t) = m - b + 1 /\ t # <<>>
      /\ DOMAIN t = 1 .. m - b + 1
  <2> HIDE DEF t
  <2>1. t \in Seq({t[n] : n \in 1 .. m - b + 1}) /\ Len(t) = m - b + 1
    BY <1>6
  <2>2. Len(t) # 0
    BY <1>1, <2>1
  <2> QED
    BY <1>6, <2>1, <2>2
<1>8. \A n \in 2 .. Len(t) : t[n] = Code(Functions[i][b + n - 1])
  BY <1>1, <1>7 DEF TextFrom
<1> HIDE DEF t
<1>9. ASSUME NEW n \in 2 .. Len(disk[Unit(k)])
      PROVE  b + n - 1 \in 1 .. Count(i) /\ DefinedAt(<<Unit(k), n>>) = Functions[i][b + n - 1]
  <2>1. disk[Unit(k)] # <<>>
    BY <1>9
  <2>2. Len(disk[Unit(k)]) \in 1 .. Len(t) /\ \A l \in 1 .. Len(disk[Unit(k)]) : disk[Unit(k)][l] = t[l]
    BY <1>3, <1>7, <2>1, Beginning
  <2>3. n \in 2 .. Len(t) /\ disk[Unit(k)][n] = t[n]
    BY <1>7, <2>2
  <2>4. b + n - 1 \in 1 .. Count(i)
    BY <1>1, <1>7, <2>3
  <2>5. DefinedAt(<<Unit(k), n>>) = disk[Unit(k)][n].of[1]
    BY DEF DefinedAt
  <2>6. disk[Unit(k)][n] = Code(Functions[i][b + n - 1])
    BY <1>8, <2>3
  <2> QED
    BY <2>4, <2>5, <2>6 DEF Code
<1>10. ASSUME Unit(k) \notin short
       PROVE  disk[Unit(k)] \in Seq({disk[Unit(k)][n] : n \in DOMAIN disk[Unit(k)]})
              /\ Len(disk[Unit(k)]) = m - b + 1
  BY <1>4, <1>7, <1>10
<1> QED
  BY <1>5, <1>9, <1>10 DEF b, m

(* A unit that was written to the end defines every function of its own.   *)
LEMMA WholePlace ==
  ASSUME OutputInv, status = "done", NEW i \in Image, image = <<i>>, NEW p \in 1 .. Count(i),
         \A f \in short : f.name # "ppc_recomp"
  PROVE  \E place \in Places : DefinedAt(place) = Functions[i][p]
<1>1. /\ Count(i) \in Nat /\ PerUnit \in Nat /\ PerUnit > 0 /\ p \in Nat /\ p - 1 \in Nat
      /\ p <= Count(i) /\ UnitsOf(i) \in Nat
  BY Sizes, UnitRange
<1>2. PICK k \in Nat, r \in Nat : r < PerUnit /\ p - 1 = k * PerUnit + r
  BY <1>1, Divided
<1>3. k * PerUnit \in Nat /\ (k + 1) * PerUnit = k * PerUnit + PerUnit
  BY UnitRange
<1>4. k \in 0 .. UnitsOf(i) - 1
  <2>1. k * PerUnit < Count(i)
    BY <1>1, <1>2, <1>3
  <2>2. k + 1 <= UnitsOf(i)
    BY <2>1, UnitRange
  <2> QED
    BY <1>1, <2>2
<1>5. Unit(k) \notin short
  BY DEF Unit
<1>6. Unit(k) \in Units /\ Len(disk[Unit(k)]) = Before(i, k + 1) - k * PerUnit + 1
  BY <1>4, <1>5, OwnUnit
<1>7. Before(i, k + 1) \in Nat /\ p <= Before(i, k + 1)
  <2>1. k + 1 \in Nat
    OBVIOUS
  <2>2. Before(i, k + 1) \in Nat /\ (Before(i, k + 1) = Count(i) \/ Before(i, k + 1) = (k + 1) * PerUnit)
    BY <2>1, UnitRange
  <2> QED
    BY <1>1, <1>2, <1>3, <2>2
<1>8. r + 2 \in 2 .. Len(disk[Unit(k)]) /\ k * PerUnit + (r + 2) - 1 = p /\ r + 2 \in 2 .. PerUnit + 1
  BY <1>1, <1>2, <1>3, <1>6, <1>7
<1>9. DefinedAt(<<Unit(k), r + 2>>) = Functions[i][p]
  BY <1>4, <1>8, OwnUnit
<1>10. <<Unit(k), r + 2>> \in Places
  <2>1. r + 2 <= Len(disk[Unit(k)])
    BY <1>6, <1>7, <1>8, <1>3
  <2> QED
    BY <1>6, <1>8, <2>1 DEF Places
<1> QED
  BY <1>9, <1>10

(* In the run's own units the image's own functions are defined.           *)
LEMMA OwnPlace ==
  ASSUME OutputInv, status = "done", NEW i \in Image, image = <<i>>, NEW place \in Places,
         most <= UnitsOf(i)
  PROVE  \E p \in 1 .. Count(i) : DefinedAt(place) = Functions[i][p]
<1>1. PICK file \in Units, n \in 2 .. PerUnit + 1 : place = <<file, n>> /\ n <= Len(disk[file])
  BY DEF Places
<1>2. file \in {Unit(k) : k \in 0 .. UnitsOf(i) - 1}
  BY <1>1, OutputFollows DEF OnlyItsUnits, Units
<1>3. PICK k \in 0 .. UnitsOf(i) - 1 : file = Unit(k)
  BY <1>2
<1>4. n \in 2 .. Len(disk[Unit(k)])
  <2>1. Short(disk[file])
    BY <1>1 DEF Units, OutputInv, SizeInv
  <2>2. Len(disk[file]) \in Nat
    <3>1. PICK S : disk[file] \in Seq(S)
      BY <2>1 DEF Short
    <3> QED
      BY <3>1
  <2>3. n \in Nat /\ n >= 2
    BY <1>1, Sizes
  <2> QED
    BY <1>1, <1>3, <2>2, <2>3
<1> QED
  BY <1>1, <1>3, <1>4, OwnUnit

(* A name of the image is defined as the image's function of that name:    *)
(* it was written, or nothing else could define it.                        *)
LEMMA OwnDefinition ==
  ASSUME OutputInv, status = "done", NEW i \in Image, image = <<i>>, Links, NothingBorrowed,
         NEW p \in 1 .. Count(i), NEW place \in Places,
         DefinedAt(place).name = Functions[i][p].name
  PROVE  DefinedAt(place) = Functions[i][p]
<1>1. CASE most <= UnitsOf(i)
  <2>1. PICK q \in 1 .. Count(i) : DefinedAt(place) = Functions[i][q]
    BY <1>1, OwnPlace
  <2>2. q = p
    BY <2>1, FunctionNames
  <2> QED
    BY <2>1, <2>2
<1>2. CASE \A f \in short : f.name # "ppc_recomp"
  <2>1. PICK own \in Places : DefinedAt(own) = Functions[i][p]
    BY <1>2, WholePlace
  <2>2. own = place
    BY <2>1 DEF Links
  <2> QED
    BY <2>1, <2>2
<1> QED
  BY <1>1, <1>2 DEF NothingBorrowed

CodeOf(i) == {Functions[i][n] : n \in DOMAIN Functions[i]}

LEMMA Linked ==
  ASSUME OutputInv, status = "done", NEW i \in Image, image = <<i>>, Links
  PROVE  Compiled.layout = Layout[i] /\ (NothingBorrowed => Compiled.code = CodeOf(i))
<1>1. \A n \in 1 .. 4 : IsThere(FixedFile(n))
  BY FixedHasFour DEF Links
<1>2. disk[FixedFile(1)][1] = FixedText(i, 1) /\ disk[FixedFile(4)][1] = FixedText(i, 4)
  BY <1>1, DoneFixed
<1>3. Compiled.layout = Layout[i]
  BY <1>2 DEF Compiled, FixedText
<1>4. MappingRows = Mapping(i)
  BY <1>2 DEF MappingRows, FixedText
<1>5. /\ DOMAIN Functions[i] = 1 .. Count(i) /\ DOMAIN MappingRows = 1 .. Count(i)
      /\ \A n \in 1 .. Count(i) :
           MappingRows[n].at = Functions[i][n].at /\ MappingRows[n].name = Functions[i][n].name
  BY <1>4, FunctionNames DEF Mapping
<1>6. ASSUME NothingBorrowed PROVE LinkedCode = CodeOf(i)
  <2>1. ASSUME NEW n \in 1 .. Count(i), NEW place \in Places, DefinedAt(place).name = MappingRows[n].name
        PROVE  [at |-> MappingRows[n].at, name |-> DefinedAt(place).name, body |-> DefinedAt(place).body]
                 = Functions[i][n]
    <3>1. DefinedAt(place) = Functions[i][n]
      BY <1>5, <1>6, <2>1, OwnDefinition
    <3> QED
      BY <1>5, <3>1, FunctionNames
  <2>2. LinkedCode \subseteq CodeOf(i)
    BY <1>5, <2>1 DEF LinkedCode, CodeOf
  <2>3. ASSUME NEW n \in 1 .. Count(i) PROVE Functions[i][n] \in LinkedCode
    <3>1. PICK place \in Places : DefinedAt(place).name = MappingRows[n].name
      BY <1>5 DEF Links
    <3>2. [at |-> MappingRows[n].at, name |-> DefinedAt(place).name, body |-> DefinedAt(place).body]
            = Functions[i][n]
      BY <2>1, <3>1
    <3> DEFINE x == <<n, place>>
    <3>3. x \in (DOMAIN MappingRows) \X Places /\ x[1] = n /\ x[2] = place
      BY <1>5, <3>1
    <3> HIDE DEF x
    <3> QED
      BY <3>1, <3>2, <3>3 DEF LinkedCode
  <2> QED
    BY <1>5, <2>2, <2>3 DEF CodeOf
<1> QED
  BY <1>3, <1>6 DEF Compiled

(* The program built after the run that is done is the image's.            *)
ProgramInv ==
  current =>
    /\ status = "done" /\ program # <<>>
    /\ program[1].layout = Layout[image[1]]
    /\ NothingBorrowed => program[1].code = CodeOf(image[1])

(* A run that is done does nothing more.                                   *)
LEMMA DoneStays ==
  ASSUME OutputInv, status = "done", Next, runs' = runs
  PROVE  FALSE
<1>1. saving = NoFile /\ stage = "compare" /\ runs \in Nat
  BY OutputAssumption DEF OutputInv, ProgressInv, Finished, BetweenUnits, SizeInv
<1>2. ~Begin
  BY <1>1 DEF Begin
<1> QED
  BY <1>1, <1>2, Names DEF Next, LoadKept, LoadGame, LoadPatched, Loading, SkipKeeping, PatchFails, Export,
     ExportFails, PrintFixed, FlushUnit, PrintFunction, Finish, Compare, Truncate, Fill, FillShort, Kill,
     Printing, Ready

LEMMA ProgramStep ==
  ASSUME OutputInv, ProgramInv, [NativeNext]_nativeVars
  PROVE  ProgramInv'
<1>1. CASE Tool
  BY <1>1, DoneStays DEF Tool, ProgramInv
<1>2. CASE Build
  <2>1. CASE status = "done"
    <3>1. PICK i \in Image : image = <<i>>
      BY <2>1, AllReached
    <3>2. Compiled.layout = Layout[i] /\ (NothingBorrowed => Compiled.code = CodeOf(i))
      BY <1>2, <2>1, <3>1, Linked DEF Build
    <3>3. program' = <<Compiled>> /\ UNCHANGED <<image, status, most, short>>
      BY <1>2 DEF Build, vars, ghosts
    <3>4. (NothingBorrowed' <=> NothingBorrowed) /\ CodeOf(image[1])' = CodeOf(i) /\ image'[1] = i
      BY <3>1, <3>3 DEF NothingBorrowed, UnitsOf, CodeOf
    <3> QED
      BY <2>1, <3>1, <3>2, <3>3, <3>4 DEF ProgramInv
  <2>2. CASE status # "done"
    BY <1>2, <2>2 DEF Build, ProgramInv
  <2> QED
    BY <2>1, <2>2
<1>3. CASE Boot \/ NoMemory \/ UNCHANGED nativeVars
  <2>1. UNCHANGED <<current, program, status, image, most, short>>
    BY <1>3 DEF Boot, NoMemory, nativeVars, bootVars, vars, ghosts
  <2> QED
    BY <2>1 DEF ProgramInv, NothingBorrowed, UnitsOf, CodeOf
<1> QED
  BY <1>1, <1>2, <1>3 DEF NativeNext

LEMMA ProgramFollows == OutputInv /\ ProgramInv => OneGame
<1> SUFFICES ASSUME OutputInv, ProgramInv, current, NothingBorrowed
             PROVE  /\ program[1].code = CodeOf(ImageOnDisk)
                    /\ program[1].layout = Layout[ImageOnDisk]
  BY DEF OneGame, CodeOf
<1>1. status = "done"
  BY DEF ProgramInv
<1>2. PICK i \in Image : image = <<i>>
  BY <1>1, AllReached
<1>3. disk[ImageFile] = Binary(i)
  <2>1. Asks(i, ImageFile, Binary(i)) /\ ImageFile \in FilesOf(i)
    BY DEF Asks, FilesOf
  <2> QED
    BY <1>1, <1>2, <2>1, DonePiece
<1>4. ImageOnDisk = i
  BY <1>3 DEF ImageOnDisk, Binary, Half
<1> QED
  BY <1>2, <1>4 DEF ProgramInv

(* CMakeLists.txt and main: what links after a run that was done, and      *)
(* comes to the entry point, is the code of the image that it has read,    *)
(* unless that run cut a unit short and an earlier image had more units.   *)
THEOREM ProgramIsOfOneGame == NativeSpec => []OneGame
<1>1. NativeInit => ProgramInv
  BY DEF NativeInit, ProgramInv
<1>2. OutputInv /\ ProgramInv /\ [NativeNext]_nativeVars => ProgramInv'
  BY ProgramStep
<1>3. NativeSpec => []OutputInv
  BY NativeImplements, OutputHolds, PTL
<1> QED
  BY <1>1, <1>2, <1>3, ProgramFollows, PTL DEF NativeSpec
===============================================================================
