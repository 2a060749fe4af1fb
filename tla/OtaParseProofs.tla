-------------------------- MODULE OtaParseProofs ---------------------------
(***************************************************************************)
(* For every package, field size and partition, the parser's verdict is the *)
(* reference's and its pieces follow the layout, however the input is cut.  *)
(***************************************************************************)
EXTENDS OtaParse, TLAPS

-----------------------------------------------------------------------------
(* A word is its own remainder: nothing wraps while positions stay inside   *)
(* the package.                                                             *)
LEMMA ModSmall ==
  ASSUME NEW a \in Uint
  PROVE  a % Word = a
  BY ParseAssumption DEF Uint

(* Sums and differences inside a word (the parser's uint32_t arithmetic).   *)
LEMMA AddSmall ==
  ASSUME NEW a \in Nat, NEW b \in Nat, a + b < Word
  PROVE  Add(a, b) = a + b
  BY ModSmall, ParseAssumption DEF Add, Uint

LEMMA SubSmall ==
  ASSUME NEW a \in Nat, NEW b \in Nat, b <= a, a < Word
  PROVE  Sub(a, b) = a - b
  BY ModSmall, ParseAssumption DEF Sub, Uint

(* One more row of the table, and no more rows than the table has.          *)
LEMMA Rows ==
  ASSUME NEW k \in Nat, NEW n \in Nat, k < n
  PROVE  /\ AttrSize * (k + 1) = AttrSize * k + AttrSize
         /\ AttrSize * (k + 1) <= AttrSize * n
         /\ AttrSize * k \in Nat
  BY ParseAssumption

(* What is known of any package that is put in.                             *)
LEMMA PackageFacts ==
  ASSUME NEW p \in Packages
  PROVE  /\ p \in Package
         /\ p.size \in Nat /\ p.size < Word
         /\ p.cipher \in BOOLEAN /\ p.head \in BOOLEAN
         /\ p.tag \in BOOLEAN /\ p.crc \in BOOLEAN
         /\ Len(p.files) \in Nat
         /\ p.files # << >> <=> Len(p.files) > 0
         /\ \A i \in 1 .. Len(p.files) : p.files[i] \in File
         /\ Iv(p) \in Nat /\ Tag(p) \in Nat /\ Overhead(p) \in Nat
         /\ Overhead(p) = Iv(p) + Tag(p)
         /\ TableEnd(p) \in Nat /\ TableEnd(p) < Word /\ TableEnd(p) >= HeadSize
<1>1. p \in Package /\ TableEnd(p) < Word
  BY ParseAssumption
<1>2. p.files \in Seq(File) /\ p.size \in Uint
  BY <1>1 DEF Package
<1>3. Len(p.files) \in Nat /\ AttrSize * Len(p.files) \in Nat
  BY <1>2, ParseAssumption
<1>4. TableEnd(p) \in Nat /\ TableEnd(p) >= HeadSize
  BY <1>3, ParseAssumption DEF TableEnd
<1>5. Iv(p) \in Nat /\ Tag(p) \in Nat
  BY ParseAssumption DEF Iv, Tag
<1>6. \A i \in 1 .. Len(p.files) : p.files[i] \in File
  BY <1>2
<1>7. p.files # << >> <=> Len(p.files) > 0
  BY <1>2
<1>8. Overhead(p) = Iv(p) + Tag(p) /\ Overhead(p) \in Nat
  BY <1>5 DEF Overhead
<1>9. /\ p.size \in Nat /\ p.size < Word
      /\ p.cipher \in BOOLEAN /\ p.head \in BOOLEAN
      /\ p.tag \in BOOLEAN /\ p.crc \in BOOLEAN
  BY <1>1, ParseAssumption DEF Package, Uint
<1> QED
  BY <1>1, <1>3, <1>4, <1>5, <1>6, <1>7, <1>8, <1>9

LEMMA FileFacts ==
  ASSUME NEW f \in File
  PROVE  /\ f.good \in BOOLEAN /\ f.target \in BOOLEAN
         /\ f.offset \in Nat /\ f.offset < Word
         /\ f.size \in Nat /\ f.size < Word
  BY ParseAssumption DEF File, Uint

(* There is at most one target.                                             *)
LEMMA TargetUnique ==
  ASSUME NEW p, NEW t, IsTarget(p, t)
  PROVE  TargetOf(p) = t
<1>1. t \in 1 .. Len(p.files)
  BY DEF IsTarget
<1>2. IsTarget(p, TargetOf(p))
  BY <1>1 DEF TargetOf
<1> QED
  BY <1>2 DEF IsTarget

(* The target of a good table, and what its range is worth.                 *)
LEMMA TargetFacts ==
  ASSUME NEW p \in Packages, TableGood(p)
  PROVE  /\ IsTarget(p, TargetOf(p)) /\ Fits(p, TargetOf(p))
         /\ RangeOf(p, TargetOf(p)).offset \in Nat
         /\ RangeOf(p, TargetOf(p)).size \in Nat
         /\ RangeOf(p, TargetOf(p)).size > Overhead(p)
         /\ RangeOf(p, TargetOf(p)).offset >= TableEnd(p)
         /\ RangeOf(p, TargetOf(p)).offset + RangeOf(p, TargetOf(p)).size <= p.size
         /\ PlainStart(p) = RangeOf(p, TargetOf(p)).offset + Iv(p)
         /\ PlainSize(p) = RangeOf(p, TargetOf(p)).size - Overhead(p)
<1>1. PICK t \in 1 .. Len(p.files) : IsTarget(p, t) /\ Fits(p, t)
  BY DEF TableGood
<1>2. TargetOf(p) = t
  BY <1>1, TargetUnique
<1>3. RangeGood(p, t) /\ p.files[t] \in File
  BY PackageFacts DEF TableGood
<1>4. /\ p.files[t].offset \in Nat /\ p.files[t].size \in Nat
      /\ RangeOf(p, t) = [offset |-> p.files[t].offset, size |-> p.files[t].size]
  BY <1>3, FileFacts DEF RangeOf
<1> QED
  BY <1>1, <1>2, <1>3, <1>4 DEF RangeGood, PlainStart, PlainSize

(* Where a step of the parser leaves the input.                             *)
LEMMA Consumed ==
  ASSUME ParseInv, package \in Packages, NEW n \in Nat, n <= input, Consume(n)
  PROVE  /\ offset' = offset + n /\ input' = input - n
         /\ offset' \in Uint /\ input' \in Nat
         /\ offset' + input' <= package.size
<1>1. /\ offset \in Nat /\ input \in Nat /\ offset + input <= package.size
      /\ package.size \in Nat /\ package.size < Word
  BY PackageFacts, ParseAssumption DEF ParseInv, TypeOK, Uint
<1>2. offset + n < Word
  BY <1>1, ParseAssumption
<1> QED
  BY <1>1, <1>2, AddSmall, ParseAssumption DEF Consume, Uint

LEMMA InitInv == Init => ParseInv
<1> SUFFICES ASSUME Init PROVE ParseInv
  OBVIOUS
<1>1. TypeOK
  BY ParseAssumption DEF Init, TypeOK, Stages, HeaderStages, Errors, Verdicts, NoFile,
                         NoPayload, Uint
<1>2. error = "NONE" => InTable
  BY ParseAssumption DEF Init, InTable
<1>3. VerdictIsReference
  BY DEF Init, VerdictIsReference
<1> QED
  BY <1>1, <1>2, <1>3, ParseAssumption DEF Init, ParseInv, NoPackage

-----------------------------------------------------------------------------
(* One call of snfOtaParseData.  What all of its steps have in common:      *)
CallBegins ==
  /\ ParseInv
  /\ package \in Packages
  /\ error = "NONE"
  /\ input > 0
  /\ UNCHANGED <<package, verdict>>

(* ... and what remains to be shown of each of them.                        *)
CallKeeps ==
  /\ stage' \in Stages
  /\ buffered' \in Nat /\ fileIndex' \in Nat
  /\ previousEnd' \in Uint /\ file' \in [offset : Uint, size : Uint]
  /\ summed' \in Nat
  /\ error' \in Errors
  /\ payload' \in [offset : Uint, size : Uint]
  /\ error' = "INVALID" => ~Valid(package)
  /\ error' = "NONE" =>
       /\ stage' \in {"METADATA", "FILE", "FILE_GAP", "GCM_IV"} => summed' = 0
       /\ InTable'
       /\ stage' \notin {"METADATA", "FILE"} =>
            /\ TableGood(package)
            /\ file' = RangeOf(package, TargetOf(package))
            /\ InFile'

LEMMA CallFacts ==
  ASSUME CallBegins
  PROVE  /\ offset \in Nat /\ input \in Nat /\ buffered \in Nat /\ fileIndex \in Nat
         /\ summed \in Nat
         /\ offset + input <= package.size
         /\ package.size > HeadSize + AttrSize
         /\ package.size \in Nat /\ package.size < Word
         /\ file \in [offset : Uint, size : Uint] /\ previousEnd \in Uint
         /\ package \in Package
<1>1. TypeOK /\ offset + input <= package.size
  BY DEF CallBegins, ParseInv
<1>2. package.size \in Nat /\ package.size < Word /\ package \in Package
  BY PackageFacts DEF CallBegins
<1>3. offset \in Nat /\ input \in Nat
  BY <1>1 DEF TypeOK, Uint
<1>4. package # NoPackage
  BY <1>1, <1>2, <1>3 DEF CallBegins, NoPackage
<1> QED
  BY <1>1, <1>2, <1>3, <1>4 DEF CallBegins, ParseInv, TypeOK

LEMMA CallInv ==
  ASSUME CallBegins, CallKeeps,
         NEW n \in Nat, n <= input, Consume(n)
  PROVE  ParseInv'
<1>1. /\ offset' \in Uint /\ input' \in Nat
      /\ offset' + input' <= package.size
  BY Consumed DEF CallBegins
<1>2. package' = package /\ verdict' = verdict
  BY DEF CallBegins
<1>3. TypeOK'
  BY <1>1, <1>2 DEF CallBegins, CallKeeps, ParseInv, TypeOK
<1>4. VerdictIsReference'
  BY <1>2 DEF CallBegins, CallKeeps, ParseInv, VerdictIsReference
<1>5. (package # NoPackage => package.size > HeadSize + AttrSize)'
  BY <1>2 DEF CallBegins, ParseInv
<1> QED
  BY <1>1, <1>2, <1>3, <1>4, <1>5 DEF CallKeeps, ParseInv

LEMMA NothingOut ==
  /\ NoPayload \in [offset : Uint, size : Uint]
  /\ NoFile \in [offset : Uint, size : Uint]
  /\ NoFile.size = 0
BY ParseAssumption DEF NoPayload, NoFile, Uint

LEMMA InFileTable ==
  ASSUME CallBegins, stage \notin {"METADATA", "FILE"}
  PROVE  /\ TableGood(package)
         /\ file = RangeOf(package, TargetOf(package))
         /\ InFile
         /\ file.offset \in Nat /\ file.size \in Nat
         /\ file.size > Overhead(package)
         /\ file.offset >= TableEnd(package)
         /\ file.offset + file.size <= package.size
         /\ DataStart \in Nat /\ DataEnd \in Nat
         /\ DataStart < DataEnd
         /\ DataEnd + Tag(package) = file.offset + file.size
<1>1. /\ TableGood(package)
      /\ file = RangeOf(package, TargetOf(package))
      /\ InFile
  BY DEF CallBegins, ParseInv
<1>2. /\ file.offset \in Nat /\ file.size \in Nat
      /\ file.size > Overhead(package)
      /\ file.offset >= TableEnd(package)
      /\ file.offset + file.size <= package.size
  BY <1>1, TargetFacts DEF CallBegins
<1>3. /\ Iv(package) \in Nat /\ Tag(package) \in Nat
      /\ Overhead(package) = Iv(package) + Tag(package)
  BY PackageFacts DEF CallBegins
<1> QED
  BY <1>1, <1>2, <1>3 DEF DataStart, DataEnd

-----------------------------------------------------------------------------
(* A header that is not complete yet.                                       *)
LEMMA HeaderTake ==
  ASSUME CallBegins, stage \in HeaderStages
  PROVE  /\ HeaderSize[stage] \in Nat /\ buffered < HeaderSize[stage]
         /\ Least(HeaderSize[stage] - buffered, input) \in Nat
         /\ Least(HeaderSize[stage] - buffered, input) > 0
         /\ Least(HeaderSize[stage] - buffered, input) <= input
         /\ buffered + Least(HeaderSize[stage] - buffered, input) <= HeaderSize[stage]
<1>1. HeaderSize[stage] \in Nat /\ buffered < HeaderSize[stage]
  <2>1. CASE stage = "METADATA"
    BY <2>1, ParseAssumption DEF CallBegins, ParseInv, InTable, HeaderSize
  <2>2. CASE stage = "FILE"
    BY <2>2, ParseAssumption DEF CallBegins, ParseInv, InTable, HeaderSize
  <2>3. CASE stage = "GCM_IV"
    BY <2>3, InFileTable, ParseAssumption DEF InFile, HeaderSize
  <2>4. CASE stage = "GCM_TAG"
    BY <2>4, InFileTable, ParseAssumption DEF InFile, HeaderSize
  <2> QED
    BY <2>1, <2>2, <2>3, <2>4 DEF HeaderStages
<1> QED
  BY <1>1, CallFacts DEF CallBegins, Least

LEMMA HeaderWaits ==
  ASSUME CallBegins, stage \in HeaderStages,
         NEW take \in Nat,
         buffered + take < HeaderSize[stage],
         offset' = offset + take,
         buffered' = buffered + take,
         UNCHANGED <<stage, tableVars, error, summed>>,
         payload' = NoPayload
  PROVE  CallKeeps
<1>1. stage \in Stages /\ fileIndex' = fileIndex /\ previousEnd' = previousEnd
      /\ file' = file /\ package' = package /\ error' = "NONE"
  BY DEF CallBegins, ParseInv, TypeOK, tableVars
<1>2. CASE stage = "METADATA"
  BY <1>1, <1>2, CallFacts, NothingOut DEF CallBegins, ParseInv, CallKeeps, InTable, HeaderSize, Errors
<1>3. CASE stage = "FILE"
  <2>1. buffered' < AttrSize /\ offset' = HeadSize + AttrSize * fileIndex + buffered'
    <3>1. offset = HeadSize + AttrSize * fileIndex + buffered
      BY <1>3 DEF CallBegins, ParseInv, InTable
    <3>2. AttrSize * fileIndex \in Nat
      BY CallFacts, ParseAssumption
    <3> QED
      BY <1>3, <3>1, <3>2, CallFacts, ParseAssumption DEF HeaderSize
  <2>2. SelectedAmong(fileIndex)'
    BY <1>1, <1>3 DEF CallBegins, ParseInv, InTable, SelectedAmong
  <2>3. InTable'
    BY <1>1, <1>3, <2>1, <2>2 DEF CallBegins, ParseInv, InTable
  <2> QED
    BY <1>1, <1>3, <2>3, CallFacts, NothingOut DEF CallBegins, ParseInv, CallKeeps, Errors
<1>4. CASE stage = "GCM_IV"
  BY <1>1, <1>4, CallFacts, InFileTable, NothingOut
  DEF CallBegins, ParseInv, CallKeeps, InTable, InFile, HeaderSize, Errors
<1>5. CASE stage = "GCM_TAG"
  BY <1>1, <1>5, CallFacts, InFileTable, NothingOut
  DEF CallBegins, ParseInv, CallKeeps, InTable, InFile, HeaderSize, Errors, DataStart, DataEnd
<1> QED
  BY <1>2, <1>3, <1>4, <1>5 DEF HeaderStages

-----------------------------------------------------------------------------
(* The metadata header opens the table, or the package is not one.          *)
LEMMA MetadataKeeps ==
  ASSUME CallBegins, Metadata, offset' = HeadSize,
         summed' = summed, payload' = NoPayload
  PROVE  CallKeeps
<1>1. /\ stage = "METADATA" /\ fileIndex = 0 /\ file = NoFile /\ summed = 0
      /\ package' = package
  BY DEF CallBegins, ParseInv, InTable, Metadata
<1>2. CASE package.head /\ package.files # << >> /\ TableEnd(package) <= package.size
  <2>1. /\ stage' = "FILE" /\ previousEnd' = TableEnd(package) /\ buffered' = 0
        /\ fileIndex' = 0 /\ file' = NoFile /\ error' = "NONE"
    BY <1>1, <1>2 DEF Metadata, CallBegins
  <2>2. previousEnd' = EndBefore(package', fileIndex' + 1)
    BY <1>1, <2>1 DEF EndBefore
  <2>3. HeadSize = HeadSize + AttrSize * 0 + 0
    BY ParseAssumption
  <2>4. Len(package.files) \in Nat /\ Len(package.files) > 0 /\ TableEnd(package) \in Uint
    BY <1>2, PackageFacts, ParseAssumption DEF CallBegins, Uint
  <2>5. SelectedAmong(fileIndex)' /\ \A i \in 1 .. fileIndex' : FALSE
    BY <2>1 DEF SelectedAmong
  <2>6. offset' = HeadSize + AttrSize * fileIndex' + buffered'
    BY <2>1, <2>3
  <2>7. TableEnd(package') \in Nat /\ previousEnd' >= TableEnd(package')
    BY <1>1, <2>1, PackageFacts DEF CallBegins
  <2>8. InTable'
    BY <1>1, <1>2, <2>1, <2>2, <2>4, <2>5, <2>6, <2>7, ParseAssumption DEF InTable
  <2> QED
    BY <1>1, <2>1, <2>4, <2>8, NothingOut DEF CallKeeps, Stages, HeaderStages, Errors
<1>3. CASE ~(package.head /\ package.files # << >> /\ TableEnd(package) <= package.size)
  <2>1. ~TableGood(package)
    BY <1>3, PackageFacts DEF TableGood, CallBegins
  <2>2. error' = "INVALID" /\ UNCHANGED <<stage, buffered, tableVars>>
    BY <1>3 DEF Metadata, Fail
  <2> QED
    BY <1>1, <2>1, <2>2, CallFacts, NothingOut
    DEF CallKeeps, Valid, Stages, HeaderStages, Errors, tableVars
<1> QED
  BY <1>2, <1>3

(* A row of the table that is refused is one no good table has.             *)
LEMMA RowRefused ==
  ASSUME CallBegins, stage = "FILE",
         NEW f, f = package.files[fileIndex + 1],
         NEW chosen, chosen = (IF f.target THEN [offset |-> f.offset, size |-> f.size] ELSE file),
         ~(/\ f.good /\ InPackage(f) /\ (f.target => Selectable(f))
           /\ (fileIndex + 1 = Len(package.files) => chosen.size # 0))
  PROVE  ~TableGood(package)
<1> SUFFICES ASSUME TableGood(package) PROVE FALSE
  OBVIOUS
<1> DEFINE i == fileIndex + 1
<1>1. /\ fileIndex \in Nat /\ fileIndex < Len(package.files) /\ Len(package.files) \in Nat
      /\ previousEnd = EndBefore(package, i)
      /\ SelectedAmong(fileIndex)
  BY CallFacts, PackageFacts DEF CallBegins, ParseInv, InTable
<1>2. /\ i \in 1 .. Len(package.files)
      /\ \A j \in 1 .. fileIndex : j \in 1 .. Len(package.files) /\ j # i
  BY <1>1
<1>3. PICK t \in 1 .. Len(package.files) : IsTarget(package, t) /\ Fits(package, t)
  BY DEF TableGood
<1>4. RangeGood(package, i) /\ f \in File
  BY <1>2, PackageFacts DEF TableGood, CallBegins
<1>5. f.good
  BY <1>4 DEF RangeGood
<1>6. InPackage(f)
  BY <1>1, <1>4, FileFacts, CallFacts DEF RangeGood, InPackage
<1>7. f.target => Selectable(f)
  <2> SUFFICES ASSUME f.target PROVE Selectable(f)
    OBVIOUS
  <2>1. t = i
    BY <1>2, <1>3 DEF IsTarget
  <2>2. \A j \in 1 .. fileIndex : ~package.files[j].target
    BY <1>2, <1>3, <2>1 DEF IsTarget
  <2>3. file = NoFile
    BY <1>1, <2>2 DEF SelectedAmong
  <2> QED
    BY <1>3, <2>1, <2>3, NothingOut DEF Fits, Selectable
<1>8. fileIndex + 1 = Len(package.files) => chosen.size # 0
  <2> SUFFICES ASSUME i = Len(package.files) PROVE chosen.size # 0
    OBVIOUS
  <2>1. Overhead(package) \in Nat
    BY PackageFacts DEF CallBegins
  <2>2. CASE f.target
    BY <1>4, <2>1, <2>2, FileFacts DEF RangeGood
  <2>3. CASE ~f.target
    <3>1. t \in 1 .. fileIndex /\ package.files[t].target
      BY <1>1, <1>3, <2>3 DEF IsTarget
    <3>2. PICK u \in 1 .. fileIndex : file = RangeOf(package, u)
      BY <1>1, <3>1 DEF SelectedAmong
    <3>3. RangeGood(package, u) /\ package.files[u] \in File
      BY <1>2, PackageFacts DEF TableGood, CallBegins
    <3> QED
      BY <2>1, <2>3, <3>2, <3>3, FileFacts DEF RangeGood, RangeOf
  <2> QED
    BY <2>2, <2>3
<1> QED
  BY <1>5, <1>6, <1>7, <1>8

(* A row that is accepted leaves its file's range in the books.             *)
LEMMA RowTaken ==
  ASSUME CallBegins, stage = "FILE",
         NEW f, f = package.files[fileIndex + 1],
         NEW chosen, chosen = (IF f.target THEN [offset |-> f.offset, size |-> f.size] ELSE file),
         f.good, InPackage(f), f.target => Selectable(f),
         file' = chosen
  PROVE  /\ fileIndex + 1 \in 1 .. Len(package.files)
         /\ f \in File
         /\ chosen \in [offset : Uint, size : Uint]
         /\ Add(f.offset, f.size) = f.offset + f.size /\ f.offset + f.size \in Uint
         /\ f.offset + f.size >= TableEnd(package)
         /\ EndBefore(package, fileIndex + 1 + 1) = f.offset + f.size
         /\ \A i \in 1 .. fileIndex + 1 : RangeGood(package, i)
         /\ \/ chosen = NoFile /\ \A i \in 1 .. fileIndex + 1 : ~package.files[i].target
            \/ \E t \in 1 .. fileIndex + 1 :
                 /\ package.files[t].target
                 /\ \A i \in 1 .. fileIndex + 1 : package.files[i].target => i = t
                 /\ Fits(package, t)
                 /\ chosen = RangeOf(package, t)
<1> DEFINE i == fileIndex + 1
<1>1. /\ fileIndex \in Nat /\ fileIndex < Len(package.files) /\ Len(package.files) \in Nat
      /\ previousEnd = EndBefore(package, i) /\ previousEnd >= TableEnd(package)
      /\ \A j \in 1 .. fileIndex : RangeGood(package, j)
      /\ SelectedAmong(fileIndex)
  BY CallFacts, PackageFacts DEF CallBegins, ParseInv, InTable
<1>2. i \in 1 .. Len(package.files) /\ f \in File
  BY <1>1, PackageFacts DEF CallBegins
<1>3. /\ f.offset \in Nat /\ f.size \in Nat /\ f.offset + f.size <= package.size
      /\ f.offset \in Uint /\ f.size \in Uint
      /\ f.offset >= previousEnd /\ f.size > Overhead(package)
      /\ f.target \in BOOLEAN
  BY <1>2, FileFacts, CallFacts DEF InPackage, File
<1>4. f.offset + f.size < Word
  BY <1>3, CallFacts, ParseAssumption
<1>5. /\ Add(f.offset, f.size) = f.offset + f.size /\ f.offset + f.size \in Uint
      /\ f.offset >= TableEnd(package) /\ f.offset + f.size >= TableEnd(package)
  <2>1. TableEnd(package) \in Nat /\ previousEnd \in Nat
    BY CallFacts, PackageFacts DEF Uint, CallBegins
  <2>2. f.offset >= TableEnd(package) /\ f.offset + f.size >= TableEnd(package)
    BY <1>1, <1>3, <2>1
  <2> QED
    BY <1>3, <1>4, <2>2, AddSmall, ParseAssumption DEF Uint
<1>6. EndBefore(package, i + 1) = f.offset + f.size
  BY <1>1 DEF EndBefore
<1>7. RangeGood(package, i)
  BY <1>1, <1>3, <1>5 DEF RangeGood
<1>8. \A j \in 1 .. i : RangeGood(package, j)
  <2> SUFFICES ASSUME NEW j \in 1 .. i PROVE RangeGood(package, j)
    OBVIOUS
  <2>1. j = i \/ j \in 1 .. fileIndex
    BY <1>1
  <2> QED
    BY <1>1, <1>7, <2>1
<1>9. chosen \in [offset : Uint, size : Uint]
  BY <1>3, CallFacts
<1>10. CASE f.target
  <2>1. file.size = 0 /\ Fits(package, i)
    BY <1>10 DEF Selectable, Fits
  <2>2. \A j \in 1 .. fileIndex : ~package.files[j].target
    <3> SUFFICES ASSUME NEW t \in 1 .. fileIndex, file = RangeOf(package, t) PROVE FALSE
      BY <1>1 DEF SelectedAmong
    <3>1. RangeGood(package, t) /\ package.files[t] \in File
      BY <1>1, PackageFacts DEF CallBegins
    <3> QED
      BY <2>1, <3>1, FileFacts, PackageFacts DEF RangeGood, RangeOf, CallBegins
  <2>3. \A j \in 1 .. i : package.files[j].target => j = i
    BY <1>1, <2>2
  <2>4. chosen = RangeOf(package, i)
    BY <1>10 DEF RangeOf
  <2> QED
    BY <1>1, <1>2, <1>5, <1>6, <1>8, <1>9, <1>10, <2>1, <2>3, <2>4
<1>11. CASE ~f.target
  <2>1. chosen = file
    BY <1>11
  <2>2. \A j \in 1 .. i : package.files[j].target => j \in 1 .. fileIndex
    BY <1>1, <1>11
  <2>3. \A t \in 1 .. fileIndex : t \in 1 .. i
    BY <1>1
  <2>4. \/ chosen = NoFile /\ \A j \in 1 .. i : ~package.files[j].target
        \/ \E t \in 1 .. i :
             /\ package.files[t].target
             /\ \A j \in 1 .. i : package.files[j].target => j = t
             /\ Fits(package, t)
             /\ chosen = RangeOf(package, t)
    BY <1>1, <2>1, <2>2, <2>3 DEF SelectedAmong
  <2> QED
    BY <1>2, <1>5, <1>6, <1>8, <1>9, <2>4
<1> QED
  BY <1>10, <1>11

(* At the beginning of the file: IV or image comes next.                    *)
LEMMA FileBegins ==
  ASSUME package \in Packages, package' = package, TableGood(package),
         file' = RangeOf(package, TargetOf(package)),
         offset' = file'.offset, buffered' = 0, summed' = 0,
         stage' = (IF package.cipher THEN "GCM_IV" ELSE "IMAGE")
  PROVE  InFile' /\ InTable'
<1>1. /\ file'.offset \in Nat /\ file'.size \in Nat
      /\ file'.size > Overhead(package)
  BY TargetFacts
<1>2. CASE package.cipher
  BY <1>1, <1>2, ParseAssumption DEF InFile, InTable
<1>3. CASE ~package.cipher
  <2>1. Iv(package) = 0 /\ Tag(package) = 0 /\ Overhead(package) = 0
    BY <1>3 DEF Iv, Tag, Overhead
  <2>2. DataStart' = file'.offset /\ DataEnd' = file'.offset + file'.size
    BY <1>1, <2>1 DEF DataStart, DataEnd
  <2> QED
    BY <1>1, <1>3, <2>1, <2>2 DEF InFile, InTable
<1> QED
  BY <1>2, <1>3

LEMMA SelectFileKeeps ==
  ASSUME CallBegins, SelectFile,
         offset' = HeadSize + AttrSize * fileIndex + AttrSize,
         summed' = summed, payload' = NoPayload
  PROVE  CallKeeps
<1> DEFINE f == package.files[fileIndex + 1]
           chosen == IF f.target THEN [offset |-> f.offset, size |-> f.size] ELSE file
           last == fileIndex + 1 = Len(package.files)
           taken == /\ f.good /\ InPackage(f) /\ (f.target => Selectable(f))
                    /\ (last => chosen.size # 0)
<1>1. /\ stage = "FILE" /\ summed = 0 /\ package' = package
      /\ fileIndex \in Nat /\ fileIndex < Len(package.files) /\ Len(package.files) \in Nat
      /\ package.head /\ TableEnd(package) <= package.size
  BY CallFacts, PackageFacts DEF CallBegins, ParseInv, InTable, SelectFile
<1>2. CASE ~taken
  <2>1. error' = "INVALID" /\ UNCHANGED <<stage, buffered, tableVars>>
    BY <1>2 DEF SelectFile, Fail
  <2>2. ~TableGood(package)
    BY <1>1, <1>2, RowRefused
  <2> QED
    BY <1>1, <2>1, <2>2, CallFacts, NothingOut
    DEF CallKeeps, Valid, Stages, HeaderStages, Errors, tableVars
<1>3. CASE taken
  <2>1. /\ file' = chosen
        /\ previousEnd' = Add(f.offset, f.size)
        /\ fileIndex' = fileIndex + 1
        /\ buffered' = 0
        /\ stage' = (IF last THEN AfterTable(chosen) ELSE "FILE")
        /\ error' = "NONE"
    BY <1>3 DEF SelectFile, CallBegins
  <2> DEFINE books(ch) ==
        \/ ch = NoFile /\ \A i \in 1 .. fileIndex + 1 : ~package.files[i].target
        \/ \E t \in 1 .. fileIndex + 1 :
             /\ package.files[t].target
             /\ \A i \in 1 .. fileIndex + 1 : package.files[i].target => i = t
             /\ Fits(package, t)
             /\ ch = RangeOf(package, t)
  <2>2. /\ f \in File
        /\ chosen \in [offset : Uint, size : Uint]
        /\ previousEnd' \in Uint /\ previousEnd' >= TableEnd(package)
        /\ previousEnd' = EndBefore(package, fileIndex' + 1)
        /\ \A i \in 1 .. fileIndex + 1 : RangeGood(package, i)
        /\ books(chosen)
    BY <1>1, <1>3, <2>1, RowTaken
  <2>3. AttrSize * fileIndex + AttrSize = AttrSize * (fileIndex + 1) /\ AttrSize * fileIndex \in Nat
    BY <1>1, Rows
  <2>4. CASE ~last
    <3>1. SelectedAmong(fileIndex)'
      BY <1>1, <2>1, <2>2 DEF SelectedAmong
    <3>2. fileIndex' \in Nat /\ fileIndex' < Len(package'.files)
      BY <1>1, <2>1, <2>4
    <3>3. offset' = HeadSize + AttrSize * fileIndex' + buffered' /\ buffered' < AttrSize
      BY <2>1, <2>3, ParseAssumption
    <3>4. \A i \in 1 .. fileIndex' : RangeGood(package', i)
      BY <1>1, <2>1, <2>2
    <3>5. InTable'
      BY <1>1, <2>1, <2>2, <2>4, <3>1, <3>2, <3>3, <3>4 DEF InTable
    <3> QED
      BY <1>1, <2>1, <2>2, <2>4, <3>2, <3>5, NothingOut DEF CallKeeps, Stages, HeaderStages, Errors
  <2>5. CASE last
    <3>1. PICK t \in 1 .. Len(package.files) :
            /\ IsTarget(package, t) /\ Fits(package, t)
            /\ chosen = RangeOf(package, t)
      <4>1. chosen # NoFile
        BY <1>3, <2>5, NothingOut
      <4>2. PICK t \in 1 .. fileIndex + 1 :
              /\ package.files[t].target
              /\ \A i \in 1 .. fileIndex + 1 : package.files[i].target => i = t
              /\ Fits(package, t)
              /\ chosen = RangeOf(package, t)
        BY <2>2, <4>1
      <4>3. IsTarget(package, t)
        BY <2>5, <4>2 DEF IsTarget
      <4> QED
        BY <2>5, <4>2, <4>3
    <3>2. TableGood(package)
      BY <1>1, <2>2, <2>5, <3>1 DEF TableGood
    <3>3. file' = RangeOf(package, TargetOf(package))
      BY <2>1, <3>1, TargetUnique
    <3>4. offset' = TableEnd(package) /\ TableEnd(package) \in Nat
      <4>1. TableEnd(package) = HeadSize + AttrSize * (fileIndex + 1)
        BY <2>5 DEF TableEnd
      <4> QED
        BY <2>3, <4>1, PackageFacts, ParseAssumption DEF CallBegins
    <3>5. file'.offset \in Nat /\ file'.offset >= offset'
      BY <3>2, <3>3, <3>4, TargetFacts DEF CallBegins
    <3>6. InFile' /\ InTable' /\ stage' \in Stages /\ stage' \in {"FILE_GAP", "GCM_IV", "IMAGE"}
      <4>1. CASE offset' # file'.offset
        BY <2>1, <2>5, <3>4, <3>5, <4>1 DEF AfterTable, InFile, InTable, Stages
      <4>2. CASE offset' = file'.offset
        <5>1. stage' = (IF package.cipher THEN "GCM_IV" ELSE "IMAGE")
          BY <2>1, <2>5, <4>2 DEF AfterTable
        <5> QED
          BY <1>1, <2>1, <3>2, <3>3, <4>2, <5>1, FileBegins DEF CallBegins, Stages, HeaderStages
      <4> QED
        BY <4>1, <4>2
    <3> QED
      BY <1>1, <2>1, <2>2, <3>2, <3>3, <3>6, NothingOut DEF CallKeeps, Errors
  <2> QED
    BY <2>4, <2>5
<1> QED
  BY <1>2, <1>3

-----------------------------------------------------------------------------
(* A failed step leaves what the next call would need to be refused.        *)
LEMMA DecryptFails ==
  ASSUME CallBegins, Fail("DECRYPT_FAILED"), summed' = summed, payload' = NoPayload
  PROVE  CallKeeps
<1>1. stage \in Stages
  BY DEF CallBegins, ParseInv, TypeOK
<1> QED
  BY <1>1, CallFacts, NothingOut DEF CallKeeps, Fail, Errors, tableVars

(* The IV is complete: the image follows it.                                *)
LEMMA GcmIvKeeps ==
  ASSUME CallBegins, GcmIv, offset' = file.offset + IvSize,
         summed' = summed, payload' = NoPayload
  PROVE  CallKeeps
<1>1. CASE Fail("DECRYPT_FAILED")
  BY <1>1, DecryptFails
<1>2. CASE Enter("IMAGE")
  <2>1. /\ stage = "GCM_IV" /\ summed = 0 /\ package' = package
        /\ stage' = "IMAGE" /\ buffered' = 0 /\ file' = file /\ error' = "NONE"
        /\ fileIndex' = fileIndex /\ previousEnd' = previousEnd
    BY <1>2 DEF GcmIv, Enter, CallBegins, ParseInv, tableVars
  <2>2. package.cipher
    BY <2>1, InFileTable DEF InFile
  <2>3. DataStart = file.offset + IvSize /\ DataStart' = DataStart /\ DataEnd' = DataEnd
    BY <2>1, <2>2 DEF DataStart, DataEnd, Iv
  <2>4. InFile' /\ InTable'
    BY <2>1, <2>3, InFileTable DEF InFile, InTable
  <2> QED
    BY <2>1, <2>4, InFileTable, CallFacts, NothingOut DEF CallKeeps, Stages, Errors
<1> QED
  BY <1>1, <1>2 DEF GcmIv

(* The tag is complete: what follows is somebody else's.                    *)
LEMMA GcmTagKeeps ==
  ASSUME CallBegins, GcmTag, offset' = DataEnd + TagSize,
         summed' = summed, payload' = NoPayload
  PROVE  CallKeeps
<1>1. CASE ~package.tag
  BY <1>1, DecryptFails DEF GcmTag
<1>2. CASE package.tag
  <2>1. /\ stage = "GCM_TAG" /\ package' = package
        /\ stage' = "TAIL" /\ buffered' = 0 /\ file' = file /\ error' = "NONE"
        /\ fileIndex' = fileIndex /\ previousEnd' = previousEnd
    BY <1>2 DEF GcmTag, Enter, CallBegins, tableVars
  <2>2. package.cipher /\ summed = DataEnd - DataStart
    BY <2>1, InFileTable DEF InFile
  <2>3. DataStart' = DataStart /\ DataEnd' = DataEnd /\ Tag(package) = TagSize
    BY <2>1, <2>2 DEF DataStart, DataEnd, Tag
  <2>4. InFile' /\ InTable'
    BY <1>2, <2>1, <2>2, <2>3, InFileTable DEF InFile, InTable
  <2> QED
    BY <2>1, <2>4, InFileTable, CallFacts, NothingOut DEF CallKeeps, Stages, Errors
<1> QED
  BY <1>1, <1>2

(* A call that gathers a header.                                            *)
LEMMA ParseHeaderKeeps ==
  ASSUME CallBegins, ParseHeader
  PROVE  ParseInv'
<1> DEFINE take == Least(HeaderSize[stage] - buffered, input)
<1>1. /\ stage \in HeaderStages /\ Consume(take)
      /\ payload' = NoPayload /\ summed' = summed
  BY DEF ParseHeader
<1>2. /\ take \in Nat /\ take <= input /\ HeaderSize[stage] \in Nat
      /\ buffered + take <= HeaderSize[stage]
  BY <1>1, HeaderTake
<1>3. offset' = offset + take
  BY <1>1, <1>2, Consumed DEF CallBegins
<1>4. CASE buffered + take < HeaderSize[stage]
  <2>1. buffered' = buffered + take /\ UNCHANGED <<stage, tableVars, error>>
    BY <1>4 DEF ParseHeader
  <2>2. CallKeeps
    BY <1>1, <1>2, <1>3, <1>4, <2>1, HeaderWaits
  <2> QED
    BY <1>1, <1>2, <2>2, CallInv
<1>5. CASE ~(buffered + take < HeaderSize[stage])
  <2>1. buffered + take = HeaderSize[stage] /\ buffered \in Nat
    BY <1>2, <1>5, CallFacts
  <2>2. CallKeeps
    <3>1. CASE Metadata
      <4>1. offset' = HeadSize
        BY <1>3, <2>1, <3>1, ParseAssumption DEF Metadata, CallBegins, ParseInv, InTable, HeaderSize
      <4> QED
        BY <1>1, <3>1, <4>1, MetadataKeeps
    <3>2. CASE SelectFile
      <4>1. stage = "FILE" /\ offset = HeadSize + AttrSize * fileIndex + buffered
        BY <3>2 DEF SelectFile, CallBegins, ParseInv, InTable
      <4>2. AttrSize * fileIndex \in Nat /\ buffered + take = AttrSize
        BY <2>1, <4>1, CallFacts, ParseAssumption DEF HeaderSize
      <4>3. offset' = HeadSize + AttrSize * fileIndex + AttrSize
        BY <1>2, <1>3, <2>1, <4>1, <4>2, ParseAssumption
      <4> QED
        BY <1>1, <3>2, <4>3, SelectFileKeeps
    <3>3. CASE GcmIv
      <4>1. stage = "GCM_IV"
        BY <3>3 DEF GcmIv
      <4>2. offset' = file.offset + IvSize
        BY <1>2, <1>3, <2>1, <4>1, InFileTable, ParseAssumption DEF InFile, HeaderSize
      <4> QED
        BY <1>1, <3>3, <4>2, GcmIvKeeps
    <3>4. CASE GcmTag
      <4>1. stage = "GCM_TAG"
        BY <3>4 DEF GcmTag
      <4>2. offset' = DataEnd + TagSize
        BY <1>2, <1>3, <2>1, <4>1, InFileTable, ParseAssumption DEF InFile, HeaderSize
      <4> QED
        BY <1>1, <3>4, <4>2, GcmTagKeeps
    <3> QED
      BY <1>5, <3>1, <3>2, <3>3, <3>4 DEF ParseHeader
  <2> QED
    BY <1>1, <1>2, <2>2, CallInv
<1> QED
  BY <1>4, <1>5

-----------------------------------------------------------------------------
(* How much of the gap a call skips.                                        *)
LEMMA GapTake ==
  ASSUME CallBegins, stage = "FILE_GAP"
  PROVE  /\ Sub(file.offset, offset) = file.offset - offset
         /\ Least(Sub(file.offset, offset), input) \in Nat
         /\ Least(Sub(file.offset, offset), input) > 0
         /\ Least(Sub(file.offset, offset), input) <= input
         /\ offset + Least(Sub(file.offset, offset), input) <= file.offset
<1>1. /\ file.offset \in Nat /\ offset < file.offset /\ file.offset < Word /\ offset \in Nat
  BY InFileTable, CallFacts, ParseAssumption DEF InFile
<1>2. Sub(file.offset, offset) = file.offset - offset
  BY <1>1, SubSmall
<1> QED
  BY <1>1, <1>2, CallFacts DEF CallBegins, Least

LEMMA SkipGapKeeps ==
  ASSUME CallBegins, SkipGap
  PROVE  ParseInv'
<1> DEFINE take == Least(Sub(file.offset, offset), input)
<1>1. /\ stage = "FILE_GAP" /\ Consume(take)
      /\ payload' = NoPayload /\ summed' = summed /\ summed = 0 /\ package' = package
  BY DEF SkipGap, CallBegins, ParseInv
<1>2. /\ take \in Nat /\ take <= input /\ offset + take <= file.offset
  BY <1>1, GapTake
<1>3. offset' = offset + take
  BY <1>1, <1>2, Consumed DEF CallBegins
<1>4. file' = file /\ fileIndex' = fileIndex /\ previousEnd' = previousEnd /\ error' = "NONE"
  BY DEF SkipGap, Enter, tableVars, CallBegins
<1>5. CASE offset' = file.offset
  <2>1. /\ stage' = (IF package.cipher THEN "GCM_IV" ELSE "IMAGE") /\ buffered' = 0
    BY <1>5 DEF SkipGap, Enter
  <2>2. InFile' /\ InTable'
    BY <1>1, <1>4, <1>5, <2>1, FileBegins, InFileTable DEF CallBegins
  <2>3. CallKeeps
    BY <1>1, <1>4, <2>1, <2>2, InFileTable, CallFacts, NothingOut
    DEF CallKeeps, Stages, HeaderStages, Errors
  <2> QED
    BY <1>1, <1>2, <2>3, CallInv
<1>6. CASE offset' # file.offset
  <2>1. stage' = stage /\ buffered' = buffered
    BY <1>6 DEF SkipGap
  <2>2. InFile' /\ InTable'
    BY <1>1, <1>2, <1>3, <1>4, <1>6, <2>1, CallFacts, InFileTable DEF InFile, InTable
  <2>3. CallKeeps
    BY <1>1, <1>4, <2>1, <2>2, InFileTable, CallFacts, NothingOut DEF CallKeeps, Stages, Errors
  <2> QED
    BY <1>1, <1>2, <2>3, CallInv
<1> QED
  BY <1>5, <1>6

(* How much of the image a call gives out, and where it belongs.            *)
LEMMA ImageFacts ==
  ASSUME CallBegins, stage = "IMAGE"
  PROVE  /\ ImageEnd = DataEnd
         /\ ImageOffset = offset - DataStart
         /\ DataStart <= offset /\ summed = offset - DataStart
         /\ ImageTake \in Nat /\ ImageTake > 0 /\ ImageTake <= input
         /\ offset + ImageTake <= DataEnd
<1>1. /\ file.offset \in Nat /\ file.size \in Nat /\ file.offset + file.size < Word
      /\ DataStart \in Nat /\ DataEnd \in Nat
      /\ DataEnd + Tag(package) = file.offset + file.size
      /\ DataStart <= offset /\ offset < DataEnd /\ summed = offset - DataStart
      /\ offset \in Nat /\ input \in Nat /\ input > 0
  BY InFileTable, CallFacts, ParseAssumption DEF InFile, CallBegins
<1>2. Tag(package) \in Nat /\ Iv(package) \in Nat
  BY PackageFacts DEF CallBegins
<1>3. Add(file.offset, file.size) = file.offset + file.size
  BY <1>1, AddSmall
<1>4. ImageEnd = DataEnd
  <2>1. Sub(file.offset + file.size, Tag(package)) = file.offset + file.size - Tag(package)
    BY <1>1, <1>2, SubSmall, ParseAssumption
  <2> QED
    BY <1>3, <2>1 DEF ImageEnd, DataEnd
<1>5. DataEnd < Word
  BY <1>1, <1>2, ParseAssumption
<1>6. ImageOffset = offset - DataStart
  BY <1>1, <1>5, SubSmall, ParseAssumption DEF ImageOffset, DataStart
<1>7. Sub(ImageEnd, offset) = DataEnd - offset
  BY <1>1, <1>4, <1>5, SubSmall
<1>8. ImageTake \in Nat /\ ImageTake > 0 /\ ImageTake <= input /\ offset + ImageTake <= DataEnd
  BY <1>1, <1>7, ParseAssumption DEF ImageTake, Least
<1> QED
  BY <1>1, <1>4, <1>6, <1>8

(* A call that stays where it is.                                           *)
LEMMA StayInv ==
  ASSUME CallBegins, CallKeeps, UNCHANGED <<offset, input>>
  PROVE  ParseInv'
<1>1. Consume(0)
  BY CallFacts, AddSmall, ParseAssumption DEF Consume
<1> QED
  BY <1>1, CallFacts, CallInv

LEMMA ParseImageKeeps ==
  ASSUME CallBegins, ParseImage
  PROVE  ParseInv'
<1>1. stage = "IMAGE" /\ package' = package
  BY DEF ParseImage, CallBegins
<1>2. CASE Fail("DECRYPT_FAILED") /\ payload' = NoPayload /\ UNCHANGED <<offset, input, summed>>
  BY <1>2, DecryptFails, StayInv
<1>3. CASE /\ Consume(ImageTake)
           /\ payload' = [offset |-> ImageOffset, size |-> ImageTake]
           /\ summed' = summed + ImageTake
           /\ IF offset' = ImageEnd
              THEN Enter(IF package.cipher THEN "GCM_TAG" ELSE "TAIL")
              ELSE UNCHANGED <<stage, buffered, tableVars, error>>
  <2>1. offset' = offset + ImageTake /\ offset' \in Uint
    BY <1>1, <1>3, ImageFacts, Consumed DEF CallBegins
  <2>2. file' = file /\ fileIndex' = fileIndex /\ previousEnd' = previousEnd /\ error' = "NONE"
    BY <1>3 DEF Enter, tableVars, CallBegins
  <2>3. DataStart' = DataStart /\ DataEnd' = DataEnd
    BY <1>1, <2>2 DEF DataStart, DataEnd
  <2>4. /\ DataStart \in Nat /\ DataEnd \in Nat /\ offset \in Nat /\ ImageTake \in Nat
        /\ DataStart <= offset /\ offset + ImageTake <= DataEnd
        /\ summed' = offset' - DataStart /\ summed' \in Nat
    BY <1>1, <1>3, <2>1, ImageFacts, InFileTable, CallFacts
  <2>5. payload' \in [offset : Uint, size : Uint]
    <3>1. DataEnd < Word
      <4>1. /\ DataEnd + Tag(package) <= package.size /\ package.size < Word
            /\ package.size \in Nat
        BY <1>1, InFileTable, CallFacts
      <4>2. Tag(package) \in Nat
        BY PackageFacts DEF CallBegins
      <4> QED
        BY <2>4, <4>1, <4>2, ParseAssumption
    <3>2. offset - DataStart \in Uint /\ ImageTake \in Uint
      BY <2>4, <3>1, ParseAssumption DEF Uint
    <3> QED
      BY <1>1, <1>3, <3>2, ImageFacts
  <2>6. CASE offset' = DataEnd
    <3>1. stage' = (IF package.cipher THEN "GCM_TAG" ELSE "TAIL") /\ buffered' = 0
      BY <1>1, <1>3, <2>6, ImageFacts DEF Enter
    <3>2. ~package.cipher => Tag(package) = 0
      BY DEF Tag
    <3>3. InFile' /\ InTable'
      <4>1. DataEnd + Tag(package) = file.offset + file.size /\ Tag(package) \in Nat
        BY <1>1, InFileTable, PackageFacts DEF CallBegins
      <4>2. CASE package.cipher
        BY <1>1, <2>2, <2>3, <2>4, <2>6, <3>1, <4>2, ParseAssumption DEF InFile, InTable
      <4>3. CASE ~package.cipher
        BY <1>1, <2>2, <2>3, <2>4, <2>6, <3>1, <3>2, <4>1, <4>3 DEF InFile, InTable
      <4> QED
        BY <4>2, <4>3
    <3>4. CallKeeps
      BY <1>1, <2>2, <2>4, <2>5, <3>1, <3>3, InFileTable, CallFacts
      DEF CallKeeps, Stages, HeaderStages, Errors
    <3> QED
      BY <1>1, <1>3, <3>4, ImageFacts, CallInv
  <2>7. CASE offset' # DataEnd
    <3>1. stage' = stage /\ buffered' = buffered
      BY <1>1, <1>3, <2>7, ImageFacts
    <3>2. InFile' /\ InTable'
      BY <1>1, <2>1, <2>2, <2>3, <2>4, <2>7, <3>1 DEF InFile, InTable
    <3>3. CallKeeps
      BY <1>1, <2>2, <2>4, <2>5, <3>1, <3>2, InFileTable, CallFacts DEF CallKeeps, Stages, Errors
    <3> QED
      BY <1>1, <1>3, <3>3, ImageFacts, CallInv
  <2> QED
    BY <2>6, <2>7
<1> QED
  BY <1>2, <1>3 DEF ParseImage

LEMMA SkipTailKeeps ==
  ASSUME CallBegins, SkipTail
  PROVE  ParseInv'
<1>1. /\ stage = "TAIL" /\ Consume(input) /\ payload' = NoPayload
      /\ UNCHANGED <<stage, buffered, tableVars, summed, error>>
      /\ package' = package
  BY DEF SkipTail, CallBegins
<1>2. file' = file /\ fileIndex' = fileIndex /\ previousEnd' = previousEnd /\ error' = "NONE"
  BY <1>1 DEF tableVars, CallBegins
<1>3. offset' = offset + input
  BY <1>1, Consumed, CallFacts DEF CallBegins
<1>4. DataStart' = DataStart /\ DataEnd' = DataEnd
  BY <1>1, <1>2 DEF DataStart, DataEnd
<1>5. InFile' /\ InTable'
  BY <1>1, <1>2, <1>3, <1>4, InFileTable, CallFacts DEF InFile, InTable
<1>6. CallKeeps
  BY <1>1, <1>2, <1>5, InFileTable, CallFacts, NothingOut DEF CallKeeps, Stages, Errors
<1> QED
  BY <1>1, <1>6, CallFacts, CallInv

-----------------------------------------------------------------------------
(* While there is input there is a package.                                 *)
LEMMA ParseDataBegins ==
  ASSUME ParseInv, ParseData
  PROVE  /\ CallBegins
         /\ ParseHeader \/ SkipGap \/ ParseImage \/ SkipTail
<1>1. /\ package \in Packages \cup {NoPackage}
      /\ offset \in Nat /\ input \in Nat /\ input > 0
      /\ offset + input <= package.size
  BY DEF ParseInv, TypeOK, ParseData, Uint
<1>2. package # NoPackage
  BY <1>1 DEF NoPackage
<1>3. package \in Packages
  BY <1>1, <1>2
<1>4. CallBegins
  BY <1>3 DEF CallBegins, ParseData
<1>5. offset <= package.size /\ input <= package.size - offset
  BY <1>1, <1>3, PackageFacts
<1> QED
  BY <1>4, <1>5 DEF ParseData

(* The whole of the input is in, and nothing has failed: the parser is in   *)
(* the tail, and its verdict is the package's.                              *)
LEMMA ParseFinishKeeps ==
  ASSUME ParseInv, ParseFinish
  PROVE  ParseInv'
<1>1. /\ package \in Packages /\ package # NoPackage /\ error = "NONE"
      /\ offset = package.size /\ stage \in Stages
      /\ offset \in Nat /\ buffered \in Nat /\ fileIndex \in Nat
      /\ package.size > HeadSize + AttrSize
      /\ UNCHANGED <<package, stage, offset, buffered, fileIndex, previousEnd, file, summed,
                     error, input, payload>>
  BY DEF ParseInv, TypeOK, ParseFinish, Uint, tableVars
<1>2. stage # "METADATA"
  BY <1>1, ParseAssumption DEF ParseInv, InTable
<1>3. stage # "FILE"
  <2> SUFFICES ASSUME stage = "FILE" PROVE FALSE
    OBVIOUS
  <2>1. /\ fileIndex < Len(package.files) /\ TableEnd(package) <= package.size
        /\ offset = HeadSize + AttrSize * fileIndex + buffered /\ buffered < AttrSize
    BY <1>1 DEF ParseInv, InTable
  <2>2. /\ AttrSize * fileIndex + AttrSize <= AttrSize * Len(package.files)
        /\ AttrSize * fileIndex \in Nat
    BY <1>1, <2>1, Rows, PackageFacts
  <2>3. AttrSize * Len(package.files) \in Nat
    BY <1>1, PackageFacts, ParseAssumption
  <2> QED
    BY <1>1, <2>1, <2>2, <2>3, ParseAssumption DEF TableEnd
<1>4. /\ TableGood(package) /\ file = RangeOf(package, TargetOf(package)) /\ InFile
  BY <1>1, <1>2, <1>3 DEF ParseInv
<1>5. /\ file.offset \in Nat /\ file.size \in Nat /\ file.size > Overhead(package)
      /\ file.offset + file.size <= package.size
      /\ Iv(package) \in Nat /\ Tag(package) \in Nat
      /\ Overhead(package) = Iv(package) + Tag(package)
  BY <1>1, <1>4, TargetFacts, PackageFacts
<1>6. stage = "TAIL"
  <2>1. stage # "FILE_GAP"
    BY <1>1, <1>4, <1>5 DEF InFile
  <2>2. stage # "GCM_IV"
    BY <1>1, <1>4, <1>5, ParseAssumption DEF InFile, Iv
  <2>3. stage # "IMAGE"
    BY <1>1, <1>4, <1>5 DEF InFile, DataEnd
  <2>4. stage # "GCM_TAG"
    BY <1>1, <1>4, <1>5, ParseAssumption DEF InFile, DataEnd, Tag
  <2> QED
    BY <1>1, <1>2, <1>3, <2>1, <2>2, <2>3, <2>4 DEF Stages, HeaderStages
<1>7. (package.cipher => package.tag) /\ summed = file.size - Overhead(package)
  BY <1>4, <1>5, <1>6 DEF InFile, DataStart, DataEnd
<1>8. verdict' = (IF package.crc THEN "PASSED" ELSE "REFUSED")
  BY <1>6, <1>7 DEF ParseFinish
<1>9. VerdictIsReference'
  BY <1>1, <1>4, <1>7, <1>8 DEF VerdictIsReference, Valid
<1>10. TypeOK'
  BY <1>1, <1>8 DEF ParseInv, TypeOK, Verdicts
<1>11. InTable' /\ InFile'
  BY <1>1, <1>4, <1>6 DEF InTable, InFile, DataStart, DataEnd
<1>12. (package # NoPackage => package.size > HeadSize + AttrSize)' /\ (offset + input <= package.size)'
  BY <1>1 DEF ParseInv
<1> QED
  BY <1>1, <1>4, <1>6, <1>9, <1>10, <1>11, <1>12 DEF ParseInv

(* A context that has been cleared.                                         *)
LEMMA ClearedKeeps ==
  ASSUME Cleared, package' \in Packages \cup {NoPackage},
         package' # NoPackage => package'.size > HeadSize + AttrSize
  PROVE  ParseInv'
<1>1. package'.size \in Nat
  BY PackageFacts DEF NoPackage
<1>2. TypeOK'
  BY NothingOut, ParseAssumption
  DEF Cleared, TypeOK, Stages, HeaderStages, Errors, Verdicts, Uint
<1>3. InTable'
  BY ParseAssumption DEF Cleared, InTable
<1>4. VerdictIsReference'
  BY DEF Cleared, VerdictIsReference
<1> QED
  BY <1>1, <1>2, <1>3, <1>4 DEF Cleared, ParseInv

LEMMA HandlePackageKeeps ==
  ASSUME ParseInv, NEW n \in 1 .. package.size, HandlePackage(n)
  PROVE  ParseInv'
<1>1. /\ package \in Packages /\ error = "NONE" /\ offset \in Nat
      /\ input' = n /\ n <= package.size - offset
      /\ UNCHANGED <<package, stage, offset, buffered, fileIndex, previousEnd, file, summed,
                     error, verdict>>
      /\ payload' = NoPayload
  BY DEF ParseInv, TypeOK, HandlePackage, Uint, tableVars
<1>2. n \in Nat /\ offset' + input' <= package.size
  BY <1>1, PackageFacts
<1>3. TypeOK'
  BY <1>1, <1>2, NothingOut DEF ParseInv, TypeOK
<1>4. InTable <=> InTable'
  BY <1>1 DEF InTable, SelectedAmong
<1>5. InFile <=> InFile'
  BY <1>1 DEF InFile, DataStart, DataEnd
<1>6. VerdictIsReference'
  BY <1>1 DEF ParseInv, VerdictIsReference
<1> QED
  BY <1>1, <1>2, <1>3, <1>4, <1>5, <1>6 DEF ParseInv

LEMMA NextInv == ParseInv /\ [Next]_vars => ParseInv'
<1> SUFFICES ASSUME ParseInv, [Next]_vars PROVE ParseInv'
  OBVIOUS
<1>1. ASSUME NEW p \in Packages, ParseInit(p) PROVE ParseInv'
  BY <1>1, ClearedKeeps DEF ParseInit
<1>2. ASSUME NEW n \in 1 .. package.size, HandlePackage(n) PROVE ParseInv'
  BY <1>2, HandlePackageKeeps
<1>3. CASE ParseData
  BY <1>3, ParseDataBegins, ParseHeaderKeeps, SkipGapKeeps, ParseImageKeeps, SkipTailKeeps
<1>4. CASE ParseFinish
  BY <1>4, ParseFinishKeeps
<1>5. CASE ParseFree
  BY <1>5, ClearedKeeps DEF ParseFree
<1>6. CASE UNCHANGED vars
  BY <1>6 DEF vars, tableVars, ParseInv, TypeOK, InTable, SelectedAmong, InFile, DataStart,
              DataEnd, VerdictIsReference
<1> QED
  BY <1>1, <1>2, <1>3, <1>4, <1>5, <1>6 DEF Next

-----------------------------------------------------------------------------
(* The parser's context always says the truth about the input behind it.    *)
THEOREM ParseInvariant == Spec => []ParseInv
<1>1. Init => ParseInv
  BY InitInv
<1>2. ParseInv /\ [Next]_vars => ParseInv'
  BY NextInv
<1> QED
  BY <1>1, <1>2, PTL DEF Spec

(* Types of the context and of what a call is given and gives out.          *)
THEOREM ParseTypeCorrect == Spec => []TypeOK
<1>1. ParseInv => TypeOK
  BY DEF ParseInv
<1> QED
  BY <1>1, ParseInvariant, PTL

(* However the input is cut, the verdict of snfOtaParseFinish, and every    *)
(* refusal before it, is the one the whole package deserves.                *)
THEOREM ParserVerdict == Spec => []VerdictIsReference
<1>1. ParseInv => VerdictIsReference
  BY DEF ParseInv
<1> QED
  BY <1>1, ParseInvariant, PTL

-----------------------------------------------------------------------------
(* Where a call that succeeds stops, by the stage it was in.                *)
LEMMA CallStops ==
  ASSUME ParseInv, ParseData, error' = "NONE"
  PROVE  /\ CallBegins
         /\ offset' \in Nat /\ offset < offset' /\ input' = input - (offset' - offset)
         /\ stage \in {"METADATA", "FILE"} => offset' <= TableEnd(package)
         /\ stage = "FILE_GAP" => offset' <= file.offset
         /\ stage = "GCM_IV" => offset' <= DataStart
         /\ stage = "IMAGE" => offset' <= DataEnd
         /\ stage = "IMAGE" => payload' = [offset |-> offset - DataStart, size |-> offset' - offset]
         /\ stage # "IMAGE" => payload' = NoPayload
<1>1. CallBegins
  BY ParseDataBegins
<1>2. offset \in Nat /\ input \in Nat /\ input > 0 /\ buffered \in Nat /\ fileIndex \in Nat
  BY <1>1, CallFacts DEF CallBegins
<1>3. CASE ParseHeader
  <2> DEFINE take == Least(HeaderSize[stage] - buffered, input)
  <2>1. /\ stage \in HeaderStages /\ Consume(take) /\ payload' = NoPayload
    BY <1>3 DEF ParseHeader
  <2>2. /\ take \in Nat /\ take > 0 /\ take <= input /\ HeaderSize[stage] \in Nat
        /\ buffered + take <= HeaderSize[stage]
    BY <1>1, <2>1, HeaderTake
  <2>3. offset' = offset + take /\ input' = input - take
    BY <1>1, <2>1, <2>2, Consumed DEF CallBegins
  <2>4. CASE stage = "METADATA"
    <3>1. offset = buffered /\ HeaderSize[stage] = HeadSize
      BY <1>1, <2>4 DEF CallBegins, ParseInv, InTable, HeaderSize
    <3>2. TableEnd(package) \in Nat /\ TableEnd(package) >= HeadSize
      BY <1>1, PackageFacts DEF CallBegins
    <3> QED
      BY <1>1, <1>2, <2>1, <2>2, <2>3, <2>4, <3>1, <3>2, ParseAssumption
  <2>5. CASE stage = "FILE"
    <3>1. /\ offset = HeadSize + AttrSize * fileIndex + buffered /\ HeaderSize[stage] = AttrSize
          /\ fileIndex < Len(package.files)
      BY <1>1, <2>5 DEF CallBegins, ParseInv, InTable, HeaderSize
    <3>2. Len(package.files) \in Nat
      BY <1>1, PackageFacts DEF CallBegins
    <3>3. /\ AttrSize * fileIndex + AttrSize <= AttrSize * Len(package.files)
          /\ AttrSize * fileIndex \in Nat /\ AttrSize * Len(package.files) \in Nat
      BY <1>2, <3>1, <3>2, Rows, ParseAssumption
    <3>4. offset' <= TableEnd(package)
      BY <1>2, <2>2, <2>3, <3>1, <3>3, ParseAssumption DEF TableEnd
    <3> QED
      BY <1>1, <1>2, <2>1, <2>2, <2>3, <2>5, <3>4
  <2>6. CASE stage = "GCM_IV"
    <3>1. /\ offset = file.offset + buffered /\ HeaderSize[stage] = IvSize /\ Iv(package) = IvSize
          /\ file.offset \in Nat
      BY <1>1, <2>6, InFileTable DEF InFile, HeaderSize, Iv
    <3>2. offset' <= DataStart
      BY <1>2, <2>2, <2>3, <3>1, ParseAssumption DEF DataStart
    <3> QED
      BY <1>1, <1>2, <2>1, <2>2, <2>3, <2>6, <3>2
  <2>7. CASE stage = "GCM_TAG"
    BY <1>1, <1>2, <2>1, <2>2, <2>3, <2>7
  <2> QED
    BY <2>1, <2>4, <2>5, <2>6, <2>7 DEF HeaderStages
<1>4. CASE SkipGap
  <2> DEFINE take == Least(Sub(file.offset, offset), input)
  <2>1. stage = "FILE_GAP" /\ Consume(take) /\ payload' = NoPayload
    BY <1>4 DEF SkipGap
  <2>2. take \in Nat /\ take > 0 /\ take <= input /\ offset + take <= file.offset
    BY <1>1, <2>1, GapTake
  <2>3. offset' = offset + take /\ input' = input - take
    BY <1>1, <2>1, <2>2, Consumed DEF CallBegins
  <2> QED
    BY <1>1, <1>2, <2>1, <2>2, <2>3
<1>5. CASE ParseImage
  <2>1. /\ stage = "IMAGE" /\ Consume(ImageTake)
        /\ payload' = [offset |-> ImageOffset, size |-> ImageTake]
    BY <1>5 DEF ParseImage, Fail
  <2>2. /\ ImageTake \in Nat /\ ImageTake > 0 /\ ImageTake <= input
        /\ offset + ImageTake <= DataEnd /\ ImageOffset = offset - DataStart
    BY <1>1, <2>1, ImageFacts
  <2>3. offset' = offset + ImageTake /\ input' = input - ImageTake
    BY <1>1, <2>1, <2>2, Consumed DEF CallBegins
  <2> QED
    BY <1>1, <1>2, <2>1, <2>2, <2>3
<1>6. CASE SkipTail
  <2>1. stage = "TAIL" /\ Consume(input) /\ payload' = NoPayload
    BY <1>6 DEF SkipTail
  <2>2. offset' = offset + input /\ input' = input - input
    BY <1>1, <1>2, <2>1, Consumed DEF CallBegins
  <2> QED
    BY <1>1, <1>2, <2>1, <2>2
<1> QED
  BY <1>3, <1>4, <1>5, <1>6, ParseDataBegins

(* Which units are plain data, seen from the stage.                         *)
LEMMA PlainByStage ==
  ASSUME CallBegins, NEW n \in Nat, offset <= n,
         stage \in {"METADATA", "FILE"} => n < TableEnd(package),
         stage = "FILE_GAP" => n < file.offset,
         stage = "GCM_IV" => n < DataStart,
         stage = "IMAGE" => n < DataEnd
  PROVE  /\ Plain(package, n) <=> stage = "IMAGE"
         /\ stage = "IMAGE" => PlainStart(package) = DataStart
<1>1. /\ TableEnd(package) \in Nat /\ Iv(package) \in Nat /\ Tag(package) \in Nat
      /\ Overhead(package) = Iv(package) + Tag(package)
      /\ package \in Packages /\ stage \in Stages /\ offset \in Nat /\ buffered \in Nat
  BY PackageFacts, CallFacts DEF CallBegins, ParseInv, TypeOK
<1>2. CASE stage \in {"METADATA", "FILE"}
  <2>1. TableGood(package) => PlainStart(package) >= TableEnd(package) /\ PlainStart(package) \in Nat
    BY <1>1, TargetFacts
  <2> QED
    BY <1>1, <1>2, <2>1 DEF Plain
<1>3. CASE stage \notin {"METADATA", "FILE"}
  <2>1. /\ TableGood(package) /\ InFile
        /\ PlainStart(package) = DataStart
        /\ PlainStart(package) + PlainSize(package) = DataEnd
        /\ DataStart \in Nat /\ DataEnd \in Nat
    BY <1>1, <1>3, InFileTable, TargetFacts DEF DataStart, DataEnd
  <2>2. Plain(package, n) <=> DataStart <= n /\ n < DataEnd
    BY <2>1 DEF Plain
  <2>3. CASE stage = "FILE_GAP"
    BY <1>1, <1>3, <2>2, <2>3, InFileTable DEF DataStart
  <2>4. CASE stage = "GCM_IV"
    BY <2>1, <2>2, <2>4
  <2>5. CASE stage = "IMAGE"
    BY <1>1, <2>1, <2>2, <2>5 DEF InFile
  <2>6. CASE stage \in {"GCM_TAG", "TAIL"}
    <3>1. DataEnd <= offset
      BY <1>1, <1>3, <2>1, <2>6, InFileTable DEF InFile
    <3> QED
      BY <1>1, <2>1, <2>2, <2>6, <3>1
  <2> QED
    BY <1>1, <1>3, <2>3, <2>4, <2>5, <2>6 DEF Stages, HeaderStages
<1> QED
  BY <1>2, <1>3

(* The units that a call passes.                                            *)
LEMMA Between ==
  ASSUME NEW a \in Nat, NEW b \in Nat
  PROVE  \A n : n \in a .. b - 1 <=> n \in Nat /\ a <= n /\ n < b
  OBVIOUS

(* A call of snfOtaParseData that succeeds consumes something: the loop of  *)
(* otaHandlePackage ends.                                                   *)
THEOREM CallsConsume == Spec => EveryCallConsumes
<1>1. ParseInv /\ [Next]_vars => [ParseData /\ error' = "NONE" => input' < input]_vars
  <2> SUFFICES ASSUME ParseInv, ParseData, error' = "NONE" PROVE input' < input
    OBVIOUS
  <2>1. offset \in Nat /\ input \in Nat
    BY CallStops, CallFacts
  <2> QED
    BY <2>1, CallStops
<1> QED
  BY <1>1, ParseInvariant, PTL DEF Spec, EveryCallConsumes

(* A call stays on one side of the file's boundaries and gives out exactly  *)
(* the plain data it passes, each unit at its own place in the partition.   *)
THEOREM PiecesAreRight == Spec => PiecesFollowLayout
<1> DEFINE Piece ==
      ParseData /\ error' = "NONE" =>
        /\ \A n \in offset .. offset' - 1 : Plain(package, n) <=> Plain(package, offset)
        /\ payload' = IF Plain(package, offset)
                      THEN [offset |-> offset - PlainStart(package), size |-> offset' - offset]
                      ELSE NoPayload
<1>1. ParseInv /\ [Next]_vars => [Piece]_vars
  <2> SUFFICES ASSUME ParseInv, ParseData, error' = "NONE" PROVE Piece
    OBVIOUS
  <2>1. CallBegins
    BY CallStops
  <2>2. offset \in Nat /\ offset' \in Nat /\ offset < offset'
    BY <2>1, CallStops, CallFacts
  <2>3. TableEnd(package) \in Nat
    BY <2>1, PackageFacts DEF CallBegins
  <2>4. ASSUME NEW n \in offset .. offset' - 1
        PROVE  /\ Plain(package, n) <=> stage = "IMAGE"
               /\ stage = "IMAGE" => PlainStart(package) = DataStart
    <3>1. n \in Nat /\ offset <= n /\ n < offset'
      BY <2>2, Between
    <3>2. stage \notin {"METADATA", "FILE"} => file.offset \in Nat /\ DataStart \in Nat /\ DataEnd \in Nat
      BY <2>1, InFileTable
    <3>3. /\ stage \in {"METADATA", "FILE"} => n < TableEnd(package)
          /\ stage = "FILE_GAP" => n < file.offset
          /\ stage = "GCM_IV" => n < DataStart
          /\ stage = "IMAGE" => n < DataEnd
      BY <2>2, <2>3, <3>1, <3>2, CallStops
    <3> QED
      BY <2>1, <3>1, <3>3, PlainByStage
  <2>5. /\ Plain(package, offset) <=> stage = "IMAGE"
        /\ stage = "IMAGE" => PlainStart(package) = DataStart
    <3>1. \A n : n \in offset .. offset' - 1 <=> n \in Nat /\ offset <= n /\ n < offset'
      BY <2>2, Between
    <3>2. offset <= offset
      BY <2>2
    <3>3. offset \in offset .. offset' - 1
      BY <2>2, <3>1, <3>2
    <3> QED
      BY <2>4, <3>3
  <2> QED
    BY <2>4, <2>5, CallStops
<1> QED
  BY <1>1, ParseInvariant, PTL DEF Spec, PiecesFollowLayout
=============================================================================
