----------------------------- MODULE OtaParse ------------------------------
(***************************************************************************)
(* The package parser, src/sonoff/ota/sonoff_ota_parse.c: a state machine   *)
(* over the stages of a package - metadata header, file attributes, gap,    *)
(* IV, image, tag, tail - fed with blocks cut anywhere (otaHandlePackage    *)
(* calls it until a block is used up).                                      *)
(*                                                                         *)
(* A package is what its bytes say: the fields the parser reads, whether a  *)
(* header's own checks pass, whether tag and checksum match.  Lengths and   *)
(* positions are 32-bit words and wrap.                                     *)
(***************************************************************************)
EXTENDS Integers, Sequences

CONSTANTS
  HeadSize,     (* SNF_OTA_META_HEAD_SIZE                                   *)
  AttrSize,     (* SNF_OTA_META_FILE_SIZE                                   *)
  IvSize,       (* SNF_AES_GCM_IV_SIZE                                      *)
  TagSize,      (* SNF_AES_GCM_TAG_SIZE                                     *)
  DecryptSize,  (* SNF_OTA_DECRYPT_BUFFER_SIZE                              *)
  FlashSize,    (* partition_length of the OTA partition                    *)
  Word,         (* 2^32                                                     *)
  Packages      (* the inputs                                               *)

Uint == 0 .. Word - 1
File == [good : BOOLEAN, target : BOOLEAN, offset : Uint, size : Uint]
Package == [size : Uint, cipher : BOOLEAN, head : BOOLEAN, files : Seq(File),
            tag : BOOLEAN, crc : BOOLEAN]

Iv(p) == IF p.cipher THEN IvSize ELSE 0
Tag(p) == IF p.cipher THEN TagSize ELSE 0
Overhead(p) == Iv(p) + Tag(p)
TableEnd(p) == HeadSize + AttrSize * Len(p.files)

(* A file count is a byte, so the end of the table is far from wrapping.    *)
ASSUME ParseAssumption ==
  /\ HeadSize \in Nat \ {0} /\ AttrSize \in Nat \ {0}
  /\ IvSize \in Nat \ {0} /\ TagSize \in Nat \ {0} /\ DecryptSize \in Nat \ {0}
  /\ FlashSize \in Nat \ {0}
  /\ Word \in Nat \ {0}
  /\ Packages \subseteq Package
  /\ \A p \in Packages : TableEnd(p) < Word

VARIABLES
  package,      (* the input, with package_size; NoPackage when freed       *)
  stage,        (* context->stage                                           *)
  offset,       (* context->offset                                          *)
  buffered,     (* context->buffered_size                                   *)
  fileIndex,    (* context->file_index                                      *)
  previousEnd,  (* context->previous_end                                    *)
  file,         (* range of the selected file; size 0 while there is none   *)
  summed,       (* file_crc: how much of the file it covers                 *)
  error,        (* context->error                                           *)
  verdict,      (* what snfOtaParseFinish returned                          *)
  input,        (* what is left of the block being handled                  *)
  payload       (* what the last call of snfOtaParseData gave out           *)

tableVars == <<fileIndex, previousEnd, file>>
vars == <<package, stage, offset, buffered, tableVars, summed, error, verdict,
          input, payload>>

NoPackage == [size |-> 0, cipher |-> FALSE, head |-> FALSE, files |-> << >>,
              tag |-> FALSE, crc |-> FALSE]
NoFile == [offset |-> 0, size |-> 0]
NoPayload == [offset |-> 0, size |-> 0]

(* The stages whose bytes are gathered in context->buffer, and how many.    *)
HeaderSize == [METADATA |-> HeadSize, FILE |-> AttrSize,
               GCM_IV |-> IvSize, GCM_TAG |-> TagSize]
HeaderStages == {"METADATA", "FILE", "GCM_IV", "GCM_TAG"}
Stages == HeaderStages \cup {"FILE_GAP", "IMAGE", "TAIL"}
Errors == {"NONE", "INVALID", "DECRYPT_FAILED"}
Verdicts == {"NONE", "PASSED", "REFUSED"}

Cleared ==
  /\ stage' = "METADATA"
  /\ offset' = 0 /\ buffered' = 0
  /\ fileIndex' = 0 /\ previousEnd' = 0 /\ file' = NoFile
  /\ summed' = 0
  /\ error' = "NONE" /\ verdict' = "NONE"
  /\ input' = 0 /\ payload' = NoPayload

Init ==
  /\ package = NoPackage /\ stage = "METADATA" /\ offset = 0 /\ buffered = 0
  /\ fileIndex = 0 /\ previousEnd = 0 /\ file = NoFile /\ summed = 0
  /\ error = "NONE" /\ verdict = "NONE" /\ input = 0 /\ payload = NoPayload

ParseInit(p) ==
  /\ package = NoPackage
  /\ p.size > HeadSize + AttrSize
  /\ package' = p
  /\ Cleared

ParseFree ==
  /\ package # NoPackage
  /\ package' = NoPackage
  /\ Cleared

-----------------------------------------------------------------------------
(* 32-bit arithmetic.                                                       *)
Add(a, b) == (a + b) % Word
Sub(a, b) == (a - b) % Word
Least(a, b) == IF a <= b THEN a ELSE b

Consume(n) == offset' = Add(offset, n) /\ input' = input - n

(* After an error nothing else of the context is used again.                *)
Fail(e) == error' = e /\ UNCHANGED <<stage, buffered, tableVars>>
Enter(s) == stage' = s /\ buffered' = 0 /\ UNCHANGED <<tableVars, error>>

Metadata ==
  /\ stage = "METADATA"
  /\ IF package.head /\ package.files # << >> /\ TableEnd(package) <= package.size
     THEN /\ stage' = "FILE"
          /\ previousEnd' = TableEnd(package)
          /\ buffered' = 0
          /\ UNCHANGED <<fileIndex, file, error>>
     ELSE Fail("INVALID")

(* Mutant: the end of the file is computed, and may wrap.                   *)
InPackageBySum(f) ==
  /\ f.size > Overhead(package)
  /\ f.offset >= previousEnd
  /\ Add(f.offset, f.size) <= package.size

(* The range of a file: behind the one before it, inside the package.       *)
InPackage(f) ==
  /\ f.size > Overhead(package)
  /\ f.offset >= previousEnd
  /\ f.offset <= package.size
  /\ f.size <= package.size - f.offset

(* Mutant: a second file of the name replaces the first.                    *)
SelectableAgain(f) == f.size - Overhead(package) <= FlashSize

Selectable(f) == file.size = 0 /\ f.size - Overhead(package) <= FlashSize

(* Mutant: the gap is waited for when there is none.                        *)
AfterTableGap(f) == "FILE_GAP"

(* Where the file's own data is expected to begin, seen from the table.     *)
AfterTable(f) == IF offset' # f.offset THEN "FILE_GAP"
                 ELSE IF package.cipher THEN "GCM_IV" ELSE "IMAGE"

SelectFile ==
  /\ stage = "FILE"
  /\ LET f == package.files[fileIndex + 1]
         chosen == IF f.target THEN [offset |-> f.offset, size |-> f.size] ELSE file
         last == fileIndex + 1 = Len(package.files)
     IN  IF f.good /\ InPackage(f) /\ (f.target => Selectable(f)) /\ (last => chosen.size # 0)
         THEN /\ file' = chosen
              /\ previousEnd' = Add(f.offset, f.size)
              /\ fileIndex' = fileIndex + 1
              /\ buffered' = 0
              /\ stage' = IF last THEN AfterTable(chosen) ELSE "FILE"
              /\ UNCHANGED error
         ELSE Fail("INVALID")

(* Starting the decryption may fail for want of memory.                     *)
GcmIv ==
  /\ stage = "GCM_IV"
  /\ Enter("IMAGE") \/ Fail("DECRYPT_FAILED")

GcmTag ==
  /\ stage = "GCM_TAG"
  /\ IF package.tag THEN Enter("TAIL") ELSE Fail("DECRYPT_FAILED")

(* A header may come in several blocks, and is looked at when complete.     *)
ParseHeader ==
  /\ stage \in HeaderStages
  /\ LET take == Least(HeaderSize[stage] - buffered, input) IN
     /\ Consume(take)
     /\ IF buffered + take < HeaderSize[stage]
        THEN buffered' = buffered + take /\ UNCHANGED <<stage, tableVars, error>>
        ELSE Metadata \/ SelectFile \/ GcmIv \/ GcmTag
  /\ payload' = NoPayload
  /\ UNCHANGED summed

SkipGap ==
  /\ stage = "FILE_GAP"
  /\ Consume(Least(Sub(file.offset, offset), input))
  /\ IF offset' = file.offset
     THEN Enter(IF package.cipher THEN "GCM_IV" ELSE "IMAGE")
     ELSE UNCHANGED <<stage, buffered, tableVars, error>>
  /\ payload' = NoPayload
  /\ UNCHANGED summed

ImageEnd == Sub(Add(file.offset, file.size), Tag(package))

(* Mutant: the IV is counted as data.                                       *)
ImageOffsetOfFile == Sub(offset, file.offset)

ImageOffset == Sub(offset, file.offset + Iv(package))

(* Mutant: the end of the block is overlooked.                              *)
ImageTakeAll == IF package.cipher THEN Least(Sub(ImageEnd, offset), DecryptSize)
                ELSE Sub(ImageEnd, offset)

ImageTake ==
  LET take == Least(Sub(ImageEnd, offset), input)
  IN  IF package.cipher THEN Least(take, DecryptSize) ELSE take

ParseImage ==
  /\ stage = "IMAGE"
  /\ \/ /\ Consume(ImageTake)
        /\ payload' = [offset |-> ImageOffset, size |-> ImageTake]
        /\ summed' = summed + ImageTake
        /\ IF offset' = ImageEnd
           THEN Enter(IF package.cipher THEN "GCM_TAG" ELSE "TAIL")
           ELSE UNCHANGED <<stage, buffered, tableVars, error>>
     \/ /\ package.cipher
        /\ Fail("DECRYPT_FAILED")
        /\ payload' = NoPayload
        /\ UNCHANGED <<offset, input, summed>>

SkipTail ==
  /\ stage = "TAIL"
  /\ Consume(input)
  /\ payload' = NoPayload
  /\ UNCHANGED <<stage, buffered, tableVars, summed, error>>

(* One call of snfOtaParseData.                                             *)
ParseData ==
  /\ error = "NONE"
  /\ input > 0
  /\ IF offset <= package.size /\ input <= package.size - offset
     THEN ParseHeader \/ SkipGap \/ ParseImage \/ SkipTail
     ELSE /\ Fail("INVALID")
          /\ payload' = NoPayload
          /\ UNCHANGED <<offset, input, summed>>
  /\ UNCHANGED <<package, verdict>>

-----------------------------------------------------------------------------
(* otaHandlePackage, with the next block that otaHandleData has let through. *)
HandlePackage(n) ==
  /\ package # NoPackage
  /\ error = "NONE"
  /\ input = 0
  /\ n <= package.size - offset
  /\ input' = n
  /\ payload' = NoPayload
  /\ UNCHANGED <<package, stage, offset, buffered, tableVars, summed, error, verdict>>

(* Asked for by otaHandleVerify once all of the input has been handled.     *)
ParseFinish ==
  /\ package # NoPackage
  /\ error = "NONE"
  /\ verdict = "NONE"
  /\ input = 0
  /\ offset = package.size
  /\ verdict' = IF stage = "TAIL" /\ summed = file.size - Overhead(package) /\ package.crc
                THEN "PASSED" ELSE "REFUSED"
  /\ UNCHANGED <<package, stage, offset, buffered, tableVars, summed, error, input, payload>>

Next ==
  \/ \E p \in Packages : ParseInit(p)
  \/ \E n \in 1 .. package.size : HandlePackage(n)
  \/ ParseData
  \/ ParseFinish
  \/ ParseFree

Spec == Init /\ [][Next]_vars

-----------------------------------------------------------------------------
(* The reference: what a package is, with the whole of it in hand.          *)

EndBefore(p, i) ==
  IF i = 1 THEN TableEnd(p) ELSE p.files[i - 1].offset + p.files[i - 1].size

RangeGood(p, i) ==
  /\ p.files[i].good
  /\ p.files[i].size > Overhead(p)
  /\ p.files[i].offset >= TableEnd(p)
  /\ p.files[i].offset >= EndBefore(p, i)
  /\ p.files[i].offset + p.files[i].size <= p.size

IsTarget(p, i) ==
  /\ i \in 1 .. Len(p.files)
  /\ p.files[i].target
  /\ \A j \in 1 .. Len(p.files) : p.files[j].target => j = i

Fits(p, i) == p.files[i].size - Overhead(p) <= FlashSize

TableGood(p) ==
  /\ p.head
  /\ Len(p.files) > 0
  /\ TableEnd(p) <= p.size
  /\ \A i \in 1 .. Len(p.files) : RangeGood(p, i)
  /\ \E i \in 1 .. Len(p.files) : IsTarget(p, i) /\ Fits(p, i)

Valid(p) == TableGood(p) /\ (p.cipher => p.tag) /\ p.crc

(* The file's plain data: the input units that belong in the partition.     *)
TargetOf(p) == CHOOSE i \in 1 .. Len(p.files) : IsTarget(p, i)
PlainStart(p) == p.files[TargetOf(p)].offset + Iv(p)
PlainSize(p) == p.files[TargetOf(p)].size - Overhead(p)
Plain(p, n) == TableGood(p) /\ PlainStart(p) <= n /\ n < PlainStart(p) + PlainSize(p)

-----------------------------------------------------------------------------
(* Types of the context and of what one call is given and gives out.        *)
TypeOK ==
  /\ package \in Packages \cup {NoPackage}
  /\ stage \in Stages
  /\ offset \in Uint /\ buffered \in Nat
  /\ fileIndex \in Nat /\ previousEnd \in Uint
  /\ file \in [offset : Uint, size : Uint]
  /\ summed \in Nat
  /\ error \in Errors /\ verdict \in Verdicts
  /\ input \in Nat
  /\ payload \in [offset : Uint, size : Uint]

(* However the input is cut, the verdict is the one the whole package       *)
(* deserves; a failed decryption aside, nothing valid is turned away.       *)
VerdictIsReference ==
  /\ verdict = "PASSED" => Valid(package)
  /\ verdict = "REFUSED" \/ error = "INVALID" => ~Valid(package)

(* What OtaCore takes for granted of its parser: a call stays on one side   *)
(* of the file's boundaries, and gives out exactly the file's plain data,   *)
(* each unit at its own place in the partition.                             *)
PiecesFollowLayout ==
  [][ParseData /\ error' = "NONE" =>
       /\ \A n \in offset .. offset' - 1 : Plain(package, n) <=> Plain(package, offset)
       /\ payload' = IF Plain(package, offset)
                     THEN [offset |-> offset - PlainStart(package), size |-> offset' - offset]
                     ELSE NoPayload]_vars

(* sonoff_ota_parse.h: consumed is greater than zero on success - or the    *)
(* loop of otaHandlePackage would not end.                                  *)
EveryCallConsumes == [][ParseData /\ error' = "NONE" => input' < input]_vars

(* The inductive invariant: what the context says of the input behind it.   *)
RangeOf(p, i) == [offset |-> p.files[i].offset, size |-> p.files[i].size]

(* The selected file is the one target of the first n, if there is one.     *)
SelectedAmong(n) ==
  \/ file = NoFile /\ \A i \in 1 .. n : ~package.files[i].target
  \/ \E t \in 1 .. n :
       /\ package.files[t].target
       /\ \A i \in 1 .. n : package.files[i].target => i = t
       /\ Fits(package, t)
       /\ file = RangeOf(package, t)

InTable ==
  /\ stage = "METADATA" =>
       /\ offset = buffered /\ buffered < HeadSize
       /\ fileIndex = 0 /\ file = NoFile
  /\ stage = "FILE" =>
       /\ package.head /\ TableEnd(package) <= package.size
       /\ fileIndex < Len(package.files)
       /\ offset = HeadSize + AttrSize * fileIndex + buffered /\ buffered < AttrSize
       /\ previousEnd = EndBefore(package, fileIndex + 1)
       /\ previousEnd >= TableEnd(package)
       /\ \A i \in 1 .. fileIndex : RangeGood(package, i)
       /\ SelectedAmong(fileIndex)

(* The positions in the file, past the table.                               *)
DataStart == file.offset + Iv(package)
DataEnd == file.offset + file.size - Tag(package)

InFile ==
  /\ stage = "FILE_GAP" => offset < file.offset
  /\ stage = "GCM_IV" => package.cipher /\ offset = file.offset + buffered /\ buffered < IvSize
  /\ stage = "IMAGE" => DataStart <= offset /\ offset < DataEnd /\ summed = offset - DataStart
  /\ stage = "GCM_TAG" => package.cipher /\ offset = DataEnd + buffered /\ buffered < TagSize
  /\ stage = "TAIL" => offset >= file.offset + file.size /\ (package.cipher => package.tag)
  /\ stage \in {"GCM_TAG", "TAIL"} => summed = DataEnd - DataStart

ParseInv ==
  /\ TypeOK
  /\ package # NoPackage => package.size > HeadSize + AttrSize
  /\ offset + input <= package.size
  /\ error = "NONE" =>
       /\ stage \in {"METADATA", "FILE", "FILE_GAP", "GCM_IV"} => summed = 0
       /\ InTable
       /\ stage \notin {"METADATA", "FILE"} =>
            /\ TableGood(package)
            /\ file = RangeOf(package, TargetOf(package))
            /\ InFile
  /\ VerdictIsReference
=============================================================================
