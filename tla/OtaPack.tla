------------------------------- MODULE OtaPack -------------------------------
(***************************************************************************)
(* The build tool that makes packages (src/build_tool/ota/pack_ota.py): a  *)
(* header, a table of all the files, then their contents one after the     *)
(* other, each encrypted by itself when there is a key.                    *)
(***************************************************************************)
EXTENDS OtaParse

\* spelled: name and version are printable and fit their fields.
Source == [name : STRING, spelled : BOOLEAN, length : Nat]
MaxFiles == 255
TargetName == "ota.bin"

Crypt(cipher) == IF cipher THEN IvSize + TagSize ELSE 0

\* Where each file begins; the last place is the end of the package.
FileOffsets(files, cipher) ==
  LET offsets[k \in 1 .. Len(files) + 1] ==
        IF k = 1 THEN HeadSize + AttrSize * Len(files)
        ELSE offsets[k - 1] + files[k - 1].length + Crypt(cipher)
  IN offsets

PackRefused(files, cipher) ==
  \/ Len(files) \notin 1 .. MaxFiles
  \/ \E j, k \in 1 .. Len(files) : j # k /\ files[j].name = files[k].name
  \/ \E k \in 1 .. Len(files) :
       \/ ~files[k].spelled
       \/ files[k].length = 0
       \/ FileOffsets(files, cipher)[k + 1] > Word - 1

Packed(files, cipher) ==
  [size |-> FileOffsets(files, cipher)[Len(files) + 1],
   cipher |-> cipher, head |-> TRUE, tag |-> TRUE, crc |-> TRUE,
   files |-> [k \in 1 .. Len(files) |->
                [good |-> TRUE, target |-> files[k].name = TargetName,
                 offset |-> FileOffsets(files, cipher)[k],
                 size |-> files[k].length + Crypt(cipher)]]]

\* What main packs: one file under the name the device looks for.
PackImage(length, cipher) ==
  Packed(<<[name |-> TargetName, spelled |-> TRUE, length |-> length]>>, cipher)
=============================================================================
