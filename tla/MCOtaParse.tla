---------------------------- MODULE MCOtaParse -----------------------------
(***************************************************************************)
(* Packages of one and of two files for TLC, around the limits: positions   *)
(* in the table, behind it, at and past the end, and sums that wrap; and    *)
(* the request headers in front of them.                                    *)
(***************************************************************************)
EXTENDS OtaPack, FiniteSetsExt, SequencesExt

MCFiles(goods, offsets, sizes) ==
  [good : goods, target : BOOLEAN, offset : offsets, size : sizes]

OneFile ==
  [size : {9}, cipher : BOOLEAN, head : BOOLEAN,
   files : {<< >>} \cup {<<f>> : f \in MCFiles(BOOLEAN, {2, 3, 4, 9}, {0, 1, 2, 3, 4, 5, 6, 13})},
   tag : BOOLEAN, crc : BOOLEAN]

TwoFiles ==
  [size : {13}, cipher : BOOLEAN, head : {TRUE},
   files : {<<f, g>> : f \in MCFiles({TRUE}, {4, 5, 6}, {1, 2, 4}),
                       g \in MCFiles({TRUE}, {5, 6, 9, 14}, {1, 4, 12})},
   tag : {TRUE}, crc : {TRUE}]

MCSources ==
  UNION {[1 .. n -> [name : {"ota.bin", "other"}, spelled : BOOLEAN, length : 0 .. 4]] : n \in 0 .. 2}

MCPacked ==
  {Packed(files, cipher) : <<files, cipher>> \in
     {s \in MCSources \X BOOLEAN : ~PackRefused(s[1], s[2])}}

MCPackages == OneFile \cup TwoFiles \cup {p \in MCPacked : p.size <= 9}

-----------------------------------------------------------------------------
(* What pack_ota.py packs, the parser takes for valid: the files follow the *)
(* table and each other and end with the package, and one of them is the    *)
(* target, unless it was left out or is larger than the partition.          *)
ASSUME PackedIsValid ==
  \A files \in MCSources, cipher \in BOOLEAN :
    ~PackRefused(files, cipher) =>
      LET p == Packed(files, cipher)
          targets == {k \in DOMAIN files : files[k].name = TargetName}
      IN /\ p \in Package /\ TableEnd(p) < Word
         /\ p.size = TableEnd(p) + FoldLeft(LAMBDA sum, f : sum + f.size, 0, p.files)
         /\ Valid(p) <=> \E k \in targets : files[k].length <= FlashSize

-----------------------------------------------------------------------------
(* The header of an upload: a buffer of six characters, numbers up to 25, *)
(* and a field whose name is "Le".                                          *)
Header == INSTANCE OtaHttpHeader WITH
  BufferSize <- 6, NumberMax <- 25, FieldName <- <<76, 101>>

MCTexts(alphabet, lengths) == UNION {[1 .. n -> alphabet] : n \in lengths}

\* The end of a header is found at the same place in whatever pieces it comes
\* (otaHttpReceiveHeader searches the whole buffer again after each), and what
\* came behind it stays in the buffer, for the upload to write first.
ASSUME PiecesDoNotMatter ==
  \A stream \in MCTexts({13, 10, 120}, 4 .. 6) :
    LET end == Header!FindHeaderEnd(stream) IN
    end # 0 => \A pieces \in SUBSET (1 .. Len(stream)) :
      pieces # {} =>
        LET cuts == SetToSortSeq(pieces, <) IN
        Header!ReceiveHeader(stream, cuts) =
          IF Max(pieces) < end THEN << >>
          ELSE <<[header |-> end, buffered |-> Min({c \in pieces : c >= end})]>>

\* A number is what its digits say, blanks around it left out, or refused: in
\* otaHttpParseUint32 nothing wraps.
ASSUME LengthsAreExact ==
  \A value \in MCTexts({32, 48, 49, 50, 57, 120}, 0 .. 4) :
    LET digits == SelectSeq(value, LAMBDA c : c # 32)
        n == FoldLeft(LAMBDA sum, c : 10 * sum + c - 48, 0, digits)
        written == \E i, j \in 0 .. 4 :
          value = [k \in 1 .. i |-> 32] \o digits \o [k \in 1 .. j |-> 32]
    IN Header!ParseUint32(value) =
         IF written /\ (\A k \in DOMAIN digits : digits[k] # 120) /\ n \in 1 .. 25
         THEN n ELSE -1

MCLines == {<<120>>, <<76, 101, 58, 55>>, <<108, 69, 58, 32, 56>>, <<76, 101, 58>>,
            <<76, 101>>, <<76, 58, 55>>, <<120, 76, 101, 58, 57>>, <<76, 101, 58, 13, 57>>}
MCJoin(lines) == FlattenSeq([k \in DOMAIN lines |-> lines[k] \o <<13, 10>>]) \o <<13, 10>>

\* otaHttpParseContentLength accepts what has the field in one line behind the
\* request line, in any case of its letters, and gives that line's number.
ASSUME OneLineSaysTheLength ==
  \A lines \in MCTexts(MCLines, 1 .. 4) :
    LET fields == {k \in 2 .. Len(lines) :
          \E l \in {<<76, 101, 58>>, <<108, 69, 58>>} : IsPrefix(l, lines[k])}
    IN Header!ParseContentLength(MCJoin(lines)) =
         IF Cardinality(fields) # 1 THEN -1
         ELSE LET line == lines[CHOOSE k \in fields : TRUE]
              IN CASE line = <<76, 101, 58, 55>> -> 7
                   [] line = <<108, 69, 58, 32, 56>> -> 8
                   [] OTHER -> -1
=============================================================================
