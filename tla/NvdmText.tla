------------------------------ MODULE NvdmText -------------------------------
(***************************************************************************)
(* The texts of the items (sonoff_nvdm_config.c): what a setter accepts,    *)
(* what is there of it when the store is read into a buffer, and what the   *)
(* getter makes of that.  Nothing is the empty sequence.                    *)
(***************************************************************************)
EXTENDS Text, FiniteSetsExt

CONSTANTS
  NumberMax,         \* UINT32_MAX
  DiscriminatorMax,  \* NVDM_MATTER_DISCRIMINATOR_MAX
  MacLen,            \* NVDM_FACTORY_BASE_MAC_LEN
  ApikeyLen, Dashes, \* NVDM_FACTORY_APIKEY_LEN, and where its dashes are
  TextLen,           \* the longest text of each kind of item
  ChipCode,          \* the code that snfChipIdGet and activeCodeEncrypt make of the chip
  CdMax,             \* NVDM_MATTER_CD_BIN_MAX_LEN
  CertHeaderLen,     \* NVDM_MATTER_SECURE_CERT_HEADER_LEN
  DacCertMax, DacKeyLen, PaiCertMax,  \* NVDM_MATTER_DAC_CERT_BIN_MAX_LEN ...
  CertTextMax        \* NVDM_MATTER_CERT_B64_MAX_LEN

Kinds == {"discriminator", "decimal", "hex_id", "base64", "name", "rd_id", "serial",
          "active_code", "base_mac", "cd"}

Number(n) == IF n = Refused THEN << >> ELSE <<n>>

-----------------------------------------------------------------------------
(* Bytes in hexadecimal. *)

HexStringIsValid(text, least, most) == Len(text) \in least .. most /\ IsHex(text)

Byte(high, low) == 16 * Nibble(high) + Nibble(low)

HexBytesDecode(text, n) ==
  IF HexStringIsValid(text, 2 * n, 2 * n)
  THEN [k \in 1 .. n |-> Byte(text[2 * k - 1], text[2 * k])] ELSE << >>

HexDigit(n) == IF n < 10 THEN 48 + n ELSE 87 + n

BytesToHex(bytes, size) ==
  IF size <= 2 * Len(bytes) THEN << >>
  ELSE [k \in 1 .. 2 * Len(bytes) |->
          HexDigit(IF k % 2 = 1 THEN bytes[(k + 1) \div 2] \div 16 ELSE bytes[k \div 2] % 16)]

\* A vendor or product identifier, of at most sixteen bits.
ParseHexU16(text) ==
  LET value[k \in 0 .. Len(text)] ==
        IF k = 0 THEN 0 ELSE (16 * value[k - 1] + Nibble(text[k])) % 65536
  IN IF HexStringIsValid(text, 1, TextLen["hex_id"]) THEN <<value[Len(text)]>> ELSE << >>

\* Bytes with a colon between two; neither all zero nor a group's address.
BaseMacParse(text) ==
  LET At(k) == 3 * (k - 1) + 1
      spelled == /\ Len(text) = 3 * MacLen - 1
                 /\ \A k \in 1 .. MacLen : IsHex(<<text[At(k)], text[At(k) + 1]>>)
                 /\ \A k \in 1 .. MacLen - 1 : text[At(k) + 2] = 58
      mac == [k \in 1 .. MacLen |-> Byte(text[At(k)], text[At(k) + 1])]
  IN IF spelled /\ (\E k \in 1 .. MacLen : mac[k] # 0) /\ mac[1] % 2 = 0 THEN mac ELSE << >>

\* A UUID: dashes in their places, digits elsewhere.
FactoryApikeyIsValid(text) ==
  /\ Len(text) = ApikeyLen
  /\ \A k \in 1 .. ApikeyLen :
       IF k \in Dashes THEN text[k] = 45 ELSE IsHex(<<text[k]>>)

-----------------------------------------------------------------------------
(* The other texts. *)

SerialNumberIsValid(text) == Len(text) = TextLen["serial"] /\ \A k \in 1 .. Len(text) : IsDigit(text[k])

DiscriminatorIsValid(text) == Decimal(NumberMax, text) \in 0 .. DiscriminatorMax

NameIsValid(text) ==
  Len(text) \in 1 .. TextLen["name"] /\ \A k \in 1 .. Len(text) : text[k] \in 32 .. 126 \ {44}

\* How many bytes a text in Base64 stands for.
Base64Bytes(text) ==
  LET IsCode(c) == IsDigit(c) \/ Lower(c) \in 97 .. 122 \/ c \in {43, 47}
      codes == {k \in 1 .. Len(text) : text[k] # 61}
      pads == IF codes = {} THEN Len(text) ELSE Len(text) - Max(codes)
  IN IF Len(text) % 4 = 0 /\ pads <= 2 /\ \A k \in codes : IsCode(text[k])
        /\ Cardinality(codes) = Len(text) - pads
     THEN 3 * (Len(text) \div 4) - pads ELSE Refused

Base64Size(bytes) == 4 * ((bytes + 2) \div 3)

\* Without a buffer the length is asked for, with one it has to fit.
Base64Decode(text, size) ==
  IF size # 0 /\ Base64Bytes(text) > size THEN Refused ELSE Base64Bytes(text)

Base64IsValid(text, most) == Len(text) <= most /\ Base64Decode(text, 0) > 0

-----------------------------------------------------------------------------
(* The items. *)

\* activeCodeMatchesChip: whatever the case of its letters.
ActiveCodeMatchesChip(text) == HexBytesDecode(text, Len(ChipCode)) = ChipCode

\* What both sides ask of a text; only the setter compares the code.
Valid(kind, text) ==
  CASE kind = "discriminator" -> DiscriminatorIsValid(text)
    [] kind = "decimal" -> Decimal(NumberMax, text) # Refused
    [] kind = "hex_id" -> HexStringIsValid(text, 1, TextLen[kind])
    [] kind = "base64" -> Base64IsValid(text, TextLen[kind])
    [] kind = "name" -> NameIsValid(text)
    [] kind \in {"rd_id", "active_code"} -> HexStringIsValid(text, TextLen[kind], TextLen[kind])
    [] kind = "serial" -> SerialNumberIsValid(text)
    [] kind = "base_mac" -> BaseMacParse(text) # << >>
    [] kind = "cd" -> Len(text) <= TextLen[kind] /\ Base64Decode(text, CdMax) > 0

Set(kind, text) == Valid(kind, text) /\ (kind = "active_code" => ActiveCodeMatchesChip(text))

\* snfNvdmPortReadStr: what fits the buffer, the last place of it for the NUL.
ReadStr(stored, size) == SubSeq(stored, 1, Min({Len(stored), size - 1}))

\* The buffers of the getters hold the longest text of their kind; that of the
\* discriminator is the one of every decimal number.
ItemGet(kind, stored) ==
  ReadStr(stored, 1 + (IF kind = "discriminator" THEN TextLen["decimal"] ELSE TextLen[kind]))

ItemGetDec(kind, stored) == Number(Decimal(NumberMax, ItemGet(kind, stored)))

DiscriminatorGet(stored) ==
  LET value == ItemGetDec("discriminator", stored)
  IN IF value # << >> /\ value[1] <= DiscriminatorMax THEN value ELSE << >>

TextGet(kind, stored) ==
  LET text == ItemGet(kind, stored) IN IF Valid(kind, text) THEN text ELSE << >>

ActiveCodeGet(stored) == TextGet("active_code", stored)
ActiveCodeIsAuthorized(stored) == ActiveCodeMatchesChip(ActiveCodeGet(stored))

\* The address the boot sets, if the item holds one.
BaseMacApply(stored) == BaseMacParse(ItemGet("base_mac", stored))
BaseMacGet(stored) == TextGet("base_mac", stored)

\* snfMatterCdRead and snfMatterCDGet: the text is decoded again.
CdRead(stored) == TextGet("cd", stored)

SerialNumberGet(stored) == TextGet("serial", stored)

Get(kind, stored) ==
  CASE kind = "discriminator" -> DiscriminatorGet(stored)
    [] kind = "decimal" -> ItemGetDec(kind, stored)
    [] kind = "hex_id" -> ParseHexU16(ItemGet(kind, stored))
    [] kind = "active_code" -> ActiveCodeGet(stored)
    [] kind = "base_mac" -> BaseMacGet(stored)
    [] kind = "cd" -> CdRead(stored)
    [] kind = "serial" -> SerialNumberGet(stored)
    [] OTHER -> TextGet(kind, stored)

-----------------------------------------------------------------------------
(* The certificates' plain text: a header of three lengths, and the parts. *)

PlainText == [dac : Nat, key : Nat, pai : Nat, length : Nat]

\* Where the parts begin and end, as offsets into the plain text.
SecureCertParse(plain) ==
  IF \/ plain.length < CertHeaderLen
     \/ plain.dac \notin 1 .. DacCertMax \/ plain.key # DacKeyLen
     \/ plain.pai \notin 1 .. PaiCertMax
     \/ (CertHeaderLen + plain.dac + plain.key + plain.pai) % (NumberMax + 1) # plain.length
  THEN << >>
  ELSE <<CertHeaderLen, CertHeaderLen + plain.dac, CertHeaderLen + plain.dac + plain.key,
         CertHeaderLen + plain.dac + plain.key + plain.pai>>

\* matterBinSet: a certificate of so many bytes has room in the text's buffer.
BinSetFits(bytes) == bytes # 0 /\ Base64Size(bytes) <= CertTextMax
=============================================================================
