------------------------------ MODULE MCDevice ------------------------------
(***************************************************************************)
(* Two factory fields, and one group of commands in a behaviour or half a   *)
(* group and sonoff nvdm write for an item of it; and the texts the         *)
(* commands enter.                                                          *)
(***************************************************************************)
EXTENDS Device

MCFields == <<"discriminator", "passcode">>
MCWorkloads ==
  {{"licence_write", "licence_delete"}, {"licence_delete", "base_mac"},
   {"cert", "dac_cert"}, {"cert", "pai_cert"},
   {"factory_data", "item"}, {"factory_data", "serial"},
   {"user", "plug"}, {"plug", "plug.onoff"}, {"user", "plug.onoff"}}
MCSymmetry == Permutations(Inputs)

-----------------------------------------------------------------------------
(* Short texts with a small largest number, and lengths as they are.        *)
MCTextLen == [discriminator |-> 2, decimal |-> 3, hex_id |-> 2, base64 |-> 4,
              name |-> 3, rd_id |-> 4, serial |-> 3,
              active_code |-> 4, base_mac |-> 5, cd |-> 4]
Texts == INSTANCE NvdmText WITH
  NumberMax <- 28, DiscriminatorMax <- 20, MacLen <- 2, ApikeyLen <- 4, Dashes <- {3},
  TextLen <- MCTextLen, ChipCode <- <<15, 2>>, CdMax <- 2,
  CertHeaderLen <- 12, DacCertMax <- 600, DacKeyLen <- 32, PaiCertMax <- 600, CertTextMax <- 800
Certs == INSTANCE NvdmText WITH
  NumberMax <- 65535, DiscriminatorMax <- 20, MacLen <- 2, ApikeyLen <- 4, Dashes <- {3},
  TextLen <- MCTextLen, ChipCode <- <<15, 2>>, CdMax <- 2,
  CertHeaderLen <- 12, DacCertMax <- 600, DacKeyLen <- 32, PaiCertMax <- 600, CertTextMax <- 800

MCTexts(alphabet, lengths) == UNION {[1 .. n -> alphabet] : n \in lengths}
MCCharacters == {48, 50, 57, 58, 70, 102, 61, 44}
Numbers == {"discriminator", "decimal"}

HexValue(c) == IF c < 58 THEN c - 48 ELSE IF c < 97 THEN c - 55 ELSE c - 87

\* What a text means, whatever the widths and the buffers.
Meaning(kind, text) ==
  CASE kind \in Numbers -> <<FoldLeft(LAMBDA sum, c : 10 * sum + c - 48, 0, text)>>
    [] kind = "hex_id" -> <<FoldLeft(LAMBDA sum, c : 16 * sum + HexValue(c), 0, text)>>
    [] OTHER -> text

\* What a setter accepts its getter gives back - when a number is no longer than
\* the ten characters that docs/factory_at_commands.md allows it.
ASSUME AcceptedReadsBack ==
  \A text \in MCTexts(MCCharacters, 1 .. 5) : \A kind \in Texts!Kinds :
    Texts!Set(kind, text) /\ (kind \in Numbers => Len(text) <= MCTextLen["decimal"]) =>
      Texts!Get(kind, text) = Meaning(kind, text)

\* A longer one, with zeros in front, is accepted too (parseDecU32 bounds the
\* value alone) and loses its last digits in the getter's buffer.
ASSUME ZerosInFrontCount ==
  \A kind \in Numbers :
    Texts!Set(kind, <<48, 48, 48, 57>>) /\ Texts!Get(kind, <<48, 48, 48, 57>>) = <<0>>

\* The chip's code is accepted in either case of its letters and stays good.
ASSUME CodeStaysGood ==
  \A text \in MCTexts(MCCharacters, 4 .. 5) :
    /\ Texts!Set("active_code", text) => Texts!ActiveCodeIsAuthorized(text)
    /\ Texts!Set("active_code", text) <=> text \in {<<48, c, 48, 50>> : c \in {70, 102}}

\* Whatever the flash holds, a getter gives nothing the setter would refuse.
ASSUME NothingElseIsRead ==
  \A stored \in MCTexts(MCCharacters, 0 .. 4) : \A kind \in Texts!Kinds :
    LET value == Texts!Get(kind, stored) IN
    value # << >> =>
      CASE kind = "discriminator" -> value[1] \in 0 .. 20
        [] kind = "decimal" -> value[1] \in 0 .. 28
        [] kind = "hex_id" -> value[1] \in 0 .. 255
        [] OTHER -> Texts!Valid(kind, value)

\* Bytes survive their spelling in hexadecimal, and the NUL needs a place.
ASSUME HexReadsBack ==
  \A bytes \in MCTexts({0, 9, 10, 160, 255}, 1 .. 2) :
    /\ Texts!HexBytesDecode(Texts!BytesToHex(bytes, 2 * Len(bytes) + 1), Len(bytes)) = bytes
    /\ Texts!BytesToHex(bytes, 2 * Len(bytes)) = << >>

\* baseMacParse reads the address that is spelled, unless it is no device's.
ASSUME AddressesReadBack ==
  LET Spelled(mac) == Texts!BytesToHex(<<mac[1]>>, 3) \o <<58>> \o Texts!BytesToHex(<<mac[2]>>, 3)
      macs == (0 .. 255) \X {0, 1, 175, 255}
  IN /\ \A mac \in macs :
          Texts!BaseMacParse(Spelled(mac)) =
            IF mac[1] % 2 = 1 \/ mac = <<0, 0>> THEN << >> ELSE mac
     /\ \A text \in MCTexts({48, 50, 97, 58, 120}, 4 .. 6) :
          LET mac == Texts!BaseMacParse(text) IN mac # << >> => Spelled(mac) = text

\* A certificate of any length that matterSecureCertParse lets through has room
\* in Base64, the largest exactly.
ASSUME CertificatesFit ==
  /\ \A bytes \in 1 .. 600 : Certs!BinSetFits(bytes)
  /\ \A text \in MCTexts({65, 61, 43}, 1 .. 8) :
       Certs!Base64Bytes(text) > 0 => Certs!Base64Size(Certs!Base64Bytes(text)) = Len(text)

\* The three parts fill the plain text: no length makes the sum wrap to fit.
ASSUME PartsFillThePlainText ==
  LET lengths == {0, 1, 32, 600, 601, 64903, 65492, 65535} IN
  \A plain \in [dac : lengths, key : lengths, pai : lengths,
                length : {0, 11, 12, 45, 46, 645, 1243, 1244, 1245, 65535}] :
    Certs!SecureCertParse(plain) =
      IF /\ plain.dac \in 1 .. 600 /\ plain.key = 32 /\ plain.pai \in 1 .. 600
         /\ plain.length = 12 + plain.dac + plain.key + plain.pai
      THEN <<12, 12 + plain.dac, 44 + plain.dac, plain.length>> ELSE << >>
=============================================================================
