----------------------------- MODULE NvdmConfig -----------------------------
(***************************************************************************)
(* The groups of items (sonoff_nvdm_config.c): the licence, the Matter     *)
(* factory data, and the certificates with the session that protects their *)
(* way into the device.  What is modelled of a value is where it comes     *)
(* from: an item of the licence is valid when some frame wrote it, and the *)
(* parsing, hashing and decryption that decide whether an input is good    *)
(* appear by their verdict.                                                *)
(***************************************************************************)
EXTENDS Nvdm

VARIABLES
  session,   \* matter_secure_session
  keys,      \* key pairs made so far, which numbers them
  tried,     \* history: the key pairs a decryption was tried with
  torn,      \* history: a certificate write was cut, or failed and its undoing too
  bypassed   \* history: the items last written by sonoff nvdm write, which checks nothing

configVars == <<session, keys, tried, torn, bypassed>>

\* "own" is the number of the local key, "seen" that of the key the peer's
\* parameters were sent for; "mixed" parameters come from two settings.
NoSession == [local |-> FALSE, peer |-> FALSE, own |-> 0, seen |-> 0, mixed |-> FALSE]

ConfigInit == session = NoSession /\ keys = 0 /\ tried = {} /\ torn = FALSE /\ bypassed = {}

-----------------------------------------------------------------------------
(* The licence. *)

LicenceValues == [k \in 1 .. Len(LicenceItems) |-> flash[LicenceItems[k]]]

\* Mutant: a device ID is a licence.
CompleteByDevice(values) == values[1] \in Inputs

\* The checks of an item: of its length, its digits, its address.
Valid(v) == v \in Inputs

\* snfLicenseRead: five items, each valid by itself.
Complete(values) == \A k \in DOMAIN values : Valid(values[k])

\* Mutant: without its device ID a licence counts as cleared.
LicenseClearDeviceId == Erasing(<<LicenceItems[1]>>)

LicenseClear == Erasing(LicenceItems)

\* What AT+LICENSE_WRITE is given: a frame passes all the checks (of its length,
\* of every field, of its sum, of the model) before anything is written, or none.
LicenseFrames == [value : Inputs, good : BOOLEAN]
LicenseWrite(frame) == IF frame.good THEN Writing(LicenceItems, frame.value) ELSE <<>>

-----------------------------------------------------------------------------
(* The items that stand alone, and the Matter factory data. *)

SerialNumberSet(v) == <<To("serial", v)>>
ActiveCodeSet(v) == <<To("active_code", v)>>
MatterCdWrite(v) == <<To("cd", v)>>
MatterCdClear == <<To("cd", Empty)>>

\* The setters of AT+MT_FACTORY_DATA_WRITE, up to the first that refuses its field.
FactoryData(v, good) == Writing(SubSeq(FactoryFields, 1, good), v)

-----------------------------------------------------------------------------
(* The certificates. *)

SecureCertWrite(package) == Writing(CertItems, package)
SecureCertClear == Erasing(CertItems)

\* Mutant: the parameters of an earlier exchange are kept.
PubKeyGetKeeping ==
  /\ session' = [session EXCEPT !.local = TRUE, !.own = keys + 1] /\ keys' = keys + 1
  /\ UNCHANGED <<tried, torn, bypassed>>

\* snfMatterPubKeyGet: the peer's parameters are dropped first; then it fails
\* with the old key still there but not ready, or with nothing left.
PubKeyGet ==
  LET dropped == [session EXCEPT !.peer = FALSE, !.mixed = FALSE] IN
  /\ \/ session' = [dropped EXCEPT !.local = TRUE, !.own = keys + 1] /\ keys' = keys + 1
     \/ session' = [dropped EXCEPT !.local = FALSE] /\ UNCHANGED keys
     \/ session' = NoSession /\ keys' = keys + 1
  /\ UNCHANGED <<tried, torn, bypassed>>

\* snfMatterPubKeySet: whole parameters, or a part of them over what was there.
PubKeySet ==
  /\ \/ session' = [session EXCEPT !.peer = TRUE, !.seen = keys, !.mixed = FALSE]
     \/ session' = [session EXCEPT !.mixed = session.peer]
  /\ UNCHANGED <<keys, tried, torn, bypassed>>

SessionReady == session.local /\ session.peer

\* snfMatterSecureCertWrite up to the plain text: it is tried with this key.
Decrypt(good) ==
  /\ SessionReady
  /\ good => ~session.mixed
  /\ tried' = tried \union {session.own}
  /\ UNCHANGED <<session, keys, torn, bypassed>>
=============================================================================
