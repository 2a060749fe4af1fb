--------------------------------- MODULE Cli ---------------------------------
(***************************************************************************)
(* The console's task (sonoff_cli.c): one command at a time, each a list   *)
(* of writes carried out in order.  A command that refuses its input, or   *)
(* only reads, changes nothing and is no step.                             *)
(***************************************************************************)
EXTENDS NvdmConfig

CONSTANTS
  MaxCommands,   \* commands given in a behaviour
  Workloads      \* which commands a behaviour may use: sets of their names, and
                 \* of the items that sonoff nvdm write is given

ASSUME CliAssumption == MaxCommands \in Nat

VARIABLES
  console,    \* commands are registered and the receiver is on
  cli,        \* the command in progress and the number of its next write
  commands,   \* commands given so far
  workload    \* the commands of this behaviour

cliVars == <<console, cli, commands, workload>>

NoCommand == [name |-> "none", plan |-> <<>>, next |-> 1]
CertCommands == {"cert_write", "cert_undo"}
LicenceCommands == {"licence_write", "licence_delete"}

CliInit ==
  /\ console = FALSE /\ cli = NoCommand /\ commands = 0
  /\ workload \in Workloads

CliBusy == cli # NoCommand

\* The console hands a command of the workload to its handler.
Given(name) ==
  /\ console /\ ~CliBusy /\ name \in workload
  /\ commands < MaxCommands /\ commands' = commands + 1

Run(name, plan) ==
  /\ Given(name)
  /\ cli' = [name |-> name, plan |-> plan, next |-> 1]
  /\ UNCHANGED <<nvdmVars, console, workload>>

-----------------------------------------------------------------------------
\* AT+LICENSE_WRITE is refused while there is a valid licence, and clears what
\* there is before it looks at the frame.
AtLicenseWrite ==
  /\ ~Complete(LicenceValues)
  /\ \E frame \in LicenseFrames : Run("licence_write", LicenseClear \o LicenseWrite(frame))
  /\ UNCHANGED configVars

AtLicenseDelete == Run("licence_delete", LicenseClear) /\ UNCHANGED configVars

\* AT+MT_FACTORY_DATA_WRITE: the sum is right, some of the fields may not be.
AtMtFactoryDataWrite ==
  /\ \E v \in Inputs, good \in 0 .. Len(FactoryFields) : Run("factory_data", FactoryData(v, good))
  /\ UNCHANGED configVars

AtMtSerialNumSet == (\E v \in Inputs : Run("item", SerialNumberSet(v))) /\ UNCHANGED configVars
AtActiveCode == (\E v \in Inputs : Run("item", ActiveCodeSet(v))) /\ UNCHANGED configVars
AtMtCdWrite == (\E v \in Inputs : Run("item", MatterCdWrite(v))) /\ UNCHANGED configVars
AtMtCdDelete == Run("item", MatterCdClear) /\ UNCHANGED configVars

AtPubKeyGet ==
  /\ Given("cert") /\ PubKeyGet
  /\ UNCHANGED <<nvdmVars, console, cli, workload>>

AtPubKeySet ==
  /\ Given("cert") /\ PubKeySet
  /\ UNCHANGED <<nvdmVars, console, cli, workload>>

\* AT+MT_SECURE_CERT_WRITE.
AtSecureCertWrite ==
  /\ Given("cert")
  /\ \E package \in Inputs, good \in BOOLEAN :
       /\ Decrypt(good)
       /\ cli' = [name |-> "cert_write", next |-> 1,
                  plan |-> IF good THEN SecureCertWrite(package) ELSE <<>>]
  /\ UNCHANGED <<nvdmVars, console, workload>>

AtSecureCertDelete ==
  /\ Given("cert")
  /\ cli' = [name |-> "cert_delete", plan |-> SecureCertClear, next |-> 1]
  /\ UNCHANGED <<nvdmVars, console, workload, configVars>>

SnfNvdmClean == Run("user", CleanUserGroup) /\ UNCHANGED configVars

\* snfNvdmCliWriteItem: any text into any registered item, without a check.  It
\* may be one the item's own setter accepts, or one ("default") it does not.
Typed(i) == Inputs \union {"default"} \union (IF i = "plug.onoff" THEN {"off", "on"} ELSE {})
SnfNvdmWrite ==
  /\ \E i \in Items : \E v \in Typed(i) :
       Given(i) /\ cli' = [name |-> "nvdm_write", plan |-> <<To(i, v)>>, next |-> 1]
  /\ UNCHANGED <<nvdmVars, console, workload, configVars>>

Command ==
  \/ AtLicenseWrite \/ AtLicenseDelete
  \/ AtMtFactoryDataWrite \/ AtMtSerialNumSet \/ AtActiveCode \/ AtMtCdWrite \/ AtMtCdDelete
  \/ AtPubKeyGet \/ AtPubKeySet \/ AtSecureCertWrite \/ AtSecureCertDelete
  \/ SnfNvdmClean \/ SnfNvdmWrite

-----------------------------------------------------------------------------
Writes == cli.next <= Len(cli.plan)
Write == cli.plan[cli.next]

CliWrite ==
  /\ Writes /\ Store(Write.item, Write.value, TRUE)
  /\ cli' = [cli EXCEPT !.next = @ + 1]
  /\ bypassed' = IF cli.name = "nvdm_write" THEN bypassed \union {Write.item}
                                           ELSE bypassed \ {Write.item}
  /\ UNCHANGED <<console, commands, workload, session, keys, tried, torn>>

\* Mutant: a certificate that could not be written is left as it is.
FailNoUndo ==
  /\ Writes /\ Store(Write.item, Write.value, FALSE)
  /\ cli' = [cli EXCEPT !.plan = <<>>, !.next = 1]
  /\ torn' = (torn \/ cli.name = "cert_undo")
  /\ UNCHANGED <<console, commands, workload, session, keys, tried, bypassed>>

\* A write that fails ends the command; of a certificate write, which has by
\* then changed something, it starts the clearing of all three.
CliWriteFails ==
  /\ Writes /\ Store(Write.item, Write.value, FALSE)
  /\ cli' = IF cli.name = "cert_write" /\ cli.next > 1
            THEN [name |-> "cert_undo", plan |-> SecureCertClear, next |-> 1]
            ELSE [cli EXCEPT !.plan = <<>>, !.next = 1]
  /\ torn' = (torn \/ cli.name = "cert_undo")
  /\ UNCHANGED <<console, commands, workload, session, keys, tried, bypassed>>

\* The certificates cannot be read back for want of memory.
ReadbackFails ==
  /\ cli.name = "cert_write" /\ cli.plan # <<>> /\ ~Writes
  /\ cli' = [name |-> "cert_undo", plan |-> SecureCertClear, next |-> 1]
  /\ UNCHANGED <<nvdmVars, console, commands, workload, configVars>>

\* The command answers; a certificate write that came as far as its session ends it.
Return ==
  /\ CliBusy /\ ~Writes /\ cli' = NoCommand
  /\ session' = IF cli.name \in CertCommands THEN NoSession ELSE session
  /\ torn' = (torn /\ ~(cli.name \in {"cert_write", "cert_delete"} /\ cli.plan # <<>>))
  /\ UNCHANGED <<nvdmVars, console, commands, workload, keys, tried, bypassed>>

CliStep == CliWrite \/ CliWriteFails \/ ReadbackFails \/ Return

\* Power is lost: the command ends where it is, the session with it.
CliCut ==
  /\ console' = FALSE /\ cli' = NoCommand
  /\ session' = NoSession
  /\ torn' = (torn \/ cli.name \in CertCommands)
  /\ UNCHANGED <<commands, workload, keys, tried, bypassed>>

-----------------------------------------------------------------------------
Held(items) == [k \in 1 .. Len(items) |-> flash[items[k]]]

\* All that the business checks let in comes from one input; what was written
\* around them may be anything.
OneSource(items) == \A i, j \in ToSet(items) \ bypassed : flash[i] = flash[j]

\* A licence that counts as valid is one frame's, whatever was cut, failed or
\* was written over before: its items carry no mark of the frame they came in.
\* Only an item that sonoff nvdm write wrote last need not belong to it.
LicenceWhole == Complete(LicenceValues) => OneSource(LicenceItems)

\* Three certificates that are all there belong together unless power was lost in
\* a certificate write or its clearing failed as well: one failure is no cause.
\* Only one that sonoff nvdm write wrote last may be another package's.
CertNotMixed ==
  ~CliBusy /\ ~torn /\ Complete(Held(CertItems)) => OneSource(CertItems)

\* A session that is ready decrypts for the first time with its key, and with
\* parameters that were sent for this key.
KeyUsedOnce ==
  ~CliBusy /\ SessionReady => session.own \notin tried /\ session.seen = session.own
=============================================================================
