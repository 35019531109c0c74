----------------------------- MODULE FwElector -----------------------------
(***************************************************************************)
(* The firmware elector, which decides whether the modem has to be         *)
(* customized.  It compares two hashes with the ones stored in persistent  *)
(* properties after the last customization: the one of the blob (a file of *)
(* the system image) and the one of the configuration (the paths of the    *)
(* TLV files, those of the MIU folder included, and of the firmware).  A   *)
(* hash is the value it is computed from.  Control, which calls the        *)
(* elector, is reduced to the order of its calls.                          *)
(***************************************************************************)
EXTENDS Integers, FiniteSets

CONSTANTS
    Blobs, BaseTlvs, MiuTlvs,            \* blob hashes, TLVs of the image, of MIU
    MaxChanges, MaxCrashes, MaxRefusals  \* bounds on what happens around CRM

ASSUME BlobAssumption == "" \notin Blobs

VARIABLES
    files,    \* the file system: hash file, TLVs of the TCS, MIU folder
    blob_key, config_key,   \* CRM_KEY_BLOB_HASH and CRM_KEY_CONFIG_HASH
    nvm,      \* what was last written to the modem: [blob, tlvs], or Mixed
    torn,     \* the target of the last writing, until it is recorded whole
    elector,  \* the context of the elector
    target,   \* what its hash values stand for, once computed
    phase,    \* where control is
    first,    \* CRM_KEY_FIRST_START
    booted,   \* the modem was running when the platform started CRM
    readable, \* CRM_KEY_DATA_PARTITION_ENCRYPTION is trigger_restart_framework
    aborts,   \* failed assertions since the boot of the platform
    env       \* what has happened around CRM: changes, crashes, refusals

keys   == <<blob_key, config_key>>
estate == <<files, keys, nvm, torn, elector, target, phase, first, booted,
            readable, aborts, env>>
world  == <<files, nvm, first, booted, readable, env>>

NoPath == "NULL"
Mixed  == [blob |-> "mixed", tlvs |-> {}]
None   == [blob |-> "none", tlvs |-> {}, fw |-> NoPath]
Config(t) == [tlvs |-> t.tlvs, fw |-> t.fw]
Given(t)  == [blob |-> t.blob, tlvs |-> t.tlvs]
Down   == [are_hashes_readable |-> FALSE, blob |-> "", base |-> {},
           fw_path |-> NoPath]

ElectorInit ==
    /\ files \in [blob : Blobs, base : SUBSET BaseTlvs, miu : SUBSET MiuTlvs,
                  fls : BOOLEAN]
    /\ blob_key = "" /\ config_key = Config(None)
    /\ nvm = Mixed /\ torn = None /\ elector = Down /\ target = None
    /\ phase = "off"
    /\ first = TRUE /\ booted \in BOOLEAN /\ readable \in BOOLEAN
    /\ aborts = 0 /\ env = [changes |-> 0, crashes |-> 0, refusals |-> 0]

-----------------------------------------------------------------------------
(***************************************************************************)
(* CRM starts: the HAL of Sofia stops a running modem unless this is the   *)
(* first start since the boot, and the elector reads its configuration.    *)
(***************************************************************************)
Starts(was, clear) ==
    /\ phase = "off"
    /\ phase' = IF was /\ booted THEN "initial" ELSE "down"
    /\ first' = clear
    /\ elector' = [Down EXCEPT !.are_hashes_readable = readable,
                               !.blob = IF readable THEN files.blob ELSE "",
                               !.base = files.base]
    /\ target' = None
    /\ UNCHANGED <<files, keys, nvm, torn, booted, readable, aborts, env>>

crm_fw_elector_init == Starts(first, FALSE)

\* get_fw_path(), for a package: the MIU folder comes first.
search_fw == IF files.fls THEN "miu" ELSE "vendor"

get_fw_path == /\ phase \in {"down", "up"} /\ phase' = "booting"
               /\ elector' = [elector EXCEPT !.fw_path = search_fw]
               /\ UNCHANGED <<keys, torn, target, aborts, world>>

\* update_miu_tlvs() and compute_config_hash()
Target == [blob |-> elector.blob, tlvs |-> elector.base \cup files.miu,
           fw |-> elector.fw_path]

is_hash_equal(t) == blob_key = t.blob /\ config_key = Config(t)

(***************************************************************************)
(* get_tlv_list(), called by mdm_cfg() once the modem runs: at the first   *)
(* start of CRM that may be before any firmware path is known.             *)
(***************************************************************************)
get_tlv_list ==
    /\ phase \in {"initial", "booting"}
    /\ IF ~elector.are_hashes_readable
       THEN phase' = "up" /\ UNCHANGED <<target, aborts>>
       ELSE IF elector.fw_path = NoPath
       THEN phase' = "off" /\ aborts' = aborts + 1 /\ UNCHANGED target
       ELSE /\ target' = Target
            /\ phase' = IF is_hash_equal(Target) \/ Target.tlvs = {}
                        THEN "up" ELSE "customizing"
            /\ UNCHANGED aborts
    /\ UNCHANGED <<keys, torn, elector, world>>

\* The customization plugin writes the TLVs; the modem may refuse one.
WritesBegin == /\ phase = "customizing" /\ phase' = "writing"
               /\ nvm' = Mixed /\ torn' = target
               /\ UNCHANGED <<files, keys, elector, target, first, booted, readable,
                              aborts, env>>

WritesEnd == /\ phase = "writing" /\ phase' = "applied"
             /\ nvm' = Given(target)
             /\ UNCHANGED <<files, keys, torn, elector, target, first, booted, readable,
                            aborts, env>>

WriteRefused == /\ phase = "writing" /\ phase' = "refused"
                /\ env.refusals < MaxRefusals
                /\ env' = [env EXCEPT !.refusals = @ + 1]
                /\ UNCHANGED <<files, keys, nvm, torn, elector, target, first, booted,
                               readable, aborts>>

\* load_tlv_file(): a file listed has gone, before it was read.
LoadFails == /\ phase = "writing" /\ phase' = "off"
             /\ ~(target.tlvs \subseteq Target.tlvs)
             /\ UNCHANGED <<files, keys, nvm, torn, elector, target, first, booted,
                            readable, aborts, env>>

\* The modem fails, and control restarts it without a word to the elector.
ModemFails == /\ phase \in {"booting", "customizing", "writing"} /\ phase' = "down"
              /\ env.refusals < MaxRefusals
              /\ env' = [env EXCEPT !.refusals = @ + 1]
              /\ UNCHANGED <<files, keys, nvm, torn, elector, target, first, booted,
                             readable, aborts>>

\* Mutants: the hashes are stored whatever the status, or only the first one is.
notify_tlv_applied_Always ==
    /\ phase \in {"applied", "refused"} /\ phase' = "storing"
    /\ blob_key' = elector.blob /\ UNCHANGED config_key
    /\ UNCHANGED <<torn, elector, target, aborts, world>>

SecondSet_Lost ==
    /\ phase = "storing" /\ phase' = "down"
    /\ UNCHANGED <<keys, torn, elector, target, aborts, world>>

\* notify_tlv_applied(), called by reset_after_tlv() and by custo_failure(): two
\* properties are set, one after the other, if the status is 0.
notify_tlv_applied ==
    /\ phase \in {"applied", "refused"}
    /\ IF phase = "applied"
       THEN phase' = "storing" /\ blob_key' = elector.blob
       ELSE phase' = "down" /\ UNCHANGED blob_key
    /\ UNCHANGED <<config_key, torn, elector, target, aborts, world>>

SecondSet ==
    /\ phase = "storing" /\ phase' = "down"
    /\ config_key' = Config(target) /\ torn' = None
    /\ UNCHANGED <<blob_key, target, elector, aborts, world>>

-----------------------------------------------------------------------------
\* CRM ends at any time, to be started again,
Crash == /\ phase # "off" /\ phase' = "off"
         /\ env.crashes < MaxCrashes /\ env' = [env EXCEPT !.crashes = @ + 1]
         /\ UNCHANGED <<files, keys, nvm, torn, elector, target, first, booted, readable,
                        aborts>>

\* the MIU folder is written at any time,
MiuChanges == /\ env.changes < MaxChanges /\ env' = [env EXCEPT !.changes = @ + 1]
              /\ \E m \in SUBSET MiuTlvs, f \in BOOLEAN :
                    files' = [files EXCEPT !.miu = m, !.fls = f]
              /\ UNCHANGED <<keys, nvm, torn, elector, target, phase, first, booted,
                             readable, aborts>>

\* the data partition is decrypted,
Decrypts == /\ ~readable /\ readable' = TRUE
            /\ UNCHANGED <<files, keys, nvm, torn, elector, target, phase, first, booted,
                           aborts, env>>

\* and the platform boots, perhaps with another system image.
Boots == /\ phase = "off"
         /\ env.changes < MaxChanges /\ env' = [env EXCEPT !.changes = @ + 1]
         /\ \E b \in Blobs, t \in SUBSET BaseTlvs :
               files' = [files EXCEPT !.blob = b, !.base = t]
         /\ first' = TRUE /\ booted' \in BOOLEAN /\ readable' \in BOOLEAN
         /\ aborts' = 0
         /\ UNCHANGED <<keys, nvm, torn, elector, target, phase>>

ElectorStep == \/ crm_fw_elector_init \/ get_fw_path \/ get_tlv_list
               \/ WritesBegin \/ WritesEnd \/ notify_tlv_applied \/ SecondSet
Outside == \/ WriteRefused \/ LoadFails \/ ModemFails \/ Crash
           \/ MiuChanges \/ Decrypts \/ Boots
ElectorNext == ElectorStep \/ Outside

ElectorSpec == ElectorInit /\ [][ElectorNext]_estate /\ WF_estate(ElectorStep)

-----------------------------------------------------------------------------
(***************************************************************************)
(* A modem that get_tlv_list() leaves as it is has been given the TLVs     *)
(* that are wanted, whatever crash, refusal or change of files came        *)
(* before.  The exception: an earlier customization of another target was  *)
(* written and not recorded whole, and the configuration has since gone    *)
(* back to what the stored hashes describe.                                *)
(***************************************************************************)
LeftIsApplied ==
    phase = "up" /\ elector.are_hashes_readable /\ target.tlvs # {} =>
        \/ nvm = Given(target)
        \/ torn \notin {None, target}

(***************************************************************************)
(* The assertion on the firmware path fails at most once between two boots *)
(* of the platform: CRM does not start again and again into it.            *)
(***************************************************************************)
AbortsOnce == aborts <= 1

(***************************************************************************)
(* CRM does not customize and reset the modem for ever: again and again    *)
(* the modem is up.                                                        *)
(***************************************************************************)
ComesUp == []<>(phase = "up")
=============================================================================
