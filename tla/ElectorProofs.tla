--------------------------- MODULE ElectorProofs ---------------------------
(***************************************************************************)
(* Theorems about the firmware elector.                                    *)
(***************************************************************************)
EXTENDS FwElector, TLAPS

Working == {"writing", "applied", "refused", "storing"}

(***************************************************************************)
(* The stored hashes describe what the modem has been given as long as no  *)
(* writing is unrecorded; if one is, and the stored hashes are its own,    *)
(* they describe it too.                                                   *)
(***************************************************************************)
Records ==
    /\ torn = None /\ blob_key # "" =>
          nvm = [blob |-> blob_key, tlvs |-> config_key.tlvs]
    /\ torn # None /\ is_hash_equal(torn) => nvm = Given(torn)

\* Where control is in a writing.
Progress ==
    /\ phase \in Working \cup {"customizing"} =>
          target # None /\ target.blob = elector.blob
    /\ phase \in Working => torn = target
    /\ phase \in {"customizing", "writing", "refused"} => ~is_hash_equal(target)
    /\ phase \in {"applied", "storing"} => nvm = Given(target)
    /\ phase = "storing" => blob_key = elector.blob
    /\ phase = "up" /\ elector.are_hashes_readable /\ target.tlvs # {} =>
          is_hash_equal(target) /\ target.blob = elector.blob

\* A hash of the blob is known exactly when the hashes can be read.
Known ==
    /\ files \in [blob : Blobs, base : SUBSET BaseTlvs, miu : SUBSET MiuTlvs,
                  fls : BOOLEAN]
    /\ elector \in [are_hashes_readable : BOOLEAN, blob : {""} \cup Blobs,
                    base : SUBSET BaseTlvs, fw_path : {NoPath, "miu", "vendor"}]
    /\ elector.are_hashes_readable => elector.blob # ""
    /\ readable \in BOOLEAN

ElectorInv == Known /\ Records /\ Progress

-----------------------------------------------------------------------------
LEMMA InitInv == ElectorInit => ElectorInv
<1> SUFFICES ASSUME ElectorInit PROVE ElectorInv
  OBVIOUS
<1>1. Known
  BY DEF ElectorInit, Known, Down, NoPath
<1>2. Records /\ Progress
  BY DEF ElectorInit, Records, Progress, Working, None
<1> QED BY <1>1, <1>2 DEF ElectorInv

\* A step that leaves the keys, the modem and what is known of them alone, and
\* does not go on with a writing.
LEMMA IdleRecords ==
    ASSUME Records, UNCHANGED <<keys, nvm, torn>> PROVE Records'
BY DEF Records, keys, is_hash_equal, Given, Config, None, NoPath

LEMMA IdleProgress ==
    ASSUME Progress, UNCHANGED <<keys, nvm, torn, elector, target>>,
           phase' \in {phase, "off", "down"} \/ (phase = "writing" /\ phase' = "refused")
    PROVE  Progress'
BY DEF Progress, Working, keys, is_hash_equal, Given, Config, None, NoPath

\* What the steps of the world around CRM leave alone.
LEMMA OutsideInv == ASSUME ElectorInv, Outside PROVE ElectorInv'
<1>1. UNCHANGED <<keys, nvm, torn, elector, target>>
  BY DEF Outside, WriteRefused, LoadFails, ModemFails, Crash, MiuChanges, Decrypts, Boots
<1>2. phase' \in {phase, "off", "down"} \/ (phase = "writing" /\ phase' = "refused")
  BY DEF Outside, WriteRefused, LoadFails, ModemFails, Crash, MiuChanges, Decrypts, Boots
<1>3. readable' \in BOOLEAN
  BY DEF Outside, WriteRefused, LoadFails, ModemFails, Crash, MiuChanges, Decrypts, Boots,
         ElectorInv, Known
<1>4. files' \in [blob : Blobs, base : SUBSET BaseTlvs, miu : SUBSET MiuTlvs,
                  fls : BOOLEAN]
  <2>1. CASE MiuChanges
    BY <2>1 DEF MiuChanges, ElectorInv, Known
  <2>2. CASE Boots
    BY <2>2 DEF Boots, ElectorInv, Known
  <2> QED BY <2>1, <2>2 DEF Outside, WriteRefused, LoadFails, ModemFails, Crash, Decrypts,
             ElectorInv, Known
<1>5. Known'
  BY <1>1, <1>3, <1>4 DEF ElectorInv, Known
<1> QED BY <1>1, <1>2, <1>5, IdleRecords, IdleProgress DEF ElectorInv

\* The decision: what is left alone is what the stored hashes describe.
LEMMA DecisionInv == ASSUME ElectorInv, get_tlv_list PROVE ElectorInv'
<1>1. UNCHANGED <<keys, nvm, torn, elector, files, readable>>
  BY DEF get_tlv_list, world
<1>2. Known'
  BY <1>1 DEF ElectorInv, Known
<1>3. CASE elector.are_hashes_readable /\ elector.fw_path # NoPath
  <2>1. target' = Target
    BY <1>3 DEF get_tlv_list
  <2>2. Target # None /\ Target.blob = elector.blob
    BY <1>3 DEF None, Target
  <2>3. phase' \in {"up", "customizing"}
    BY <1>3 DEF get_tlv_list
  <2>4. phase' = "customizing" => ~is_hash_equal(Target)
    BY <1>3 DEF get_tlv_list
  <2>5. phase' = "up" => is_hash_equal(Target) \/ Target.tlvs = {}
    BY <1>3 DEF get_tlv_list
  <2>6. is_hash_equal(Target) <=> is_hash_equal(target)'
    BY <1>1, <2>1 DEF is_hash_equal, keys, Config
  <2>7. None' = None
    BY DEF None, NoPath
  <2> QED BY <1>1, <1>2, <2>1, <2>2, <2>3, <2>4, <2>5, <2>6, <2>7, IdleRecords
          DEF ElectorInv, Progress, Working
<1>4. CASE ~(elector.are_hashes_readable /\ elector.fw_path # NoPath)
  <2>1. phase' = "off" \/ (phase' = "up" /\ ~elector.are_hashes_readable)
    BY <1>4 DEF get_tlv_list
  <2> QED BY <1>1, <1>2, <2>1, IdleRecords DEF ElectorInv, Progress, Working
<1> QED BY <1>3, <1>4

LEMMA StartInv ==
    ASSUME ElectorInv, crm_fw_elector_init \/ get_fw_path PROVE ElectorInv'
<1>1. UNCHANGED <<keys, nvm, torn, files, readable>> /\ phase' \in {"initial", "down", "booting"}
  BY DEF crm_fw_elector_init, Starts, get_fw_path, world
<1>2. CASE crm_fw_elector_init
  <2>1. Known'
    BY <1>1, <1>2, BlobAssumption
       DEF crm_fw_elector_init, Starts, Down, NoPath, ElectorInv, Known
  <2> QED BY <1>1, <2>1, IdleRecords DEF ElectorInv, Progress, Working
<1>3. CASE get_fw_path
  <2>1. Known'
    BY <1>1, <1>3 DEF get_fw_path, search_fw, ElectorInv, Known
  <2> QED BY <1>1, <2>1, IdleRecords DEF ElectorInv, Progress, Working
<1> QED BY <1>2, <1>3

\* The writing and its record, property by property.
LEMMA WritingInv ==
    ASSUME ElectorInv, WritesBegin \/ WritesEnd \/ notify_tlv_applied \/ SecondSet
    PROVE  ElectorInv'
<1>1. UNCHANGED <<elector, target, files, readable>>
  BY DEF WritesBegin, WritesEnd, notify_tlv_applied, SecondSet, world
<1>2. Known'
  BY <1>1 DEF ElectorInv, Known
<1>3. CASE WritesBegin
  <2>1. Records' /\ Progress'
    BY <1>1, <1>3 DEF WritesBegin, ElectorInv, Records, Progress, Working, keys,
                      is_hash_equal, Config, None, NoPath
  <2> QED BY <1>2, <2>1 DEF ElectorInv
<1>4. CASE WritesEnd
  <2>1. Records' /\ Progress'
    BY <1>1, <1>4 DEF WritesEnd, ElectorInv, Records, Progress, Working, keys,
                      is_hash_equal, Given, Config, None, NoPath
  <2> QED BY <1>2, <2>1 DEF ElectorInv
<1>5. CASE notify_tlv_applied /\ phase = "applied"
  <2>1. /\ torn = target /\ target # None /\ nvm = Given(target)
        /\ target.blob = elector.blob
    BY <1>5 DEF ElectorInv, Progress, Working
  <2>2. /\ UNCHANGED <<nvm, torn, config_key>> /\ blob_key' = elector.blob
        /\ phase' = "storing"
    BY <1>5 DEF notify_tlv_applied, world
  <2>3. Records'
    BY <1>1, <2>1, <2>2 DEF Records, Given, None, NoPath
  <2>4. Progress'
    BY <1>1, <2>1, <2>2 DEF Progress, Working, Given, None, NoPath
  <2> QED BY <1>2, <2>3, <2>4 DEF ElectorInv
<1>6. CASE notify_tlv_applied /\ phase # "applied"
  <2>1. UNCHANGED <<keys, nvm, torn>> /\ phase' = "down"
    BY <1>6 DEF notify_tlv_applied, world, keys
  <2> QED BY <1>1, <1>2, <2>1, IdleRecords, IdleProgress DEF ElectorInv
<1>7. CASE SecondSet
  <2>1. /\ nvm = Given(target) /\ target.blob = elector.blob
        /\ blob_key = elector.blob
    BY <1>7 DEF SecondSet, ElectorInv, Progress, Working
  <2>2. /\ UNCHANGED <<nvm, blob_key>> /\ torn' = None /\ phase' = "down"
        /\ config_key' = Config(target)
    BY <1>7 DEF SecondSet, world
  <2>3. Records'
    BY <1>1, <2>1, <2>2 DEF Records, Given, Config, None, NoPath
  <2>4. Progress'
    BY <1>1, <2>1, <2>2 DEF Progress, Working
  <2> QED BY <1>2, <2>3, <2>4 DEF ElectorInv
<1> QED BY <1>3, <1>4, <1>5, <1>6, <1>7

LEMMA StutterInv == ASSUME ElectorInv, UNCHANGED estate PROVE ElectorInv'
<1>1. Known'
  BY DEF estate, ElectorInv, Known
<1> QED BY <1>1, IdleRecords, IdleProgress DEF estate, ElectorInv

LEMMA StepInv == ElectorInv /\ [ElectorNext]_estate => ElectorInv'
BY OutsideInv, DecisionInv, StartInv, WritingInv, StutterInv
   DEF ElectorNext, ElectorStep

(***************************************************************************)
(* get_tlv_list() leaves a modem alone only if it has the wanted TLVs, or  *)
(* if another target was written and not recorded: for all sets of files   *)
(* and any number of crashes, refusals and changes.                        *)
(***************************************************************************)
THEOREM LeftAlone == ElectorSpec => []LeftIsApplied
<1>1. ElectorInv => LeftIsApplied
  <2> SUFFICES ASSUME ElectorInv, phase = "up", elector.are_hashes_readable,
                      target.tlvs # {}, torn \in {None, target}
               PROVE  nvm = Given(target)
    BY DEF LeftIsApplied
  <2>1. is_hash_equal(target) /\ target.blob = elector.blob /\ elector.blob # ""
    BY DEF ElectorInv, Progress, Known
  <2>2. CASE torn = None
    BY <2>1, <2>2 DEF ElectorInv, Records, is_hash_equal, Given, Config
  <2>3. CASE torn # None
    BY <2>1, <2>3 DEF ElectorInv, Records
  <2> QED BY <2>2, <2>3
<1> QED BY InitInv, StepInv, <1>1, PTL DEF ElectorSpec

\* A start that finds the modem running is the first one since the boot.
OnceInv == /\ aborts \in Nat /\ aborts <= 1
           /\ first => aborts = 0
           /\ phase = "initial" => aborts = 0 /\ ~first
           /\ phase # "off" => ~first
           /\ phase = "booting" => elector.fw_path # NoPath

(***************************************************************************)
(* The assertion on the firmware path fails at most once between two boots *)
(* of the platform.                                                        *)
(***************************************************************************)
THEOREM FailsOnce == ElectorSpec => []AbortsOnce
<1>1. ElectorInit => OnceInv
  <2>1. ElectorInit => aborts = 0 /\ phase = "off"
    BY DEF ElectorInit
  <2> QED BY <2>1 DEF OnceInv
<1>2. ElectorInv /\ OnceInv /\ [ElectorNext]_estate => OnceInv'
  <2> SUFFICES ASSUME ElectorInv, OnceInv, [ElectorNext]_estate PROVE OnceInv'
    OBVIOUS
  <2>1. CASE get_tlv_list
    BY <2>1 DEF get_tlv_list, world, OnceInv, NoPath
  <2>2. CASE get_fw_path
    <3>1. elector'.fw_path # NoPath
      BY <2>2 DEF get_fw_path, search_fw, NoPath, ElectorInv, Known
    <3> QED BY <2>2, <3>1 DEF get_fw_path, world, OnceInv, NoPath
  <2>3. CASE crm_fw_elector_init
    BY <2>3 DEF crm_fw_elector_init, Starts, OnceInv
  <2>4. CASE WritesBegin \/ WritesEnd
    BY <2>4 DEF WritesBegin, WritesEnd, OnceInv
  <2>5. CASE notify_tlv_applied \/ SecondSet
    BY <2>5 DEF notify_tlv_applied, SecondSet, world, OnceInv
  <2>6. CASE Outside
    <3>1. CASE Boots
      <4>1. aborts' = 0 /\ phase' = "off"
        BY <3>1 DEF Boots
      <4> QED BY <4>1 DEF OnceInv
    <3>2. CASE ~Boots
      <4>1. UNCHANGED <<aborts, first, elector>> /\ phase' \in {phase, "off", "down", "refused"}
        BY <2>6, <3>2 DEF Outside, WriteRefused, LoadFails, ModemFails, Crash, MiuChanges, Decrypts
      <4>2. phase' # "off" => phase # "off"
        BY <2>6, <3>2 DEF Outside, WriteRefused, LoadFails, ModemFails, Crash, MiuChanges, Decrypts
      <4> QED BY <4>1, <4>2 DEF OnceInv, NoPath
    <3> QED BY <3>1, <3>2
  <2>7. CASE UNCHANGED estate
    BY <2>7 DEF estate, OnceInv, NoPath
  <2> QED BY <2>1, <2>2, <2>3, <2>4, <2>5, <2>6, <2>7 DEF ElectorNext, ElectorStep
<1>3. OnceInv => AbortsOnce
  BY DEF OnceInv, AbortsOnce
<1> QED BY InitInv, StepInv, <1>1, <1>2, <1>3, PTL DEF ElectorSpec
=============================================================================
