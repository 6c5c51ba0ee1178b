------------------------------- MODULE Clients -------------------------------
(***************************************************************************)
(* Two clients of the block store and what power cuts and each other's     *)
(* patches leave of their data: the test audit log (src/test-audit.c),     *)
(* which the shell appends to in two patches, and the configuration        *)
(* (src/userconfig.c), whose cache in RAM the event thread flushes once a  *)
(* second.                                                                 *)
(*                                                                         *)
(* The sectors are those of Storage, and so is the choice of the sector    *)
(* that is recycled; a storagePatchData is one step here, or a power cut   *)
(* in the middle of it.  storageGetData returns a pointer into the flash:  *)
(* auditUpdate keeps one across its first patch, and whether that sector   *)
(* still is a copy of the log when it is read again depends on who patches *)
(* in between.                                                             *)
(***************************************************************************)
EXTENDS Integers, FiniteSets

CONSTANTS
  SectorCount,  (* SECTOR_COUNT                                            *)
  Audit, Config,   (* AUDIT_BLOCK, CONFIG_BLOCK                            *)
  Entries,      (* entries there is room for in the log                    *)
  Results,      (* what a test can say                                     *)
  Tests,        (* the tests, each of one type                             *)
  Settings,     (* what the one configuration field is set to              *)
  Blank,        (* the erased word 0xFFFFFFFF, and a header cut short      *)
  Sig,          (* a valid signature, and version                          *)
  Zero,         (* a word of the entry an empty log starts with            *)
  Default,      (* what init_config sets it to                             *)
  Youngest,     (* JOURNAL_YOUNGEST                                        *)
  Moves,        (* bound: how often a block is relocated                   *)
  Cuts          (* bound: losses of power                                  *)

(* The erased word is no signature, no test or result, and no number of    *)
(* entries the log has room for.                                           *)
ASSUME ClientsAssumption ==
  /\ SectorCount \in Nat \ 0..3
  /\ Audit # Config /\ Blank \notin {Audit, Config}
  /\ Entries \in Nat \ {0}
  /\ Default \in Settings
  /\ Blank \notin Tests \cup Results \cup {Sig} \cup 0..Entries
  /\ {"none", "unknown"} \cap Results = {}
  /\ Youngest \in Nat /\ Moves \in [{Audit, Config} -> 0..Youngest]
  /\ Cuts \in Nat

(* Words of a block.  The audit log: entry_count, signature, and for each  *)
(* entry its type and result, then its name.  The configuration: signature *)
(* and version, then the field.                                            *)
Words == 2 + 2 * Entries
Word == 0..(Words - 1)
Count == 0
AuditSig == 1
Head(i) == 2 + 2 * i
Name(i) == 3 + 2 * i
ConfigSig == 0
Field == 1

VARIABLES
  flash,        (* the sectors                                             *)
  running,      (* what has been started since power came on               *)
  cache,        (* config_cache                                            *)
  patch,        (* the storagePatchData under way, if any                  *)
  shell,        (* the auditUpdate under way: its test, result and pointer *)
  cuts,         (* losses of power so far                                  *)
  last,         (* result of each test as last recorded, and not cut since *)
  saved         (* the field as last flushed, and not cut since            *)

vars == <<flash, running, cache, patch, shell, cuts, last, saved>>

Store == INSTANCE Storage WITH
  Threads <- {}, Blocks <- {Audit, Config}, Values <- {}, NoBlock <- Blank,
  op <- <<>>

-----------------------------------------------------------------------------
(* A patch: the words in DOMAIN ws of block b.                             *)

(* Mutant of Current: the larger journal number is taken for the newer.    *)
CurrentOldest(b) ==
  CHOOSE s \in Store!Versions(b) : \A r \in Store!Versions(b) : flash[s].rev >= flash[r].rev

(* The copy that storageGetData finds.                                     *)
Current(b) == CHOOSE s \in Store!Newest(b) : TRUE
Data(b) == flash[Current(b)].data
Exists(b) == Store!Versions(b) # {}

InPlace(b, ws) == \A w \in DOMAIN ws : Data(b)[w] = Blank

Merged(b, ws) == [w \in Word |-> IF w \in DOMAIN ws THEN ws[w] ELSE Data(b)[w]]

(* The new contents up to word n, then what was below it.                  *)
Upto(new, n, below) == [w \in Word |-> IF w < n THEN new[w] ELSE below[w]]

Signed(b, rev, data) == [sig |-> TRUE, block |-> b, rev |-> rev, data |-> data]

(* find_empty_sector.                                                      *)
Recycled == UNION {Store!EmptySectors(garbage) : garbage \in BOOLEAN}

(* A sector that is erased for block b, or whose header is cut short: after *)
(* the signature, or before the journal number.                            *)
Begun(b) ==
  {Store!Erased} \cup {Signed(c, Store!JournalInvalid, Store!BlankContent) : c \in {Blank, b}}

(* The flash when storagePatchData has returned, and when power was cut    *)
(* within it: after the erase, within the header, or within the data.      *)
Patched(b, ws) ==
  IF InPlace(b, ws) THEN {[flash EXCEPT ![Current(b)].data = Merged(b, ws)]}
  ELSE {[flash EXCEPT ![s] = Signed(b, flash[Current(b)].rev - 1, Merged(b, ws))] : s \in Recycled}

Torn(b, ws) ==
  IF InPlace(b, ws)
  THEN {[flash EXCEPT ![Current(b)].data = Upto(Merged(b, ws), n, Data(b))] : n \in 0..Words}
  ELSE {[flash EXCEPT ![s] = h] :
          s \in Recycled,
          h \in Begun(b)
                \cup {Signed(b, flash[Current(b)].rev - 1,
                             Upto(Merged(b, ws), n, Store!BlankContent)) : n \in 0..Words}}

(* Mutant of CanPatch: the journal number is not checked.                  *)
CanPatchAlways(b) == TRUE

(* The journal number can go down, and the bound allows it.                *)
CanPatch(b) == flash[Current(b)].rev > Youngest - Moves[b]

(* storageGetData of a block no sector holds.                              *)
Created(b) == {[flash EXCEPT ![s] = Signed(b, Youngest, Store!BlankContent)] : s \in Recycled}

-----------------------------------------------------------------------------
(* The audit log.                                                          *)

(* Mutant of Counted: the last entry is left out.                          *)
CountedShort(log) ==
  IF log[Count] \in Nat THEN {i \in 0..(Entries - 1) : i + 1 < log[Count]} ELSE {}

(* The entries the loops of find_audit_entry and auditCheck look at.       *)
Counted(log) == IF log[Count] \in Nat THEN {i \in 0..(Entries - 1) : i < log[Count]} ELSE {}

(* find_audit_entry: type and name must match.                             *)
Found(log, t) == {i \in Counted(log) : log[Head(i)] \in Results /\ log[Name(i)] = t}

Idle == [pc |-> "idle", test |-> Blank, result |-> Blank, log |-> 0]

(* init_audit. *)
EmptyLog == [w \in {Count, AuditSig, Head(0), Name(0)} |->
               IF w = Count THEN 0 ELSE IF w = AuditSig THEN Sig ELSE Zero]

Entry(i, t, r) == [w \in {Head(i), Name(i)} |-> IF w = Head(i) THEN r ELSE t]

(* Mutant of AppendPatch: the new entry overwrites the last one counted.   *)
AppendPatchLast(t, r) == Entry(IF Data(Audit)[Count] > 0 THEN Data(Audit)[Count] - 1 ELSE 0, t, r)

(* The two patches of auditUpdate for a test that has no entry: the entry, *)
(* then entry_count, which is read through the pointer of before.          *)
AppendPatch(t, r) == Entry(Data(Audit)[Count], t, r)

CountPatch == [w \in {Count} |-> flash[shell.log].data[Count] + 1]

(* What that pointer shows still is a copy of the log.                     *)
Valid == flash[shell.log].sig /\ flash[shell.log].block = Audit

(* ... and the one for a test that has one.                                *)
RewritePatch(t, r) == Entry(CHOOSE i \in Found(Data(Audit), t) : TRUE, t, r)

(* The check for space compares with BLOCK_SIZE, which counts the header   *)
(* of the sector: it lets one entry more pass than there is room for.      *)
Refused == Data(Audit)[Count] > Entries

-----------------------------------------------------------------------------
(* The configuration: init_config, and what configLazyFlush writes.        *)

Configured(setting) == [w \in {ConfigSig, Field} |-> IF w = ConfigSig THEN Sig ELSE setting]

Defaults == Configured(Default)

FlushPatch == Configured(cache)

Dirty == Data(Config)[Field] # cache

-----------------------------------------------------------------------------
Up == running = {Audit, Config}

(* The event thread preempts a command of the shell also between its two   *)
(* patches.                                                                *)
Free == patch = {} /\ shell.pc \in {"idle", "appended"}

Write(b, ws) == CanPatch(b) /\ patch' = {[block |-> b, words |-> ws]}

(* auditStart and configStart: create the block, give it its first         *)
(* contents, go on.                                                        *)
Start(b, sig, contents) ==
  /\ patch = {} /\ b \notin running
  /\ UNCHANGED <<shell, cuts, last, saved>>
  /\ \/ ~Exists(b) /\ flash' \in Created(b) /\ UNCHANGED <<running, cache, patch>>
     \/ Exists(b) /\ Data(b)[sig] # Sig /\ Write(b, contents) /\ UNCHANGED <<flash, running, cache>>
     \/ /\ Exists(b) /\ Data(b)[sig] = Sig
        /\ running' = running \cup {b}
        /\ cache' = IF b = Config THEN Data(b)[Field] ELSE cache
        /\ UNCHANGED <<flash, patch>>

StartAudit == Start(Audit, AuditSig, EmptyLog)
StartConfig == Audit \in running /\ Start(Config, ConfigSig, Defaults)

(* auditUpdate, which the shell runs after each test.                      *)
AuditUpdate ==
  /\ Up /\ patch = {} /\ shell.pc = "idle"
  /\ \E t \in Tests, r \in Results :
       \/ /\ Found(Data(Audit), t) = {} /\ ~Refused
          /\ IF Data(Audit)[Count] < Entries
             THEN /\ Write(Audit, AppendPatch(t, r))
                  /\ shell' = [pc |-> "append", test |-> t, result |-> r, log |-> Current(Audit)]
             ELSE shell' = [Idle EXCEPT !.pc = "overrun"] /\ UNCHANGED patch
       \/ /\ Found(Data(Audit), t) # {}
          /\ Write(Audit, RewritePatch(t, r))
          /\ shell' = [pc |-> "update", test |-> t, result |-> r, log |-> Current(Audit)]
  /\ UNCHANGED <<flash, running, cache, cuts, last, saved>>

AuditCount ==
  /\ patch = {} /\ shell.pc = "appended"
  /\ \/ Valid /\ Write(Audit, CountPatch) /\ shell' = [shell EXCEPT !.pc = "update"]
     \/ ~Valid /\ shell' = [Idle EXCEPT !.pc = "stale"] /\ UNCHANGED patch
  /\ UNCHANGED <<flash, running, cache, cuts, last, saved>>

(* A setting: by the shell, or by a packet.                                *)
Set ==
  /\ Up /\ Free
  /\ cache' \in Settings
  /\ UNCHANGED <<flash, running, patch, shell, cuts, last, saved>>

(* configLazyFlush, in the charge check.                                   *)
LazyFlush ==
  /\ Up /\ Free /\ Dirty
  /\ Write(Config, FlushPatch)
  /\ UNCHANGED <<flash, running, cache, shell, cuts, last, saved>>

(* storagePatchData returns: to init_audit, to auditUpdate, or to          *)
(* init_config or configLazyFlush.                                         *)
Return ==
  \E p \in patch :
    /\ flash' \in Patched(p.block, p.words)
    /\ patch' = {}
    /\ IF p.block = Audit
       THEN /\ shell' = CASE shell.pc = "append" -> [shell EXCEPT !.pc = "appended"]
                          [] OTHER -> Idle
            /\ last' = CASE shell.pc = "update" -> [last EXCEPT ![shell.test] = shell.result]
                         [] shell.pc = "idle" -> [t \in Tests |-> "none"]
                         [] OTHER -> last
            /\ UNCHANGED saved
       ELSE saved' = p.words[Field] /\ UNCHANGED <<shell, last>>
    /\ UNCHANGED <<running, cache, cuts>>

(* Power goes.  A block that was being moved may have lost words.          *)
PowerCut ==
  /\ cuts < Cuts /\ cuts' = cuts + 1
  /\ \/ UNCHANGED <<flash, last, saved>>
     \/ \E p \in patch :
          /\ flash' \in Torn(p.block, p.words)
          /\ last' = IF p.block = Audit /\ ~InPlace(Audit, p.words)
                     THEN [t \in Tests |-> "unknown"] ELSE last
          /\ saved' = IF p.block = Config THEN Blank ELSE saved
     \/ /\ \E b \in {Audit, Config} :
             /\ b \notin running /\ ~Exists(b) /\ (b = Config => Audit \in running)
             /\ flash' \in {[flash EXCEPT ![s] = h] : s \in Recycled, h \in Begun(b)}
        /\ UNCHANGED <<last, saved>>
  /\ running' = {} /\ patch' = {} /\ shell' = Idle /\ cache' = Default

(* A cube that leaves the factory.  Power comes on.                        *)
Init ==
  /\ flash = [s \in Store!Sector |-> Store!Erased]
  /\ running = {} /\ cache = Default /\ patch = {} /\ shell = Idle /\ cuts = 0
  /\ last = [t \in Tests |-> "unknown"] /\ saved = Blank

Next == \/ StartAudit \/ StartConfig \/ AuditUpdate \/ AuditCount
        \/ Set \/ LazyFlush \/ Return \/ PowerCut

Spec == Init /\ [][Next]_vars

-----------------------------------------------------------------------------
(* The sectors keep their form, and every journal number its range.        *)
TypeOK ==
  /\ \A s \in Store!Sector :
       /\ flash[s].block \in {Audit, Config, Blank} /\ flash[s].sig \in BOOLEAN
       /\ flash[s].rev \in 0..(Youngest + 1) /\ DOMAIN flash[s].data = Word
  /\ running \subseteq {Audit, Config} /\ cache \in Settings \cup {Blank}
  /\ Cardinality(patch) <= 1
  /\ shell.pc \in {"idle", "append", "appended", "update", "overrun", "stale"}
  /\ saved \in Settings \cup {Blank}
  /\ last \in [Tests -> Results \cup {"none", "unknown"}]

(* Whenever power was cut, and whatever else was patched, the log has what *)
(* auditUpdate last recorded for each test, once: only a cut within a      *)
(* relocation of the log itself may take entries away.                     *)
AuditTruth ==
  Up /\ patch = {} /\ shell.pc = "idle" =>
    \A t \in Tests :
      /\ last[t] = "none" => Found(Data(Audit), t) = {}
      /\ last[t] \in Results =>
           \E i \in Found(Data(Audit), t) : Data(Audit)[Head(i)] = last[t]

(* ... and not even then two entries for one test.                         *)
OneEntry ==
  Exists(Audit) =>
    LET log == Data(Audit)
        Used == {i \in 0..(Entries - 1) : log[Count] \in Nat /\ i < log[Count] /\ log[Name(i)] \in Tests}
    IN  \A i, j \in Used : log[Name(i)] = log[Name(j)] => i = j

(* A flushed setting survives every power cut that does not hit a flush,   *)
(* and the cache starts from it.                                           *)
SettingsKept ==
  [][saved # Blank /\ Config \notin running /\ Config \in running' => cache' = saved]_vars
=============================================================================
