---------------------------- MODULE ClientsProofs ----------------------------
(***************************************************************************)
(* Proofs about Clients, for any number of sectors, entries, tests,        *)
(* settings, relocations and power cuts: what the audit log and the        *)
(* configuration hold after patches that were cut short, and across the    *)
(* event thread's patch between the two patches of auditUpdate.            *)
(*                                                                         *)
(* The argument has two layers.  On the flash, every step replaces one     *)
(* sector that holds no current copy, or changes the data of a current     *)
(* one (SectorReplaced, DataReplaced); that find_empty_sector only gives   *)
(* up such sectors is StorageProofs' EmptyIsOutdated.  On the contents of  *)
(* the log, auditUpdate writes an entry where none is counted before it    *)
(* counts it, and a copy that was cut short is a prefix (LogOK).           *)
(***************************************************************************)
EXTENDS Clients, FiniteSetTheorems, TLAPS

(* The words a sector can hold besides Blank.                              *)
Val == (Nat \cup Tests \cup Results \cup Settings \cup {Sig, Zero}) \ {Blank}

Disk == INSTANCE StorageProofs WITH
  Threads <- {}, Blocks <- {Audit, Config}, Values <- Val, NoBlock <- Blank,
  op <- [t \in {} |-> {}]

Sector == Store!Sector
Row == Disk!SectorState
Files == {Audit, Config}

(***************************************************************************)
(* The flash f as the two clients see it.                                  *)
(***************************************************************************)

(* A header that was cut short before the journal number makes no copy.    *)
Has(f, b) == \E s \in Sector : f[s].block = b /\ f[s].rev <= Youngest

CurrentOf(f, b) == CHOOSE s \in Disk!NewestIn(f, b) : TRUE

DataOf(f, b) == f[CurrentOf(f, b)].data

FlashOK(f) ==
  /\ f \in [Sector -> Row]
  /\ \A s \in Sector : f[s].rev <= Youngest => f[s].sig /\ f[s].block # Blank
  /\ \A s, r \in Sector : s # r /\ f[s].block = f[r].block /\ f[s].rev <= Youngest
                           => f[s].rev # f[r].rev

(***************************************************************************)
(* The contents of the log.                                                *)
(***************************************************************************)

Slot == 0..(Entries - 1)

(* Before init_audit only entry_count can be there ...                     *)
Fresh(log) == log[AuditSig] = Blank /\ \A w \in Word : w > 0 => log[w] = Blank

(* ... and afterwards no test is counted twice, and no name comes without  *)
(* its result.                                                             *)
Ready(log) ==
  /\ log[AuditSig] = Sig /\ log[Count] \in 0..Entries
  /\ \A i \in Slot : i < log[Count] /\ log[Name(i)] \in Tests =>
       /\ log[Head(i)] \in Results
       /\ \A j \in Slot : j < log[Count] /\ log[Name(j)] = log[Name(i)] => i = j

LogOK(log) == Fresh(log) \/ Ready(log)

(* The log has what was last recorded for t.                               *)
Recorded(log, t) ==
  /\ last[t] = "none" => log[AuditSig] = Sig /\ Found(log, t) = {}
  /\ last[t] \in Results =>
       log[AuditSig] = Sig /\ \E i \in Found(log, t) : log[Head(i)] = last[t]

(***************************************************************************)
(* The invariant.                                                          *)
(***************************************************************************)

(* auditUpdate is recording a result of a test that has no entry.          *)
NewTest ==
  /\ Audit \in running /\ shell.test \in Tests /\ shell.result \in Results
  /\ Data(Audit)[Count] < Entries
  /\ Found(Data(Audit), shell.test) = {}

(* The entry is there, and is not counted yet.                             *)
Appended ==
  /\ NewTest
  /\ Data(Audit)[Head(Data(Audit)[Count])] = shell.result
  /\ Data(Audit)[Name(Data(Audit)[Count])] = shell.test

ShellState ==
  [pc : {"idle", "append", "appended", "update", "overrun", "stale"},
   test : Tests \cup {Blank}, result : Results \cup {Blank}, log : Sector]

ShellInv ==
  /\ shell \in ShellState
  /\ shell.pc # "idle" => Audit \in running
  /\ shell.pc = "appended" =>
       /\ Appended
       /\ Valid => flash[shell.log].data[Count] = Data(Audit)[Count]

AuditPatchOK(ws) ==
  \/ shell.pc = "idle" /\ ws = EmptyLog /\ Data(Audit)[AuditSig] = Blank
  \/ /\ shell.pc = "append" /\ NewTest /\ shell.log = Current(Audit)
     /\ ws = Entry(Data(Audit)[Count], shell.test, shell.result)
  \/ /\ shell.pc = "update" /\ Appended
     /\ ws = [w \in {Count} |-> Data(Audit)[Count] + 1]
  \/ /\ shell.pc = "update" /\ Audit \in running /\ shell.test \in Tests /\ shell.result \in Results
     /\ \E i \in Found(Data(Audit), shell.test) : ws = Entry(i, shell.test, shell.result)

PatchOK(p) ==
  /\ p.block \in Files /\ Exists(p.block) /\ CanPatch(p.block)
  /\ p.block = Audit => AuditPatchOK(p.words)
  /\ p.block = Config => \E v \in Settings \cup {Blank} : p.words = Configured(v)

PatchInv == patch = {} \/ \E p : patch = {p} /\ PatchOK(p)

RunningInv ==
  /\ running \subseteq Files
  /\ \A b \in running : Exists(b)
  /\ Audit \in running => Data(Audit)[AuditSig] = Sig

AuditInv ==
  /\ Exists(Audit) => LogOK(Data(Audit))
  /\ last \in [Tests -> Results \cup {"none", "unknown"}]
  /\ \A t \in Tests : last[t] # "unknown" => Exists(Audit) /\ Recorded(Data(Audit), t)

ConfigInv ==
  /\ cache \in Settings \cup {Blank} /\ saved \in Settings \cup {Blank}
  /\ Exists(Config) => Data(Config)[Field] \in Settings \cup {Blank}
  /\ saved # Blank =>
       Exists(Config) /\ Data(Config)[ConfigSig] = Sig /\ Data(Config)[Field] = saved

IInv == FlashOK(flash) /\ ShellInv /\ PatchInv /\ RunningInv /\ AuditInv /\ ConfigInv

(***************************************************************************)
(* The flash.                                                              *)
(***************************************************************************)

LEMMA DiskAssumption == ASSUME ClientsAssumption PROVE Disk!StorageAssumption
<1>1. IsFiniteSet({Audit, Config}) /\ Cardinality({Audit, Config}) = 2
  <2>1. IsFiniteSet({Audit}) /\ Cardinality({Audit}) = 1
    BY FS_Singleton
  <2>2. PICK S, T : S = {Audit} /\ T = {Audit, Config}
    OBVIOUS
  <2>3. T = S \cup {Config} /\ Config \notin S
    BY <2>2 DEF ClientsAssumption
  <2>4. IsFiniteSet(S \cup {Config}) /\ Cardinality(S \cup {Config}) = 1 + 1
    BY <2>1, <2>2, <2>3, FS_AddElement
  <2> QED BY <2>2, <2>3, <2>4
<1>2. SectorCount \in Nat /\ 3 < SectorCount
  BY DEF ClientsAssumption
<1>3. Blank \notin {Audit, Config} /\ Blank \notin Val
  BY DEF ClientsAssumption, Val
<1>4. Words \in Nat \ {0} /\ Youngest \in Nat
  BY DEF ClientsAssumption, Words
<1>5. Cardinality({Audit, Config}) + 1 < SectorCount
  BY <1>1, <1>2
<1>6. Disk!IsFiniteSet({Audit, Config})
  BY <1>1 DEF Disk!IsFiniteSet, IsFiniteSet
<1>7. Disk!Cardinality({Audit, Config}) = Cardinality({Audit, Config})
  BY DEF Disk!Cardinality, Cardinality
<1> QED BY <1>2, <1>3, <1>4, <1>5, <1>6, <1>7 DEF Disk!StorageAssumption

LEMMA RowIs ==
  /\ Row = [sig : BOOLEAN, block : Files \cup {Blank}, rev : 0..(Youngest + 1),
            data : [Word -> Val \cup {Blank}]]
  /\ Sector = Disk!Sector /\ Disk!Word = Word
BY DEF Row, Files, Disk!SectorState, Disk!Content, Disk!JournalInvalid, Disk!Word, Word, Sector,
       Store!Sector, Disk!Sector

(* The copies of b are the sectors that say so and have a journal number.  *)
LEMMA VersionsAre ==
  ASSUME ClientsAssumption, NEW f, FlashOK(f), NEW b \in Files
  PROVE  /\ f \in [Disk!Sector -> Disk!SectorState] /\ Disk!DistinctIn(f)
         /\ Disk!VersionsIn(f, b) = {s \in Sector : f[s].block = b /\ f[s].rev <= Youngest}
<1>1. b # Blank
  BY DEF Files, ClientsAssumption
<1>2. f \in [Sector -> Row]
  BY DEF FlashOK
<1>3. \A s \in Sector : f[s].rev <= Youngest => f[s].sig
  BY DEF FlashOK
<1>4. \A c \in Files : Disk!VersionsIn(f, c) = {s \in Sector : f[s].block = c /\ f[s].rev <= Youngest}
  BY <1>3, RowIs DEF Disk!VersionsIn, Files, ClientsAssumption
<1>5. \A c \in Files : \A s, r \in {s \in Sector : f[s].block = c /\ f[s].rev <= Youngest} :
        s # r => f[s].rev # f[r].rev
  BY DEF FlashOK, Files, ClientsAssumption
<1>6. Disk!DistinctIn(f)
  BY <1>4, <1>5 DEF Disk!DistinctIn, Files
<1> QED BY <1>2, <1>4, <1>6, RowIs DEF Row

(* The copy found is the one with the smallest journal number.             *)
LEMMA CurrentHas ==
  ASSUME ClientsAssumption, NEW f, FlashOK(f), NEW b \in Files, Has(f, b)
  PROVE  /\ CurrentOf(f, b) \in Sector /\ f[CurrentOf(f, b)].block = b
         /\ f[CurrentOf(f, b)].rev <= Youngest
         /\ \A s \in Sector : f[s].block = b /\ s # CurrentOf(f, b) => f[CurrentOf(f, b)].rev < f[s].rev
<1> DEFINE c == CurrentOf(f, b)
           V == Disk!VersionsIn(f, b)
<1>1. /\ f \in [Disk!Sector -> Disk!SectorState] /\ Disk!DistinctIn(f)
      /\ V = {s \in Sector : f[s].block = b /\ f[s].rev <= Youngest} /\ V # {}
  BY VersionsAre DEF Has
<1>2. Disk!NewestIn(f, b) # {}
  BY <1>1, DiskAssumption, Disk!NewestExists DEF Files
<1>3. c \in Disk!NewestIn(f, b)
  BY <1>2 DEF CurrentOf
<1>4. c \in V /\ \A s \in V : f[c].rev < f[s].rev \/ (f[c].rev = f[s].rev /\ s <= c)
  BY <1>3 DEF Disk!NewestIn
<1>5. \A s, r \in V : s # r => f[s].rev # f[r].rev
  BY <1>1 DEF Disk!DistinctIn, Files
<1> HIDE DEF c, V
<1>6. c \in Sector /\ f[c].block = b /\ f[c].rev <= Youngest
  BY <1>1, <1>4
<1>7. ASSUME NEW s \in Sector, f[s].block = b, s # c PROVE f[c].rev < f[s].rev
  <2>1. f[s].rev \in Int /\ f[c].rev \in Int /\ Youngest \in Int
    BY <1>6, RowIs DEF FlashOK, ClientsAssumption
  <2>2. CASE f[s].rev <= Youngest
    BY <1>1, <1>4, <1>5, <1>7, <2>2
  <2>3. CASE ~(f[s].rev <= Youngest)
    BY <1>6, <2>1, <2>3
  <2> QED BY <2>2, <2>3
<1> QED BY <1>6, <1>7 DEF c

LEMMA CurrentIs ==
  ASSUME ClientsAssumption, NEW f, FlashOK(f), NEW b \in Files, NEW c \in Sector, f[c].block = b,
         f[c].rev <= Youngest, \A s \in Sector : f[s].block = b /\ s # c => f[c].rev < f[s].rev
  PROVE  Has(f, b) /\ CurrentOf(f, b) = c
<1>1. Has(f, b)
  BY DEF Has
<1>2. /\ CurrentOf(f, b) \in Sector /\ f[CurrentOf(f, b)].block = b
      /\ \A s \in Sector : f[s].block = b /\ s # CurrentOf(f, b) => f[CurrentOf(f, b)].rev < f[s].rev
  BY <1>1, CurrentHas
<1>3. CurrentOf(f, b) # c => f[c].rev < f[CurrentOf(f, b)].rev /\ f[CurrentOf(f, b)].rev < f[c].rev
  BY <1>2
<1>4. f[c].rev \in Int /\ f[CurrentOf(f, b)].rev \in Int
  BY <1>2, RowIs DEF FlashOK, ClientsAssumption
<1> QED BY <1>1, <1>3, <1>4

(* What the operators of Clients say of the flash.                         *)
LEMMA Names ==
  ASSUME ClientsAssumption, FlashOK(flash), NEW b \in Files
  PROVE  /\ Exists(b) <=> Has(flash, b)
         /\ Current(b) = CurrentOf(flash, b) /\ Data(b) = DataOf(flash, b)
<1>1. Store!Versions(b) = Disk!VersionsIn(flash, b) /\ Store!Newest(b) = Disk!NewestIn(flash, b)
  BY DEF Store!Versions, Store!Newest, Disk!VersionsIn, Disk!NewestIn, Store!Sector, Disk!Sector
<1>2. Disk!VersionsIn(flash, b) = {s \in Sector : flash[s].block = b /\ flash[s].rev <= Youngest}
  BY VersionsAre
<1> QED BY <1>1, <1>2 DEF Exists, Has, Current, CurrentOf, Data, DataOf

LEMMA NamesNext ==
  ASSUME ClientsAssumption, FlashOK(flash'), NEW b \in Files
  PROVE  /\ Exists(b)' <=> Has(flash', b)
         /\ Current(b)' = CurrentOf(flash', b) /\ Data(b)' = DataOf(flash', b)
<1>1. Store!Versions(b)' = Disk!VersionsIn(flash', b) /\ Store!Newest(b)' = Disk!NewestIn(flash', b)
  BY DEF Store!Versions, Store!Newest, Disk!VersionsIn, Disk!NewestIn, Store!Sector, Disk!Sector
<1>2. Disk!VersionsIn(flash', b) = {s \in Sector : flash'[s].block = b /\ flash'[s].rev <= Youngest}
  BY VersionsAre
<1> QED BY <1>1, <1>2 DEF Exists, Has, Current, CurrentOf, Data, DataOf

(* find_empty_sector gives up no current copy.                             *)
LEMMA RecycledIsOld ==
  ASSUME ClientsAssumption, FlashOK(flash), NEW d \in Recycled
  PROVE  d \in Sector /\ \A b \in Files : Has(flash, b) => d # CurrentOf(flash, b)
<1>1. PICK garbage \in BOOLEAN : d \in Store!EmptySectors(garbage)
  BY DEF Recycled
<1>2. Store!EmptySectors(garbage) = Disk!EmptySectors(garbage)
  BY DEF Store!EmptySectors, Disk!EmptySectors, Store!Stops, Disk!Stops, Store!GivenUp,
         Disk!GivenUp, Store!Seen, Disk!Seen, Store!Sector, Disk!Sector
<1>3. Disk!TypeOK
  BY RowIs DEF FlashOK, Row, Disk!TypeOK
<1>4. Disk!JournalInv
  <2>1. Disk!Distinct
    BY RowIs DEF Disk!Distinct, Disk!Valid, FlashOK
  <2>2. \A s \in Sector : flash[s].rev \in 0..(Youngest + 1)
    BY RowIs DEF FlashOK
  <2>3. Disk!CutShort
    BY <2>2, RowIs DEF Disk!CutShort, FlashOK, Disk!JournalInvalid, ClientsAssumption
  <2> QED BY <2>1, <2>3 DEF Disk!JournalInv
<1>5. d \in Sector /\ Disk!Outdated(d)
  BY <1>1, <1>2, <1>3, <1>4, DiskAssumption, RowIs, Disk!EmptyIsOutdated
<1>6. ASSUME NEW b \in Files, Has(flash, b) PROVE d # CurrentOf(flash, b)
  <2> DEFINE c == CurrentOf(flash, b)
  <2>1. /\ c \in Sector /\ flash[c].block = b /\ flash[c].rev <= Youngest
        /\ \A s \in Sector : flash[s].block = b /\ s # c => flash[c].rev < flash[s].rev
    BY <1>6, CurrentHas
  <2>2. flash[c].sig /\ flash[c].rev <= Youngest /\ \A s \in Sector : flash[s].rev \in Int
    BY <2>1, RowIs DEF FlashOK, Files, ClientsAssumption
  <2>3. d = c => \E r \in Sector : flash[r].block = b /\ flash[r].rev < flash[c].rev
    BY <1>5, <2>1, <2>2, RowIs DEF Disk!Outdated, Disk!Valid
  <2> HIDE DEF c
  <2>4. d # c
    BY <2>1, <2>2, <2>3
  <2> QED BY <2>4 DEF c
<1> QED BY <1>5, <1>6

(* A sector that holds no current copy becomes a row with a journal number *)
(* only if that is the newest copy of its block.                           *)
LEMMA SectorReplaced ==
  ASSUME ClientsAssumption, NEW f, FlashOK(f), NEW d \in Sector, NEW row \in Row,
         \A b \in Files : Has(f, b) => d # CurrentOf(f, b),
         row.rev <= Youngest =>
           /\ row.sig /\ row.block # Blank
           /\ \A s \in Sector : f[s].block = row.block => row.rev < f[s].rev,
         NEW g \in [Sector -> Row], g[d] = row, \A s \in Sector : s # d => g[s] = f[s]
  PROVE  /\ FlashOK(g)
         /\ \A b \in Files : b # row.block \/ ~(row.rev <= Youngest) =>
              /\ Has(g, b) <=> Has(f, b)
              /\ Has(f, b) => CurrentOf(g, b) = CurrentOf(f, b) /\ DataOf(g, b) = DataOf(f, b)
         /\ row.rev <= Youngest =>
              /\ Has(g, row.block) /\ CurrentOf(g, row.block) = d
              /\ DataOf(g, row.block) = row.data
<1>1. /\ f \in [Sector -> Row] /\ g \in [Sector -> Row] /\ g[d] = row
      /\ \A s \in Sector : s # d => g[s] = f[s]
  BY DEF FlashOK
<1>2. \A s \in Sector : f[s].rev \in Int
  BY <1>1, RowIs DEF ClientsAssumption
<1>3. row.rev \in Int
  BY RowIs DEF ClientsAssumption
<1>4. FlashOK(g)
  <2>1. ASSUME NEW s \in Sector
        PROVE  g[s].rev <= Youngest => g[s].sig /\ g[s].block # Blank
    <3>1. CASE s = d
      BY <1>1, <3>1
    <3>2. CASE s # d
      BY <1>1, <3>2 DEF FlashOK
    <3> QED BY <3>1, <3>2
  <2>2. ASSUME NEW s \in Sector, NEW r \in Sector, s # r, g[s].block = g[r].block, g[s].rev <= Youngest
        PROVE  g[s].rev # g[r].rev
    <3>1. CASE s = d
      <4>1. g[r] = f[r] /\ row.rev < f[r].rev
        BY <1>1, <2>2, <3>1
      <4> QED BY <1>1, <1>2, <1>3, <3>1, <4>1
    <3>2. CASE r = d
      <4>1. g[s] = f[s] /\ g[r] = row /\ (row.rev <= Youngest => row.rev < f[s].rev)
        BY <1>1, <2>2, <3>2
      <4> QED BY <1>2, <1>3, <2>2, <4>1
    <3>3. CASE s # d /\ r # d
      BY <1>1, <2>2, <3>3 DEF FlashOK
    <3> QED BY <3>1, <3>2, <3>3
  <2> QED BY <1>1, <2>1, <2>2 DEF FlashOK
<1>5. ASSUME NEW b \in Files, b # row.block \/ ~(row.rev <= Youngest)
      PROVE  /\ Has(g, b) <=> Has(f, b)
             /\ Has(f, b) => CurrentOf(g, b) = CurrentOf(f, b) /\ DataOf(g, b) = DataOf(f, b)
  <2>1. Has(g, b) => Has(f, b)
    BY <1>1, <1>5 DEF Has
  <2>2. ASSUME Has(f, b)
        PROVE  Has(g, b) /\ CurrentOf(g, b) = CurrentOf(f, b) /\ DataOf(g, b) = DataOf(f, b)
    <3> DEFINE c == CurrentOf(f, b)
    <3>1. /\ c \in Sector /\ f[c].block = b /\ c # d /\ f[c].rev <= Youngest
          /\ \A s \in Sector : f[s].block = b /\ s # c => f[c].rev < f[s].rev
      BY <2>2, CurrentHas
    <3> HIDE DEF c
    <3>2. g[c] = f[c] /\ \A s \in Sector : g[s].block = b => g[s] = f[s] \/ ~(g[s].rev <= Youngest)
      BY <1>1, <1>5, <3>1
    <3>3. /\ c \in Sector /\ g[c].block = b /\ g[c].rev <= Youngest
          /\ \A s \in Sector : g[s].block = b /\ s # c => g[c].rev < g[s].rev
      <4>1. ASSUME NEW s \in Sector, g[s].block = b, s # c PROVE g[c].rev < g[s].rev
        <5>1. g[s].rev \in Int /\ g[c].rev \in Int /\ Youngest \in Int
          BY <3>1, RowIs DEF ClientsAssumption
        <5>2. CASE g[s] = f[s]
          BY <3>1, <3>2, <4>1, <5>2
        <5>3. CASE ~(g[s].rev <= Youngest)
          BY <3>1, <3>2, <5>1, <5>3
        <5> QED BY <3>2, <4>1, <5>2, <5>3
      <4> QED BY <3>1, <3>2, <4>1
    <3>4. Has(g, b) /\ CurrentOf(g, b) = c
      BY <1>4, <3>3, CurrentIs
    <3> QED BY <3>2, <3>4 DEF DataOf, c
  <2> QED BY <2>1, <2>2
<1>6. ASSUME row.rev <= Youngest
      PROVE  /\ Has(g, row.block) /\ CurrentOf(g, row.block) = d
             /\ DataOf(g, row.block) = row.data
  <2>1. row.block \in Files
    BY <1>6, RowIs
  <2>2. /\ g[d].block = row.block /\ g[d].rev <= Youngest
        /\ \A s \in Sector : g[s].block = row.block /\ s # d => g[d].rev < g[s].rev
    BY <1>1, <1>6
  <2>3. Has(g, row.block) /\ CurrentOf(g, row.block) = d
    BY <1>4, <2>1, <2>2, CurrentIs
  <2> QED BY <1>1, <2>3 DEF DataOf
<1> QED BY <1>4, <1>5, <1>6

(* The data of a current copy changes.                                     *)
LEMMA DataReplaced ==
  ASSUME ClientsAssumption, NEW f, FlashOK(f), NEW b \in Files, Has(f, b),
         NEW x \in [Word -> Val \cup {Blank}],
         NEW g \in [Sector -> Row], g[CurrentOf(f, b)].data = x,
         \A s \in Sector : /\ s # CurrentOf(f, b) => g[s] = f[s]
                          /\ g[s].sig = f[s].sig /\ g[s].block = f[s].block /\ g[s].rev = f[s].rev
  PROVE  /\ FlashOK(g)
         /\ \A c \in Files : /\ Has(g, c) <=> Has(f, c)
                             /\ Has(f, c) => CurrentOf(g, c) = CurrentOf(f, c)
         /\ DataOf(g, b) = x
         /\ \A c \in Files : c # b /\ Has(f, c) => DataOf(g, c) = DataOf(f, c)
<1> DEFINE d == CurrentOf(f, b)
<1>1. d \in Sector /\ f[d].block = b
  BY CurrentHas
<1> HIDE DEF d
<1>3. g[d].data = x /\ \A s \in Sector : s # d => g[s] = f[s]
  BY DEF d
<1>4. \A s \in Sector : /\ g[s].sig = f[s].sig /\ g[s].block = f[s].block /\ g[s].rev = f[s].rev
  OBVIOUS
<1>5. FlashOK(g)
  BY <1>4 DEF FlashOK
<1>6. ASSUME NEW c \in Files
      PROVE  /\ Has(g, c) <=> Has(f, c)
             /\ Has(f, c) => CurrentOf(g, c) = CurrentOf(f, c)
  <2>1. Has(g, c) <=> Has(f, c)
    BY <1>4 DEF Has
  <2>2. ASSUME Has(f, c) PROVE CurrentOf(g, c) = CurrentOf(f, c)
    <3> DEFINE e == CurrentOf(f, c)
    <3>1. /\ e \in Sector /\ f[e].block = c /\ f[e].rev <= Youngest
          /\ \A s \in Sector : f[s].block = c /\ s # e => f[e].rev < f[s].rev
      BY <2>2, CurrentHas
    <3> HIDE DEF e
    <3>2. g[e].block = c /\ g[e].rev <= Youngest /\ \A s \in Sector : g[s].block = c /\ s # e => g[e].rev < g[s].rev
      BY <1>4, <3>1
    <3>3. CurrentOf(g, c) = e
      BY <1>5, <3>1, <3>2, CurrentIs
    <3> QED BY <3>3 DEF e
  <2> QED BY <2>1, <2>2
<1>7. DataOf(g, b) = x
  BY <1>3, <1>6 DEF DataOf, d
<1>8. ASSUME NEW c \in Files, c # b, Has(f, c) PROVE DataOf(g, c) = DataOf(f, c)
  <2>1. CurrentOf(f, c) \in Sector /\ f[CurrentOf(f, c)].block = c
    BY <1>8, CurrentHas
  <2>2. CurrentOf(f, c) # d
    BY <1>1, <1>8, <2>1
  <2> QED BY <1>3, <1>6, <1>8, <2>1, <2>2 DEF DataOf
<1> QED BY <1>5, <1>6, <1>7, <1>8

(***************************************************************************)
(* The steps that write it.                                                *)
(***************************************************************************)

Contents == [Word -> Val \cup {Blank}]

WordsOK(ws) == \A w \in DOMAIN ws : w \in Word => ws[w] \in Val \cup {Blank}

LEMMA DataHas ==
  ASSUME ClientsAssumption, FlashOK(flash), NEW b \in Files, Exists(b)
  PROVE  /\ Has(flash, b) /\ Current(b) = CurrentOf(flash, b)
         /\ Current(b) \in Sector /\ flash[Current(b)] \in Row /\ flash[Current(b)].block = b
         /\ flash[Current(b)].rev \in Int /\ flash[Current(b)].rev <= Youngest /\ Data(b) \in Contents
         /\ \A s \in Sector : flash[s].block = b => flash[Current(b)].rev <= flash[s].rev
<1>1. Has(flash, b) /\ Current(b) = CurrentOf(flash, b)
  BY Names
<1>2. /\ Current(b) \in Sector /\ flash[Current(b)].block = b /\ flash[Current(b)].rev <= Youngest
      /\ \A s \in Sector : flash[s].block = b /\ s # Current(b) => flash[Current(b)].rev < flash[s].rev
  BY <1>1, CurrentHas
<1>3. \A s \in Sector : flash[s] \in Row /\ flash[s].rev \in Int
  BY RowIs DEF FlashOK, ClientsAssumption
<1>4. Data(b) \in Contents
  BY <1>2, <1>3, RowIs DEF Data, Contents
<1>5. \A s \in Sector : flash[s].block = b => flash[Current(b)].rev <= flash[s].rev
  <2> SUFFICES ASSUME NEW s \in Sector, flash[s].block = b PROVE flash[Current(b)].rev <= flash[s].rev
    OBVIOUS
  <2>1. CASE s = Current(b)
    BY <1>3, <2>1
  <2>2. CASE s # Current(b)
    BY <1>2, <1>3, <2>2
  <2> QED BY <2>1, <2>2
<1> QED BY <1>1, <1>2, <1>3, <1>4, <1>5

LEMMA MergedHas ==
  ASSUME ClientsAssumption, FlashOK(flash), NEW b \in Files, Exists(b), NEW ws, WordsOK(ws)
  PROVE  /\ Merged(b, ws) \in Contents /\ Store!BlankContent \in Contents
         /\ \A w \in Word : Merged(b, ws)[w] = IF w \in DOMAIN ws THEN ws[w] ELSE Data(b)[w]
         /\ \A n : /\ Upto(Merged(b, ws), n, Data(b)) \in Contents
                   /\ Upto(Merged(b, ws), n, Store!BlankContent) \in Contents
<1>1. Data(b) \in Contents
  BY DataHas
<1>2. Store!BlankContent = [w \in Word |-> Blank]
  BY DEF Store!BlankContent, Store!Word, Word
<1>3. \A w \in Word : (IF w \in DOMAIN ws THEN ws[w] ELSE Data(b)[w]) \in Val \cup {Blank}
  BY <1>1 DEF WordsOK, Contents
<1>4. Merged(b, ws) \in Contents
  BY <1>3 DEF Merged, Contents
<1>5. Store!BlankContent \in Contents
  BY <1>2 DEF Contents
<1>6. ASSUME NEW new \in Contents, NEW below \in Contents, NEW n PROVE Upto(new, n, below) \in Contents
  BY DEF Upto, Contents
<1>7. \A w \in Word : Merged(b, ws)[w] = IF w \in DOMAIN ws THEN ws[w] ELSE Data(b)[w]
  BY DEF Merged
<1> QED BY <1>1, <1>4, <1>5, <1>6, <1>7

(* What a step does to the other block.                                    *)
Kept(c) == (Exists(c)' <=> Exists(c)) /\ (Exists(c) => Data(c)' = Data(c))

(* One sector, or the data of the current copy of b, is written.           *)
Becomes(d, row) == flash' = [flash EXCEPT ![d] = row]
Rewritten(b, x) == flash' = [flash EXCEPT ![Current(b)].data = x]

(* A block is moved: its new copy is written to a recycled sector.         *)
LEMMA MoveStep ==
  ASSUME ClientsAssumption, FlashOK(flash), NEW b \in Files, Exists(b), CanPatch(b),
         NEW x \in Contents, NEW d \in Recycled,
         Becomes(d, Signed(b, flash[Current(b)].rev - 1, x))
  PROVE  /\ FlashOK(flash') /\ Exists(b)' /\ Data(b)' = x
         /\ \A c \in Files : c # b => Kept(c)
         /\ \A s \in Sector : flash'[s] = flash[s] \/ flash'[s].block = b
         /\ flash'[Current(b)] = flash[Current(b)]
<1> DEFINE rev == flash[Current(b)].rev
           row == Signed(b, rev - 1, x)
<1>1. /\ d \in Sector /\ \A c \in Files : Has(flash, c) => d # CurrentOf(flash, c)
  BY RecycledIsOld
<1>2. /\ Has(flash, b) /\ Current(b) = CurrentOf(flash, b) /\ Current(b) \in Sector
      /\ rev \in Int /\ rev <= Youngest /\ flash[Current(b)] \in Row /\ flash[Current(b)].block = b
      /\ \A s \in Sector : flash[s].block = b => rev <= flash[s].rev
  BY DataHas
<1>3. b # Blank /\ Youngest \in Nat /\ rev \in 1..Youngest
  <2>1. rev <= Youngest /\ b # Blank
    BY <1>2 DEF Files, ClientsAssumption
  <2>2. rev > Youngest - Moves[b] /\ Moves[b] \in 0..Youngest /\ Youngest \in Nat
    BY DEF CanPatch, ClientsAssumption, Files
  <2> HIDE DEF rev
  <2> QED BY <1>2, <2>1, <2>2
<1>4. \A s \in Sector : flash[s].rev \in Int
  BY RowIs DEF FlashOK, ClientsAssumption
<1>5. rev - 1 \in 0..(Youngest + 1) /\ rev - 1 <= Youngest /\ rev - 1 < rev
  <2> HIDE DEF rev
  <2> QED BY <1>3
<1> HIDE DEF rev
<1>6. row \in Row /\ row.block = b /\ row.sig /\ row.rev = rev - 1 /\ row.data = x
  BY <1>5, RowIs DEF Signed, Contents
<1>7. \A s \in Sector : flash[s].block = row.block => row.rev < flash[s].rev
  BY <1>2, <1>4, <1>5, <1>6
<1>8. /\ flash' \in [Sector -> Row] /\ flash'[d] = row
      /\ \A s \in Sector : s # d => flash'[s] = flash[s]
  BY <1>1, <1>6 DEF FlashOK, Becomes, rev
<1> HIDE DEF row
<1>9. /\ FlashOK(flash')
      /\ \A c \in Files : c # row.block =>
           /\ Has(flash', c) <=> Has(flash, c)
           /\ Has(flash, c) => CurrentOf(flash', c) = CurrentOf(flash, c) /\ DataOf(flash', c) = DataOf(flash, c)
      /\ Has(flash', row.block) /\ CurrentOf(flash', row.block) = d
      /\ DataOf(flash', row.block) = row.data
  <2>1. row.rev <= Youngest =>
          /\ row.sig /\ row.block # Blank
          /\ \A s \in Sector : flash[s].block = row.block => row.rev < flash[s].rev
    BY <1>3, <1>5, <1>6, <1>7
  <2>2. row.rev <= Youngest
    BY <1>5, <1>6
  <2> QED BY <1>1, <1>6, <1>8, <2>1, <2>2, SectorReplaced
<1>10. \A c \in Files : /\ Exists(c) <=> Has(flash, c)
                        /\ Exists(c)' <=> Has(flash', c)
                        /\ Data(c) = DataOf(flash, c) /\ Data(c)' = DataOf(flash', c)
  BY <1>9, Names, NamesNext
<1>11. Exists(b)' /\ Data(b)' = x
  BY <1>6, <1>9, <1>10
<1>12. \A c \in Files : c # b => Kept(c)
  BY <1>6, <1>9, <1>10 DEF Kept
<1>13. /\ \A s \in Sector : flash'[s] = flash[s] \/ flash'[s].block = b
       /\ flash'[Current(b)] = flash[Current(b)]
  BY <1>1, <1>2, <1>6, <1>8
<1> QED BY <1>9, <1>11, <1>12, <1>13

(* A block is changed in place.                                            *)
LEMMA InPlaceStep ==
  ASSUME ClientsAssumption, FlashOK(flash), NEW b \in Files, Exists(b), NEW x \in Contents,
         Rewritten(b, x)
  PROVE  /\ FlashOK(flash') /\ Exists(b)' /\ Data(b)' = x
         /\ \A c \in Files : c # b => Kept(c)
         /\ \A s \in Sector : flash'[s] = flash[s] \/ flash'[s].block = b
         /\ flash'[Current(b)].data = x
<1>1. /\ Has(flash, b) /\ Current(b) = CurrentOf(flash, b) /\ Current(b) \in Sector
      /\ flash[Current(b)] \in Row /\ flash[Current(b)].block = b
  BY DataHas
<1>7. /\ flash' \in [Sector -> Row] /\ flash'[CurrentOf(flash, b)].data = x
         /\ \A s \in Sector :
              /\ s # CurrentOf(flash, b) => flash'[s] = flash[s]
              /\ flash'[s].sig = flash[s].sig /\ flash'[s].block = flash[s].block
              /\ flash'[s].rev = flash[s].rev
         /\ x \in [Word -> Val \cup {Blank}]
  <2> DEFINE c == CurrentOf(flash, b)
             row == [flash[c] EXCEPT !.data = x]
  <2>1. flash[c] \in Row /\ c \in Sector /\ flash' = [flash EXCEPT ![c] = row]
    BY <1>1 DEF Rewritten
  <2> HIDE DEF c
  <2>2. x \in [Word -> Val \cup {Blank}]
    BY DEF Contents
  <2>3. row \in Row
    BY <2>1, <2>2, RowIs
  <2>4. /\ row.sig = flash[c].sig /\ row.block = flash[c].block
        /\ row.rev = flash[c].rev /\ row.data = x
    BY <2>1, RowIs
  <2> HIDE DEF row
  <2>5. /\ flash' \in [Sector -> Row] /\ flash'[c] = row
        /\ \A s \in Sector : s # c => flash'[s] = flash[s]
    BY <2>1, <2>3 DEF FlashOK
  <2> QED BY <2>2, <2>4, <2>5 DEF c
<1>2. /\ FlashOK(flash')
      /\ \A c \in Files : /\ Has(flash', c) <=> Has(flash, c)
                          /\ Has(flash, c) => CurrentOf(flash', c) = CurrentOf(flash, c)
      /\ DataOf(flash', b) = x
      /\ \A c \in Files : c # b /\ Has(flash, c) => DataOf(flash', c) = DataOf(flash, c)
  BY <1>1, <1>7, DataReplaced
<1>3. \A c \in Files : /\ Exists(c) <=> Has(flash, c)
                       /\ Exists(c)' <=> Has(flash', c)
                       /\ Data(c) = DataOf(flash, c) /\ Data(c)' = DataOf(flash', c)
  BY <1>2, Names, NamesNext
<1>4. Exists(b)' /\ Data(b)' = x
  BY <1>1, <1>2, <1>3
<1>5. \A c \in Files : c # b => Kept(c)
  BY <1>2, <1>3 DEF Kept
<1>6. /\ \A s \in Sector : flash'[s] = flash[s] \/ flash'[s].block = b
      /\ flash'[Current(b)].data = x
  BY <1>1, <1>7
<1> QED BY <1>2, <1>4, <1>5, <1>6

(* storagePatchData returns.                                               *)
LEMMA PatchedStep ==
  ASSUME ClientsAssumption, FlashOK(flash), NEW b \in Files, Exists(b), CanPatch(b),
         NEW ws, WordsOK(ws), flash' \in Patched(b, ws)
  PROVE  /\ FlashOK(flash') /\ Exists(b)' /\ Data(b)' = Merged(b, ws)
         /\ \A c \in Files : c # b => Kept(c)
         /\ \A s \in Sector : flash'[s] = flash[s] \/ flash'[s].block = b
         /\ \A w \in Word : w \notin DOMAIN ws => flash'[Current(b)].data[w] = Data(b)[w]
<1>1. /\ Merged(b, ws) \in Contents
      /\ \A w \in Word : w \notin DOMAIN ws => Merged(b, ws)[w] = Data(b)[w]
  BY MergedHas
<1>2. CASE InPlace(b, ws)
  <2>1. Rewritten(b, Merged(b, ws))
    BY <1>2 DEF Patched, Rewritten
  <2>2. /\ FlashOK(flash') /\ Exists(b)' /\ Data(b)' = Merged(b, ws)
        /\ \A c \in Files : c # b => Kept(c)
        /\ \A s \in Sector : flash'[s] = flash[s] \/ flash'[s].block = b
        /\ flash'[Current(b)].data = Merged(b, ws)
    BY <1>1, <2>1, InPlaceStep
  <2> QED BY <1>1, <2>2
<1>3. CASE ~InPlace(b, ws)
  <2>1. PICK d \in Recycled : Becomes(d, Signed(b, flash[Current(b)].rev - 1, Merged(b, ws)))
    BY <1>3 DEF Patched, Becomes
  <2>2. /\ FlashOK(flash') /\ Exists(b)' /\ Data(b)' = Merged(b, ws)
        /\ \A c \in Files : c # b => Kept(c)
        /\ \A s \in Sector : flash'[s] = flash[s] \/ flash'[s].block = b
        /\ flash'[Current(b)] = flash[Current(b)]
    BY <1>1, <2>1, MoveStep
  <2> QED BY <2>2 DEF Data
<1> QED BY <1>2, <1>3

(* A sector that is erased, or whose header is cut short, holds no copy.   *)
BlankRow(row) == row \in Row /\ row.rev = Youngest + 1

LEMMA BegunIsBlank ==
  ASSUME ClientsAssumption
  PROVE  BlankRow(Store!Erased) /\ \A b \in Files : \A row \in Begun(b) : BlankRow(row)
<1>1. Store!Erased = [sig |-> FALSE, block |-> Blank, rev |-> Youngest + 1,
                      data |-> [w \in Word |-> Blank]]
  BY DEF Store!Erased, Store!JournalInvalid, Store!BlankContent, Store!Word, Word
<1>2. BlankRow(Store!Erased)
  BY <1>1, RowIs DEF BlankRow, ClientsAssumption
<1>3. ASSUME NEW c \in Files \cup {Blank}
      PROVE  BlankRow(Signed(c, Store!JournalInvalid, Store!BlankContent))
  <2>1. Store!JournalInvalid = Youngest + 1 /\ Store!BlankContent = [w \in Word |-> Blank]
    BY DEF Store!JournalInvalid, Store!BlankContent, Store!Word, Word
  <2> QED BY <2>1, RowIs DEF Signed, BlankRow, ClientsAssumption
<1> QED BY <1>2, <1>3 DEF Begun

LEMMA BlankStep ==
  ASSUME ClientsAssumption, FlashOK(flash), NEW d \in Recycled, NEW row, BlankRow(row), Becomes(d, row)
  PROVE  FlashOK(flash') /\ \A c \in Files : Kept(c)
<1>1. /\ d \in Sector /\ \A c \in Files : Has(flash, c) => d # CurrentOf(flash, c)
  BY RecycledIsOld
<1>3. ~(row.rev <= Youngest) /\ row \in Row
  BY DEF BlankRow, ClientsAssumption
<1>4. flash' = [flash EXCEPT ![d] = row]
  BY DEF Becomes
<1>5. /\ flash' \in [Sector -> Row] /\ flash'[d] = row
      /\ \A s \in Sector : s # d => flash'[s] = flash[s]
  BY <1>1, <1>3, <1>4 DEF FlashOK
<1>6. /\ FlashOK(flash')
      /\ \A c \in Files :
           /\ Has(flash', c) <=> Has(flash, c)
           /\ Has(flash, c) => CurrentOf(flash', c) = CurrentOf(flash, c) /\ DataOf(flash', c) = DataOf(flash, c)
  <2>1. row.rev <= Youngest =>
          /\ row.sig /\ row.block # Blank
          /\ \A s \in Sector : flash[s].block = row.block => row.rev < flash[s].rev
    BY <1>3
  <2> QED BY <1>1, <1>3, <1>5, <2>1, SectorReplaced
<1>7. \A c \in Files : /\ Exists(c) <=> Has(flash, c)
                       /\ Exists(c)' <=> Has(flash', c)
                       /\ Data(c) = DataOf(flash, c) /\ Data(c)' = DataOf(flash', c)
  BY <1>6, Names, NamesNext
<1> QED BY <1>6, <1>7 DEF Kept

(* A block no sector holds is created.                                     *)
LEMMA CreatedStep ==
  ASSUME ClientsAssumption, FlashOK(flash), NEW b \in Files, ~Exists(b), flash' \in Created(b)
  PROVE  /\ FlashOK(flash') /\ Exists(b)' /\ \A w \in Word : (Data(b)')[w] = Blank
         /\ \A c \in Files : c # b => Kept(c)
         /\ \A s \in Sector : flash'[s] = flash[s] \/ flash'[s].block = b
<1> DEFINE row == Signed(b, Youngest, Store!BlankContent)
<1>1. PICK d \in Recycled : Becomes(d, row)
  BY DEF Created, Becomes
<1>2. /\ d \in Sector /\ \A c \in Files : Has(flash, c) => d # CurrentOf(flash, c)
  BY RecycledIsOld
<1>3. Store!BlankContent = [w \in Word |-> Blank]
  BY DEF Store!BlankContent, Store!Word, Word
<1>4. row \in Row /\ row.block = b /\ row.sig /\ row.rev = Youngest /\ \A w \in Word : row.data[w] = Blank
  BY <1>3, RowIs DEF Signed, ClientsAssumption
<1>5. b # Blank /\ Youngest <= Youngest /\ \A s \in Sector : flash[s].block = b => Youngest < flash[s].rev
  <2>1. ~Has(flash, b)
    BY Names
  <2>2. \A s \in Sector : flash[s].rev \in Int
    BY RowIs DEF FlashOK, ClientsAssumption
  <2> QED BY <2>1, <2>2 DEF Has, Files, ClientsAssumption
<1> HIDE DEF row
<1>6. /\ flash' \in [Sector -> Row] /\ flash'[d] = row
      /\ \A s \in Sector : s # d => flash'[s] = flash[s]
  BY <1>1, <1>2, <1>4 DEF FlashOK, Becomes
<1>7. /\ FlashOK(flash')
      /\ \A c \in Files : c # row.block =>
           /\ Has(flash', c) <=> Has(flash, c)
           /\ Has(flash, c) => CurrentOf(flash', c) = CurrentOf(flash, c) /\ DataOf(flash', c) = DataOf(flash, c)
      /\ Has(flash', row.block) /\ CurrentOf(flash', row.block) = d
      /\ DataOf(flash', row.block) = row.data
  <2>1. row.rev <= Youngest =>
          /\ row.sig /\ row.block # Blank
          /\ \A s \in Sector : flash[s].block = row.block => row.rev < flash[s].rev
    BY <1>4, <1>5
  <2>2. row.rev <= Youngest
    BY <1>4, <1>5
  <2> QED BY <1>2, <1>4, <1>6, <2>1, <2>2, SectorReplaced
<1>8. \A c \in Files : /\ Exists(c) <=> Has(flash, c)
                       /\ Exists(c)' <=> Has(flash', c)
                       /\ Data(c) = DataOf(flash, c) /\ Data(c)' = DataOf(flash', c)
  BY <1>7, Names, NamesNext
<1>9. Exists(b)' /\ Data(b)' = row.data
  BY <1>4, <1>7, <1>8
<1>10. \A c \in Files : c # b => Kept(c)
  BY <1>4, <1>7, <1>8 DEF Kept
<1> QED BY <1>4, <1>6, <1>7, <1>9, <1>10

(* storagePatchData is cut short: nothing is changed yet, or a prefix is.  *)
LEMMA TornStep ==
  ASSUME ClientsAssumption, FlashOK(flash), NEW b \in Files, Exists(b), CanPatch(b),
         NEW ws, WordsOK(ws), flash' \in Torn(b, ws)
  PROVE  /\ FlashOK(flash') /\ Exists(b)'
         /\ \A c \in Files : c # b => Kept(c)
         /\ \/ Data(b)' = Data(b)
            \/ \E n \in 0..Words :
                 Data(b)' = Upto(Merged(b, ws), n, IF InPlace(b, ws) THEN Data(b) ELSE Store!BlankContent)
<1>1. CASE InPlace(b, ws)
  <2>1. PICK n \in 0..Words : Rewritten(b, Upto(Merged(b, ws), n, Data(b)))
    BY <1>1 DEF Torn, Rewritten
  <2>2. Upto(Merged(b, ws), n, Data(b)) \in Contents
    BY MergedHas
  <2>3. /\ FlashOK(flash') /\ Exists(b)' /\ Data(b)' = Upto(Merged(b, ws), n, Data(b))
        /\ \A c \in Files : c # b => Kept(c)
    BY <2>1, <2>2, InPlaceStep
  <2> QED BY <1>1, <2>3
<1>2. CASE ~InPlace(b, ws)
  <2> DEFINE rev == flash[Current(b)].rev
  <2>1. PICK d \in Recycled :
          \/ \E row \in Begun(b) : Becomes(d, row)
          \/ \E n \in 0..Words : Becomes(d, Signed(b, rev - 1, Upto(Merged(b, ws), n, Store!BlankContent)))
    BY <1>2 DEF Torn, Becomes
  <2>2. CASE \E row \in Begun(b) : Becomes(d, row)
    <3>1. PICK row : BlankRow(row) /\ Becomes(d, row)
      BY <2>2, BegunIsBlank
    <3>3. FlashOK(flash') /\ \A c \in Files : Kept(c)
      BY <3>1, BlankStep
    <3> QED BY <3>3 DEF Kept
  <2>3. ASSUME NEW n \in 0..Words,
               Becomes(d, Signed(b, rev - 1, Upto(Merged(b, ws), n, Store!BlankContent)))
        PROVE  /\ FlashOK(flash') /\ Exists(b)'
               /\ \A c \in Files : c # b => Kept(c)
               /\ Data(b)' = Upto(Merged(b, ws), n, Store!BlankContent)
    <3>1. Upto(Merged(b, ws), n, Store!BlankContent) \in Contents
      BY MergedHas
    <3> QED BY <2>3, <3>1, MoveStep
  <2> QED BY <1>2, <2>1, <2>2, <2>3
<1> QED BY <1>1, <1>2

(***************************************************************************)
(* The log.                                                                *)
(***************************************************************************)

LEMMA Places ==
  ASSUME ClientsAssumption
  PROVE  /\ Count \in Word /\ AuditSig \in Word /\ Count = 0 /\ AuditSig = 1
         /\ Word \subseteq Int /\ Slot \subseteq Int
         /\ \A i \in Slot : /\ Head(i) \in Word /\ Name(i) \in Word
                            /\ Head(i) > AuditSig /\ Head(i) < Name(i)
         /\ \A i, j \in Slot : /\ Head(i) # Name(j)
                               /\ Head(i) = Head(j) => i = j
                               /\ Name(i) = Name(j) => i = j
BY DEF ClientsAssumption, Count, AuditSig, Word, Words, Slot, Head, Name

LEMMA FoundIs ==
  ASSUME ClientsAssumption, NEW log, log[Count] \in 0..Entries, NEW t
  PROVE  Found(log, t) = {i \in Slot : i < log[Count] /\ log[Head(i)] \in Results /\ log[Name(i)] = t}
<1>1. log[Count] \in Nat
  BY DEF ClientsAssumption
<1> QED BY <1>1 DEF Found, Counted, Slot

(* init_audit.                                                             *)
LEMMA EmptyIsReady ==
  ASSUME ClientsAssumption, NEW log, log[Count] = 0, log[AuditSig] = Sig
  PROVE  Ready(log) /\ \A t : Found(log, t) = {}
<1>1. log[Count] \in 0..Entries /\ \A i \in Slot : ~(i < log[Count])
  BY DEF ClientsAssumption, Slot
<1> QED BY <1>1, FoundIs DEF Ready

(* The counted entries of log are those of new.                            *)
Alike(log, new) ==
  /\ new[AuditSig] = log[AuditSig]
  /\ \A t \in Tests : /\ Found(new, t) = Found(log, t)
                      /\ \A i \in Found(log, t) : new[Head(i)] = log[Head(i)]

(* What is written where the next entry goes does not count.               *)
LEMMA EntryAside ==
  ASSUME ClientsAssumption, NEW log, Ready(log), log[Count] < Entries, NEW new,
         \A w \in Word : w # Head(log[Count]) /\ w # Name(log[Count]) => new[w] = log[w]
  PROVE  Ready(new) /\ Alike(log, new) /\ new[Count] = log[Count]
<1> DEFINE c == log[Count]
<1>1. c \in Slot /\ c \in 0..Entries
  BY DEF Ready, Slot, ClientsAssumption
<1> HIDE DEF c
<1>2. \A w \in Word : w # Head(c) /\ w # Name(c) => new[w] = log[w]
  BY DEF c
<1>3. new[Count] = log[Count] /\ new[AuditSig] = log[AuditSig]
  BY <1>1, <1>2, Places
<1>4. \A i \in Slot : i < c => new[Head(i)] = log[Head(i)] /\ new[Name(i)] = log[Name(i)]
  <2> SUFFICES ASSUME NEW i \in Slot, i < c
               PROVE  new[Head(i)] = log[Head(i)] /\ new[Name(i)] = log[Name(i)]
    OBVIOUS
  <2>1. i # c
    BY <1>1, Places
  <2>2. Head(i) # Head(c) /\ Head(i) # Name(c) /\ Name(i) # Head(c) /\ Name(i) # Name(c)
    BY <1>1, <2>1, Places
  <2> QED BY <1>2, <2>2, Places
<1>5. Ready(new)
  BY <1>3, <1>4 DEF Ready, c
<1>6. \A t : Found(new, t) = Found(log, t)
  BY <1>1, <1>3, <1>4, FoundIs DEF c
<1>7. \A t : \A i \in Found(log, t) : i \in Slot /\ i < c
  BY <1>1, FoundIs DEF c
<1> QED BY <1>3, <1>4, <1>5, <1>6, <1>7 DEF Alike

(* entry_count goes up: the new entry counts.                              *)
LEMMA EntryCounted ==
  ASSUME ClientsAssumption, NEW log, Ready(log), log[Count] < Entries,
         NEW t \in Tests, NEW r \in Results,
         log[Head(log[Count])] = r, log[Name(log[Count])] = t, Found(log, t) = {},
         NEW new, new[Count] = log[Count] + 1, \A w \in Word : w # Count => new[w] = log[w]
  PROVE  /\ Ready(new) /\ log[Count] \in Found(new, t) /\ new[Head(log[Count])] = r
         /\ \A u \in Tests : u # t => /\ Found(new, u) = Found(log, u)
                                      /\ \A i \in Found(log, u) : new[Head(i)] = log[Head(i)]
<1> DEFINE c == log[Count]
<1>1. c \in Slot /\ c \in 0..Entries /\ c + 1 \in 0..Entries
  BY DEF Ready, Slot, ClientsAssumption
<1>2. log[Head(c)] = r /\ log[Name(c)] = t /\ new[Count] = c + 1 /\ log[Count] = c
  OBVIOUS
<1> HIDE DEF c
<1>3. /\ new[AuditSig] = log[AuditSig]
      /\ \A i \in Slot : new[Head(i)] = log[Head(i)] /\ new[Name(i)] = log[Name(i)]
  <2>1. AuditSig \in Word /\ AuditSig # Count
    BY Places
  <2>2. \A i \in Slot : Head(i) \in Word /\ Name(i) \in Word /\ Head(i) # Count /\ Name(i) # Count
    BY Places
  <2> QED BY <2>1, <2>2
<1>4. \A i \in Slot : i < c + 1 <=> i < c \/ i = c
  BY <1>1, Places
<1>5. \A i \in Slot : i < c /\ log[Name(i)] \in Tests =>
        /\ log[Head(i)] \in Results /\ log[Name(i)] # t
        /\ \A j \in Slot : j < c /\ log[Name(j)] = log[Name(i)] => i = j
  <2>1. \A i \in Slot : i < c /\ log[Name(i)] \in Tests =>
          /\ log[Head(i)] \in Results
          /\ \A j \in Slot : j < c /\ log[Name(j)] = log[Name(i)] => i = j
    BY <1>2 DEF Ready
  <2>2. \A i \in Slot : i < c /\ log[Head(i)] \in Results => log[Name(i)] # t
    BY <1>1, <1>2, FoundIs
  <2> QED BY <2>1, <2>2
<1>6. Ready(new)
  <2>1. ASSUME NEW i \in Slot, i < c + 1, new[Name(i)] \in Tests
        PROVE  /\ new[Head(i)] \in Results
               /\ \A j \in Slot : j < c + 1 /\ new[Name(j)] = new[Name(i)] => i = j
    <3>1. CASE i = c
      BY <1>2, <1>3, <1>4, <1>5, <2>1, <3>1
    <3>2. CASE i < c
      BY <1>2, <1>3, <1>4, <1>5, <2>1, <3>2
    <3> QED BY <1>4, <2>1, <3>1, <3>2
  <2>2. new[AuditSig] = Sig
    BY <1>3 DEF Ready
  <2> QED BY <1>1, <1>2, <2>1, <2>2 DEF Ready
<1>7. /\ \A u : Found(new, u) = {i \in Slot : i < c + 1 /\ new[Head(i)] \in Results /\ new[Name(i)] = u}
      /\ \A u : Found(log, u) = {i \in Slot : i < c /\ log[Head(i)] \in Results /\ log[Name(i)] = u}
  BY <1>1, <1>2, FoundIs
<1>8. c \in Found(new, t) /\ new[Head(c)] = r
  BY <1>1, <1>2, <1>3, <1>4, <1>7
<1>9. ASSUME NEW u \in Tests, u # t
      PROVE  /\ Found(new, u) = Found(log, u)
             /\ \A i \in Found(log, u) : new[Head(i)] = log[Head(i)]
  BY <1>2, <1>3, <1>4, <1>7, <1>9
<1> QED BY <1>2, <1>6, <1>8, <1>9

(* The result of an entry is replaced.                                     *)
LEMMA EntryRewritten ==
  ASSUME ClientsAssumption, NEW log, Ready(log), NEW t \in Tests, NEW r \in Results,
         NEW k \in Found(log, t), NEW new, new[Head(k)] = r,
         \A w \in Word : w # Head(k) => new[w] = log[w]
  PROVE  /\ Ready(new) /\ k \in Found(new, t)
         /\ \A u \in Tests : u # t => /\ Found(new, u) = Found(log, u)
                                      /\ \A i \in Found(log, u) : new[Head(i)] = log[Head(i)]
<1> DEFINE c == log[Count]
<1>1. /\ c \in 0..Entries
      /\ \A u : Found(log, u) = {i \in Slot : i < c /\ log[Head(i)] \in Results /\ log[Name(i)] = u}
  BY FoundIs DEF Ready
<1>2. k \in Slot /\ k < c /\ log[Name(k)] = t
  BY <1>1
<1>3. new[Count] = c /\ new[AuditSig] = log[AuditSig]
  <2>1. Count \in Word /\ AuditSig \in Word /\ Count # Head(k) /\ AuditSig # Head(k)
    BY <1>2, Places
  <2> QED BY <2>1
<1>4. \A i \in Slot : /\ new[Name(i)] = log[Name(i)]
                      /\ i # k => new[Head(i)] = log[Head(i)]
  <2>1. \A i \in Slot : /\ Name(i) \in Word /\ Name(i) # Head(k) /\ Head(i) \in Word
                        /\ i # k => Head(i) # Head(k)
    BY <1>2, Places
  <2> QED BY <2>1
<1>5. \A u : Found(new, u) = {i \in Slot : i < c /\ new[Head(i)] \in Results /\ new[Name(i)] = u}
  BY <1>1, <1>3, FoundIs
<1>6. \A i \in Slot : i < c /\ log[Name(i)] \in Tests =>
        /\ log[Head(i)] \in Results
        /\ \A j \in Slot : j < c /\ log[Name(j)] = log[Name(i)] => i = j
  BY DEF Ready
<1>7. log[AuditSig] = Sig
  BY DEF Ready
<1> HIDE DEF c
<1>8. Ready(new)
  <2>1. \A i \in Slot : i < c /\ new[Name(i)] \in Tests =>
          /\ new[Head(i)] \in Results
          /\ \A j \in Slot : j < c /\ new[Name(j)] = new[Name(i)] => i = j
    BY <1>4, <1>6
  <2> QED BY <1>1, <1>3, <1>7, <2>1 DEF Ready
<1>9. k \in Found(new, t)
  BY <1>2, <1>4, <1>5
<1>10. ASSUME NEW u \in Tests, u # t
       PROVE  /\ Found(new, u) = Found(log, u)
              /\ \A i \in Found(log, u) : new[Head(i)] = log[Head(i)]
  <2>1. k \notin Found(new, u) /\ k \notin Found(log, u)
    BY <1>1, <1>2, <1>4, <1>5, <1>10
  <2> QED BY <1>1, <1>4, <1>5, <2>1
<1> QED BY <1>8, <1>9, <1>10

(* What a power cut leaves of a log that was being moved.                  *)
LEMMA PrefixIsOK ==
  ASSUME ClientsAssumption, NEW new \in Contents, LogOK(new), NEW n \in 0..Words
  PROVE  LogOK(Upto(new, n, Store!BlankContent))
<1> DEFINE log == Upto(new, n, Store!BlankContent)
<1>1. \A w \in Word : log[w] = IF w < n THEN new[w] ELSE Blank
  BY DEF Upto, Store!BlankContent, Store!Word, Word
<1>2. n \in Int /\ Word \subseteq Int
  BY Places DEF ClientsAssumption, Words
<1> HIDE DEF log
<1>3. CASE Fresh(new) \/ n <= AuditSig
  <2>1. \A w \in Word : w > 0 => log[w] = Blank
    BY <1>1, <1>2, <1>3, Places DEF Fresh
  <2>2. Fresh(log)
    BY <2>1, Places DEF Fresh
  <2> QED BY <2>2 DEF LogOK, log
<1>4. CASE Ready(new) /\ ~(n <= AuditSig)
  <2>1. log[Count] = new[Count] /\ log[AuditSig] = new[AuditSig]
    BY <1>1, <1>2, <1>4, Places
  <2>2. ASSUME NEW i \in Slot, log[Name(i)] \in Tests
        PROVE  log[Name(i)] = new[Name(i)] /\ log[Head(i)] = new[Head(i)]
    <3>1. /\ Name(i) \in Word /\ Head(i) \in Word /\ Head(i) < Name(i)
          /\ Name(i) \in Int /\ Head(i) \in Int
      BY <1>2, Places
    <3>2. Name(i) < n
      BY <1>1, <2>2, <3>1 DEF ClientsAssumption
    <3>3. Head(i) < n
      BY <1>2, <3>1, <3>2
    <3> QED BY <1>1, <3>1, <3>2, <3>3
  <2>3. /\ new[AuditSig] = Sig /\ new[Count] \in 0..Entries
        /\ \A i \in Slot : i < new[Count] /\ new[Name(i)] \in Tests =>
             /\ new[Head(i)] \in Results
             /\ \A j \in Slot : j < new[Count] /\ new[Name(j)] = new[Name(i)] => i = j
    BY <1>4 DEF Ready
  <2>4. \A i \in Slot : i < new[Count] /\ log[Name(i)] \in Tests =>
          /\ log[Head(i)] \in Results
          /\ \A j \in Slot : j < new[Count] /\ log[Name(j)] = log[Name(i)] => i = j
    BY <2>2, <2>3
  <2>5. Ready(log)
    BY <2>1, <2>3, <2>4 DEF Ready
  <2> QED BY <2>5 DEF LogOK, log
<1> QED BY <1>3, <1>4 DEF LogOK

(***************************************************************************)
(* The steps of the clients: what they keep.                               *)
(***************************************************************************)

LEMMA SameFlash ==
  ASSUME flash' = flash, NEW b
  PROVE  /\ Data(b)' = Data(b) /\ Current(b)' = Current(b)
         /\ Exists(b)' <=> Exists(b)
         /\ CanPatch(b)' <=> CanPatch(b)
         /\ Kept(b)
<1>1. /\ Store!Versions(b)' = Store!Versions(b)
      /\ Store!Newest(b)' = Store!Newest(b)
  BY DEF Store!Versions, Store!Newest
<1>2. Current(b)' = Current(b) /\ (Exists(b)' <=> Exists(b))
  BY <1>1 DEF Current, Exists
<1>3. Data(b)' = Data(b) /\ (CanPatch(b)' <=> CanPatch(b))
  BY <1>2 DEF Data, CanPatch
<1> QED BY <1>2, <1>3 DEF Kept

LEMMA AuditKept ==
  ASSUME AuditInv, Kept(Audit), last' = last
  PROVE  AuditInv'
BY DEF AuditInv, Kept, LogOK, Fresh, Ready, Recorded, Found, Counted

LEMMA ConfigKept ==
  ASSUME ConfigInv, Kept(Config), cache' \in Settings \cup {Blank}, saved' \in {saved, Blank}
  PROVE  ConfigInv'
BY DEF ConfigInv, Kept

LEMMA RunningKept ==
  ASSUME RunningInv, \A b \in Files : Kept(b), running' \subseteq running
  PROVE  RunningInv'
<1>1. \A b \in running : Exists(b)' <=> Exists(b)
  BY DEF RunningInv, Kept
<1>2. Audit \in running => Data(Audit)' = Data(Audit)
  BY DEF RunningInv, Kept, Files
<1>3. \A b \in running' : Exists(b)'
  BY <1>1 DEF RunningInv
<1> QED BY <1>2, <1>3 DEF RunningInv

LEMMA IdleIs ==
  ASSUME ClientsAssumption
  PROVE  /\ Idle \in ShellState /\ Idle.pc = "idle"
         /\ \A pc \in {"overrun", "stale"} : /\ [Idle EXCEPT !.pc = pc] \in ShellState
                                           /\ [Idle EXCEPT !.pc = pc].pc = pc
<1>1. 0 \in Sector
  BY DEF Sector, Store!Sector, ClientsAssumption
<1> QED BY <1>1 DEF Idle, ShellState

(* The pointer of auditUpdate: a sector that is no copy of the log any     *)
(* more is not read, and one that still is has not been written.           *)
LEMMA ShellKept ==
  ASSUME ShellInv, RunningInv, Kept(Audit), shell' = shell, running \subseteq running',
         \A s \in Sector : flash'[s] = flash[s] \/ flash'[s].block # Audit
  PROVE  ShellInv'
<1>1. shell' \in ShellState /\ (shell'.pc # "idle" => Audit \in running')
  BY DEF ShellInv
<1>2. ASSUME shell'.pc = "appended"
      PROVE  /\ Appended'
             /\ Valid' => flash'[shell'.log].data[Count] = (Data(Audit)')[Count]
  <2>1. /\ Appended /\ shell.log \in Sector
        /\ Valid => flash[shell.log].data[Count] = Data(Audit)[Count]
    BY <1>2 DEF ShellInv, ShellState
  <2>2. Data(Audit)' = Data(Audit)
    BY <2>1 DEF Appended, NewTest, RunningInv, Kept
  <2>3. Appended'
    BY <2>1, <2>2 DEF Appended, NewTest, Found, Counted
  <2>4. Valid' => Valid /\ flash'[shell.log] = flash[shell.log]
    BY <2>1 DEF Valid
  <2> QED BY <2>1, <2>2, <2>3, <2>4
<1> QED BY <1>1, <1>2 DEF ShellInv

(* A patch begins: the flash has not changed yet.                          *)
LEMMA Writes ==
  ASSUME ClientsAssumption, FlashOK(flash), NEW b \in Files, NEW ws, Write(b, ws), Exists(b), flash' = flash,
         b = Audit => AuditPatchOK(ws)',
         b = Config => \E v \in Settings \cup {Blank} : ws = Configured(v)
  PROVE  PatchInv'
<1> DEFINE p == [block |-> b, words |-> ws]
<1>1. patch' = {p} /\ CanPatch(b)' /\ Exists(b)'
  BY SameFlash DEF Write
<1>2. p.block = b /\ p.words = ws
  OBVIOUS
<1>3. PatchOK(p)'
  BY <1>1, <1>2 DEF PatchOK
<1> QED BY <1>1, <1>3 DEF PatchInv

(***************************************************************************)
(* auditStart and configStart.                                             *)
(***************************************************************************)

(* A log that is not signed is fresh, and nothing is recorded in it.       *)
LEMMA Unsigned ==
  ASSUME ClientsAssumption, AuditInv, Exists(Audit), Data(Audit)[AuditSig] # Sig
  PROVE  Fresh(Data(Audit)) /\ \A t \in Tests : last[t] = "unknown"
<1>1. Fresh(Data(Audit))
  BY DEF AuditInv, LogOK, Ready
<1>2. ASSUME NEW t \in Tests, last[t] # "unknown" PROVE FALSE
  <2>1. last[t] = "none" \/ last[t] \in Results
    BY <1>2 DEF AuditInv
  <2>2. Recorded(Data(Audit), t)
    BY <1>2 DEF AuditInv
  <2> QED BY <2>1, <2>2 DEF Recorded
<1> QED BY <1>1, <1>2

LEMMA StartAuditInv ==
  ASSUME ClientsAssumption, IInv, StartAudit
  PROVE  IInv'
<1>1. /\ FlashOK(flash) /\ ShellInv /\ RunningInv /\ AuditInv /\ ConfigInv
      /\ patch = {} /\ Audit \notin running /\ UNCHANGED <<shell, cuts, last, saved>>
      /\ Audit \in Files /\ Config \in Files /\ Audit # Config
  BY DEF IInv, StartAudit, Start, Files, ClientsAssumption
<1>2. shell.pc = "idle" /\ shell'.pc = "idle"
  BY <1>1 DEF ShellInv
<1>3. ShellInv'
  BY <1>1, <1>2 DEF ShellInv
<1>4. saved' \in {saved, Blank} /\ saved \in Settings \cup {Blank} /\ cache \in Settings \cup {Blank}
  BY <1>1 DEF ConfigInv
<1>5. CASE ~Exists(Audit) /\ flash' \in Created(Audit) /\ UNCHANGED <<running, cache, patch>>
  <2>1. /\ FlashOK(flash') /\ Exists(Audit)' /\ \A w \in Word : (Data(Audit)')[w] = Blank
        /\ Kept(Config)
    BY <1>1, <1>5, CreatedStep
  <2>2. AuditInv'
    <3>1. Fresh(Data(Audit))'
      BY <2>1, Places DEF Fresh
    <3>2. \A t \in Tests : last'[t] = "unknown"
      BY <1>1, <1>5 DEF AuditInv
    <3> QED BY <1>1, <3>1, <3>2 DEF AuditInv, LogOK
  <2>3. ConfigInv'
    BY <1>1, <1>4, <1>5, <2>1, ConfigKept
  <2>4. RunningInv'
    BY <1>1, <1>5, <2>1 DEF RunningInv, Files, Kept
  <2>5. PatchInv'
    BY <1>1, <1>5 DEF PatchInv
  <2> QED BY <1>3, <2>1, <2>2, <2>3, <2>4, <2>5 DEF IInv
<1>6. CASE flash' = flash /\ Exists(Audit)
  <2>1. \A b \in Files : Kept(b)
    BY <1>6, SameFlash
  <2>2. AuditInv'
    BY <1>1, <2>1, AuditKept
  <2>3. CASE Data(Audit)[AuditSig] # Sig /\ Write(Audit, EmptyLog) /\ UNCHANGED <<running, cache>>
    <3>1. Data(Audit)[AuditSig] = Blank
      BY <1>1, <1>6, <2>3, Unsigned DEF Fresh
    <3>2. AuditPatchOK(EmptyLog)'
      BY <1>2, <1>6, <2>1, <3>1 DEF AuditPatchOK, Kept, Files, EmptyLog
    <3>3. PatchInv'
      BY <1>1, <1>6, <2>3, <3>2, Writes
    <3>4. RunningInv'
      BY <1>1, <2>1, <2>3, RunningKept
    <3>5. ConfigInv'
      BY <1>1, <1>4, <2>1, <2>3, ConfigKept
    <3> QED BY <1>1, <1>3, <1>6, <2>2, <3>3, <3>4, <3>5 DEF IInv
  <2>4. CASE /\ Data(Audit)[AuditSig] = Sig /\ running' = running \cup {Audit}
             /\ cache' = cache /\ patch' = patch
    <3>1. PatchInv'
      BY <1>1, <2>4 DEF PatchInv
    <3>2. RunningInv'
      BY <1>1, <1>6, <2>1, <2>4 DEF RunningInv, Kept, Files
    <3>3. ConfigInv'
      BY <1>1, <1>4, <2>1, <2>4, ConfigKept
    <3> QED BY <1>1, <1>3, <1>6, <2>2, <3>1, <3>2, <3>3 DEF IInv
  <2> QED BY <1>1, <1>6, <2>3, <2>4 DEF StartAudit, Start
<1> QED BY <1>1, <1>5, <1>6 DEF StartAudit, Start

LEMMA StartConfigInv ==
  ASSUME ClientsAssumption, IInv, StartConfig
  PROVE  IInv'
<1>1. /\ FlashOK(flash) /\ ShellInv /\ RunningInv /\ AuditInv /\ ConfigInv
      /\ patch = {} /\ Config \notin running /\ UNCHANGED <<shell, cuts, last, saved>>
      /\ Audit \in Files /\ Config \in Files /\ Audit # Config
  BY DEF IInv, StartConfig, Start, Files, ClientsAssumption
<1>2. saved' \in {saved, Blank} /\ saved \in Settings \cup {Blank} /\ cache \in Settings \cup {Blank}
  BY <1>1 DEF ConfigInv
<1>3. CASE ~Exists(Config) /\ flash' \in Created(Config) /\ UNCHANGED <<running, cache, patch>>
  <2>1. /\ FlashOK(flash') /\ Exists(Config)' /\ \A w \in Word : (Data(Config)')[w] = Blank
        /\ Kept(Audit) /\ \A s \in Sector : flash'[s] = flash[s] \/ flash'[s].block = Config
    BY <1>1, <1>3, CreatedStep
  <2>2. AuditInv'
    BY <1>1, <2>1, AuditKept
  <2>3. ConfigInv'
    <3>1. saved = Blank
      BY <1>1, <1>3 DEF ConfigInv
    <3>2. Field \in Word
      BY Places DEF Field, AuditSig
    <3> QED BY <1>1, <1>2, <1>3, <2>1, <3>1, <3>2 DEF ConfigInv
  <2>4. RunningInv'
    BY <1>1, <1>3, <2>1 DEF RunningInv, Files, Kept
  <2>5. ShellInv'
    BY <1>1, <1>3, <2>1, ShellKept
  <2>6. PatchInv'
    BY <1>1, <1>3 DEF PatchInv
  <2> QED BY <2>1, <2>2, <2>3, <2>4, <2>5, <2>6 DEF IInv
<1>4. CASE flash' = flash /\ Exists(Config)
  <2>1. \A b \in Files : Kept(b)
    BY <1>4, SameFlash
  <2>2. AuditInv'
    BY <1>1, <2>1, AuditKept
  <2>3. CASE Data(Config)[ConfigSig] # Sig /\ Write(Config, Defaults) /\ UNCHANGED <<running, cache>>
    <3>1. \E v \in Settings \cup {Blank} : Defaults = Configured(v)
      BY DEF Defaults, ClientsAssumption
    <3>2. PatchInv'
      BY <1>1, <1>4, <2>3, <3>1, Writes
    <3>3. RunningInv'
      BY <1>1, <2>1, <2>3, RunningKept
    <3>4. ConfigInv'
      BY <1>1, <1>2, <2>1, <2>3, ConfigKept
    <3>5. ShellInv'
      BY <1>1, <1>4, <2>1, <2>3, ShellKept
    <3> QED BY <1>1, <1>4, <2>2, <3>2, <3>3, <3>4, <3>5 DEF IInv
  <2>4. CASE /\ Data(Config)[ConfigSig] = Sig /\ running' = running \cup {Config}
             /\ cache' = Data(Config)[Field] /\ patch' = patch
    <3>1. PatchInv'
      BY <1>1, <2>4 DEF PatchInv
    <3>2. RunningInv'
      BY <1>1, <1>4, <2>1, <2>4 DEF RunningInv, Kept, Files
    <3>3. ConfigInv'
      <4>1. cache' \in Settings \cup {Blank}
        BY <1>1, <1>4, <2>4 DEF ConfigInv
      <4> QED BY <1>1, <1>2, <2>1, <4>1, ConfigKept
    <3>4. ShellInv'
      BY <1>1, <1>4, <2>1, <2>4, ShellKept
    <3> QED BY <1>1, <1>4, <2>2, <3>1, <3>2, <3>3, <3>4 DEF IInv
  <2> QED BY <1>1, <1>4, <2>3, <2>4 DEF StartConfig, Start
<1> QED BY <1>1, <1>3, <1>4 DEF StartConfig, Start

(***************************************************************************)
(* auditUpdate.                                                            *)
(***************************************************************************)

LEMMA RunningLog ==
  ASSUME ClientsAssumption, RunningInv, AuditInv, Audit \in running
  PROVE  /\ Exists(Audit) /\ Data(Audit)[AuditSig] = Sig /\ Ready(Data(Audit))
         /\ Data(Audit)[Count] \in 0..Entries
<1>1. Exists(Audit) /\ Data(Audit)[AuditSig] = Sig
  BY DEF RunningInv
<1>2. Sig # Blank
  BY DEF ClientsAssumption
<1>3. LogOK(Data(Audit))
  BY <1>1 DEF AuditInv
<1>4. Ready(Data(Audit))
  BY <1>1, <1>2, <1>3 DEF LogOK, Fresh
<1> QED BY <1>1, <1>4 DEF Ready

LEMMA AuditUpdateInv ==
  ASSUME ClientsAssumption, IInv, AuditUpdate
  PROVE  IInv'
<1>1. /\ FlashOK(flash) /\ ShellInv /\ RunningInv /\ AuditInv /\ ConfigInv
      /\ patch = {} /\ Audit \in running /\ UNCHANGED <<flash, running, cache, cuts, last, saved>>
      /\ Audit \in Files /\ Config \in Files /\ Audit # Config
  BY DEF IInv, AuditUpdate, Up, Files, ClientsAssumption
<1>2. \A b \in Files : Kept(b)
  BY <1>1, SameFlash
<1>3. AuditInv' /\ RunningInv' /\ FlashOK(flash)'
  BY <1>1, <1>2, AuditKept, RunningKept
<1>4. ConfigInv'
  <2>1. saved' \in {saved, Blank} /\ cache' \in Settings \cup {Blank}
    BY <1>1 DEF ConfigInv
  <2> QED BY <1>1, <1>2, <2>1, ConfigKept
<1>5. /\ Exists(Audit) /\ Ready(Data(Audit)) /\ Data(Audit)[Count] \in 0..Entries
      /\ Current(Audit) \in Sector
  BY <1>1, RunningLog, DataHas
<1>6. /\ Data(Audit)' = Data(Audit) /\ Current(Audit)' = Current(Audit)
  BY <1>1, SameFlash
<1>7. ASSUME NEW t \in Tests, NEW r \in Results, Found(Data(Audit), t) = {},
             Data(Audit)[Count] < Entries, Write(Audit, AppendPatch(t, r)),
             shell' = [pc |-> "append", test |-> t, result |-> r, log |-> Current(Audit)]
      PROVE  IInv'
  <2>1. shell'.pc = "append" /\ shell'.test = t /\ shell'.result = r /\ shell'.log = Current(Audit)
    BY <1>7
  <2>2. NewTest'
    BY <1>1, <1>6, <1>7, <2>1 DEF NewTest, Found, Counted
  <2>3. PICK ws : ws = AppendPatch(t, r)
    OBVIOUS
  <2>4. ws = Entry((Data(Audit)')[Count], shell'.test, shell'.result)
    BY <1>6, <2>1, <2>3 DEF AppendPatch
  <2>5. AuditPatchOK(ws)'
    BY <1>6, <2>1, <2>2, <2>4 DEF AuditPatchOK, Entry, Head, Name
  <2>6. PatchInv'
    <3>1. Write(Audit, ws)
      BY <1>7, <2>3
    <3> QED BY <1>1, <1>5, <2>5, <3>1, Writes
  <2>7. ShellInv'
    <3>1. shell' \in ShellState
      BY <1>5, <1>7 DEF ShellState
    <3> QED BY <1>1, <2>1, <3>1 DEF ShellInv
  <2> QED BY <1>3, <1>4, <2>6, <2>7 DEF IInv
<1>8. CASE shell' = [Idle EXCEPT !.pc = "overrun"] /\ UNCHANGED patch
  <2>1. shell'.pc = "overrun" /\ shell' \in ShellState
    BY <1>8, IdleIs
  <2>2. ShellInv'
    BY <1>1, <2>1 DEF ShellInv
  <2>3. PatchInv'
    BY <1>1, <1>8 DEF PatchInv
  <2> QED BY <1>3, <1>4, <2>2, <2>3 DEF IInv
<1>9. ASSUME NEW t \in Tests, NEW r \in Results, Found(Data(Audit), t) # {},
             Write(Audit, RewritePatch(t, r)),
             shell' = [pc |-> "update", test |-> t, result |-> r, log |-> Current(Audit)]
      PROVE  IInv'
  <2>1. shell'.pc = "update" /\ shell'.test = t /\ shell'.result = r
    BY <1>9
  <2>2. PICK k \in Found(Data(Audit), t) : RewritePatch(t, r) = Entry(k, t, r)
    BY <1>9 DEF RewritePatch
  <2>3. PICK ws : ws = RewritePatch(t, r)
    OBVIOUS
  <2>4. k \in Found(Data(Audit)', shell'.test) /\ ws = Entry(k, shell'.test, shell'.result)
    BY <1>6, <2>1, <2>2, <2>3
  <2>5. AuditPatchOK(ws)'
    BY <1>1, <2>1, <2>4 DEF AuditPatchOK, Found, Counted, Entry, Head, Name
  <2>6. PatchInv'
    <3>1. Write(Audit, ws)
      BY <1>9, <2>3
    <3> QED BY <1>1, <1>5, <2>5, <3>1, Writes
  <2>7. ShellInv'
    <3>1. shell' \in ShellState
      BY <1>5, <1>9 DEF ShellState
    <3> QED BY <1>1, <2>1, <3>1 DEF ShellInv
  <2> QED BY <1>3, <1>4, <2>6, <2>7 DEF IInv
<1>10. PICK t \in Tests, r \in Results :
         \/ /\ Found(Data(Audit), t) = {}
            /\ IF Data(Audit)[Count] < Entries
               THEN /\ Write(Audit, AppendPatch(t, r))
                    /\ shell' = [pc |-> "append", test |-> t, result |-> r, log |-> Current(Audit)]
               ELSE shell' = [Idle EXCEPT !.pc = "overrun"] /\ UNCHANGED patch
         \/ /\ Found(Data(Audit), t) # {}
            /\ Write(Audit, RewritePatch(t, r))
            /\ shell' = [pc |-> "update", test |-> t, result |-> r, log |-> Current(Audit)]
  BY DEF AuditUpdate
<1> QED BY <1>7, <1>8, <1>9, <1>10

LEMMA AuditCountInv ==
  ASSUME ClientsAssumption, IInv, AuditCount
  PROVE  IInv'
<1>1. /\ FlashOK(flash) /\ ShellInv /\ RunningInv /\ AuditInv /\ ConfigInv
      /\ patch = {} /\ shell.pc = "appended" /\ UNCHANGED <<flash, running, cache, cuts, last, saved>>
      /\ Audit \in Files /\ Config \in Files /\ Audit # Config
  BY DEF IInv, AuditCount, Files, ClientsAssumption
<1>2. \A b \in Files : Kept(b)
  BY <1>1, SameFlash
<1>3. AuditInv' /\ RunningInv' /\ FlashOK(flash)'
  BY <1>1, <1>2, AuditKept, RunningKept
<1>4. ConfigInv'
  <2>1. saved' \in {saved, Blank} /\ cache' \in Settings \cup {Blank}
    BY <1>1 DEF ConfigInv
  <2> QED BY <1>1, <1>2, <2>1, ConfigKept
<1>5. /\ Appended /\ Audit \in running
      /\ Valid => flash[shell.log].data[Count] = Data(Audit)[Count]
  BY <1>1 DEF ShellInv
<1>6. Data(Audit)' = Data(Audit) /\ Exists(Audit)
  BY <1>1, <1>5, SameFlash DEF RunningInv
<1>7. CASE Valid /\ Write(Audit, CountPatch) /\ shell' = [shell EXCEPT !.pc = "update"]
  <2>1. /\ shell'.pc = "update" /\ shell'.test = shell.test /\ shell'.result = shell.result
        /\ shell' \in ShellState
    BY <1>1, <1>7 DEF ShellInv, ShellState
  <2>2. Appended'
    BY <1>1, <1>5, <1>6, <2>1 DEF Appended, NewTest, Found, Counted
  <2>3. CountPatch = [w \in {Count} |-> Data(Audit)[Count] + 1]
    BY <1>5, <1>7 DEF CountPatch
  <2>4. AuditPatchOK([w \in {Count} |-> Data(Audit)[Count] + 1])'
    BY <1>6, <2>1, <2>2 DEF AuditPatchOK
  <2>5. PatchInv'
    <3> DEFINE ws == [w \in {Count} |-> Data(Audit)[Count] + 1]
    <3>1. Write(Audit, ws)
      BY <1>7, <2>3
    <3> HIDE DEF ws
    <3> QED BY <1>1, <1>6, <2>4, <3>1, Writes DEF ws
  <2>6. ShellInv'
    BY <1>1, <1>5, <2>1 DEF ShellInv
  <2> QED BY <1>3, <1>4, <2>5, <2>6 DEF IInv
<1>8. CASE shell' = [Idle EXCEPT !.pc = "stale"] /\ UNCHANGED patch
  <2>1. shell'.pc = "stale" /\ shell' \in ShellState
    BY <1>8, IdleIs
  <2>2. ShellInv'
    BY <1>1, <1>5, <2>1 DEF ShellInv
  <2>3. PatchInv'
    BY <1>1, <1>8 DEF PatchInv
  <2> QED BY <1>3, <1>4, <2>2, <2>3 DEF IInv
<1> QED BY <1>7, <1>8 DEF AuditCount

(***************************************************************************)
(* Settings.                                                               *)
(***************************************************************************)

LEMMA SetInv ==
  ASSUME ClientsAssumption, IInv, Set \/ LazyFlush
  PROVE  IInv'
<1>1. /\ FlashOK(flash) /\ ShellInv /\ RunningInv /\ AuditInv /\ ConfigInv
      /\ patch = {} /\ running = Files /\ UNCHANGED <<flash, running, shell, cuts, last, saved>>
      /\ Audit \in Files /\ Config \in Files /\ Audit # Config
  BY DEF IInv, Set, LazyFlush, Up, Free, Files, ClientsAssumption
<1>2. /\ \A b \in Files : Kept(b)
      /\ \A s \in Sector : flash'[s] = flash[s] \/ flash'[s].block # Audit
  BY <1>1, SameFlash
<1>3. AuditInv' /\ RunningInv' /\ FlashOK(flash)' /\ ShellInv'
  BY <1>1, <1>2, AuditKept, RunningKept, ShellKept
<1>4. ConfigInv'
  <2>1. saved' \in {saved, Blank}
    BY <1>1
  <2>2. cache' \in Settings \cup {Blank}
    BY <1>1 DEF Set, LazyFlush, ConfigInv
  <2> QED BY <1>1, <1>2, <2>1, <2>2, ConfigKept
<1>5. PatchInv'
  <2>1. CASE Set
    BY <1>1, <2>1 DEF Set, PatchInv
  <2>2. CASE LazyFlush
    <3>1. PICK ws : ws = FlushPatch
      OBVIOUS
    <3>2. Write(Config, ws) /\ Exists(Config) /\ \E v \in Settings \cup {Blank} : ws = Configured(v)
      BY <1>1, <2>2, <3>1 DEF LazyFlush, FlushPatch, RunningInv, ConfigInv
    <3> QED BY <1>1, <3>2, Writes
  <2> QED BY <2>1, <2>2
<1> QED BY <1>3, <1>4, <1>5 DEF IInv

(***************************************************************************)
(* storagePatchData.                                                       *)
(***************************************************************************)

LEMMA PatchWords ==
  ASSUME ClientsAssumption, IInv, NEW p \in patch
  PROVE  /\ patch = {p} /\ PatchOK(p) /\ WordsOK(p.words)
         /\ p.block = Config => \E v \in Settings \cup {Blank} :
              /\ v = p.words[Field] /\ DOMAIN p.words = {ConfigSig, Field}
              /\ p.words[ConfigSig] = Sig
<1>1. patch = {p} /\ PatchOK(p)
  BY DEF IInv, PatchInv
<1>2. \A v : (v \in Nat \/ v \in Tests \/ v \in Results \/ v \in Settings \/ v \in {Sig, Zero, Blank})
               => v \in Val \cup {Blank}
  BY DEF Val
<1>3. CASE p.block = Config
  <2>1. PICK v \in Settings \cup {Blank} : p.words = Configured(v)
    BY <1>1, <1>3 DEF PatchOK
  <2>2. ConfigSig # Field
    BY DEF ConfigSig, Field
  <2>3. DOMAIN p.words = {ConfigSig, Field} /\ p.words[ConfigSig] = Sig /\ p.words[Field] = v
    BY <2>1, <2>2 DEF Configured
  <2> QED BY <1>1, <1>2, <2>3 DEF WordsOK
<1>4. ASSUME p.block = Audit PROVE WordsOK(p.words)
  <2>1. AuditPatchOK(p.words)
    BY <1>1, <1>4 DEF PatchOK
  <2>2. CASE p.words = EmptyLog
    <3>1. \A w \in DOMAIN EmptyLog : EmptyLog[w] \in Nat \/ EmptyLog[w] \in {Sig, Zero, Blank}
      BY DEF EmptyLog
    <3> QED BY <1>2, <2>2, <3>1 DEF WordsOK
  <2>3. CASE \E i : p.words = Entry(i, shell.test, shell.result) /\ shell.test \in Tests /\ shell.result \in Results
    <3>1. \A w \in DOMAIN p.words : p.words[w] \in Tests \/ p.words[w] \in Results
      BY <2>3 DEF Entry
    <3> QED BY <1>2, <3>1 DEF WordsOK
  <2>4. CASE Appended /\ p.words = [w \in {Count} |-> Data(Audit)[Count] + 1]
    <3>1. Data(Audit)[Count] \in 0..Entries
      BY <2>4, RunningLog DEF IInv, Appended, NewTest
    <3>2. Data(Audit)[Count] + 1 \in Nat
      BY <3>1 DEF ClientsAssumption
    <3>3. \A w \in DOMAIN p.words : p.words[w] \in Nat
      BY <2>4, <3>2
    <3> QED BY <1>2, <3>3 DEF WordsOK
  <2> QED BY <2>1, <2>2, <2>3, <2>4 DEF AuditPatchOK, NewTest
<1>5. Audit # Config
  BY DEF ClientsAssumption
<1> QED BY <1>1, <1>3, <1>4, <1>5 DEF PatchOK, Files

(* What a patch of the log makes of it.                                    *)
LEMMA EmptyMerged ==
  ASSUME ClientsAssumption, FlashOK(flash), Exists(Audit), WordsOK(EmptyLog)
  PROVE  /\ Ready(Merged(Audit, EmptyLog)) /\ Merged(Audit, EmptyLog)[AuditSig] = Sig
         /\ Merged(Audit, EmptyLog)[Count] = 0
         /\ \A t : Found(Merged(Audit, EmptyLog), t) = {}
<1>1. Merged(Audit, EmptyLog)[Count] = 0 /\ Merged(Audit, EmptyLog)[AuditSig] = Sig
  <2>1. Count \in Word /\ AuditSig \in Word /\ Count # AuditSig
    BY Places
  <2>2. /\ Count \in DOMAIN EmptyLog /\ AuditSig \in DOMAIN EmptyLog
        /\ EmptyLog[Count] = 0 /\ EmptyLog[AuditSig] = Sig
    BY <2>1 DEF EmptyLog
  <2> QED BY <2>1, <2>2, MergedHas DEF Files
<1> QED BY <1>1, EmptyIsReady

Overlaid(new, log, ws) == \A w \in Word : new[w] = IF w \in DOMAIN ws THEN ws[w] ELSE log[w]

IsEntry(ws, i, t, r) == ws = Entry(i, t, r)

LEMMA MergedOverlays ==
  ASSUME ClientsAssumption, FlashOK(flash), Exists(Audit), NEW ws, WordsOK(ws)
  PROVE  Overlaid(Merged(Audit, ws), Data(Audit), ws)
BY MergedHas DEF Files, Overlaid

LEMMA EntryMerged ==
  ASSUME ClientsAssumption, NEW i \in Slot, NEW t, NEW r, NEW ws, IsEntry(ws, i, t, r),
         NEW new, NEW log, Overlaid(new, log, ws)
  PROVE  /\ new[Head(i)] = r /\ new[Name(i)] = t
         /\ \A w \in Word : w # Head(i) /\ w # Name(i) => new[w] = log[w]
         /\ DOMAIN ws = {Head(i), Name(i)}
<1>1. Head(i) \in Word /\ Name(i) \in Word /\ Head(i) # Name(i)
  BY Places
<1>2. DOMAIN ws = {Head(i), Name(i)} /\ ws[Head(i)] = r /\ ws[Name(i)] = t
  BY <1>1 DEF Entry, IsEntry
<1>3. \A w \in Word : new[w] = IF w \in DOMAIN ws THEN ws[w] ELSE log[w]
  BY DEF Overlaid
<1> QED BY <1>1, <1>2, <1>3

(* The log changes, and what is recorded with it.                          *)
LEMMA AuditChanged ==
  ASSUME Exists(Audit)', NEW new, Data(Audit)' = new, LogOK(new),
         last' \in [Tests -> Results \cup {"none", "unknown"}],
         \A t \in Tests : last'[t] # "unknown" =>
           /\ new[AuditSig] = Sig
           /\ last'[t] = "none" => Found(new, t) = {}
           /\ last'[t] \in Results => \E i \in Found(new, t) : new[Head(i)] = last'[t]
  PROVE  AuditInv'
<1>1. LogOK(Data(Audit))'
  BY DEF LogOK, Fresh, Ready
<1>2. ASSUME NEW t \in Tests, last'[t] # "unknown" PROVE Recorded(Data(Audit), t)'
  BY <1>2 DEF Recorded, Found, Counted, Head, Name
<1> QED BY <1>1, <1>2 DEF AuditInv

(* A log that has the same entries.                                        *)
LEMMA AuditAlike ==
  ASSUME AuditInv, Exists(Audit), NEW log, Data(Audit) = log,
         Exists(Audit)', NEW new, Data(Audit)' = new, LogOK(new), Alike(log, new), last' = last
  PROVE  AuditInv'
<1>1. ASSUME NEW t \in Tests, last[t] # "unknown"
      PROVE  /\ new[AuditSig] = Sig
             /\ last[t] = "none" => Found(new, t) = {}
             /\ last[t] \in Results => \E i \in Found(new, t) : new[Head(i)] = last[t]
  <2>1. /\ Recorded(log, t) /\ last[t] \in Results \cup {"none", "unknown"}
    BY <1>1 DEF AuditInv
  <2>2. log[AuditSig] = Sig
    BY <1>1, <2>1 DEF Recorded
  <2>3. /\ new[AuditSig] = log[AuditSig] /\ Found(new, t) = Found(log, t)
        /\ \A i \in Found(log, t) : new[Head(i)] = log[Head(i)]
    BY DEF Alike
  <2> QED BY <2>1, <2>2, <2>3 DEF Recorded
<1>2. last \in [Tests -> Results \cup {"none", "unknown"}]
  BY DEF AuditInv
<1> QED BY <1>1, <1>2, AuditChanged

(* A log that has them, and a new result of the test s.                    *)
LEMMA AuditResult ==
  ASSUME AuditInv, Exists(Audit), NEW log, Data(Audit) = log, log[AuditSig] = Sig,
         Exists(Audit)', NEW new, Data(Audit)' = new, Ready(new),
         NEW s \in Tests, NEW r \in Results, r # "none",
         last'[s] = r, last' \in [Tests -> Results \cup {"none", "unknown"}],
         \A u \in Tests : u # s => last'[u] = last[u],
         NEW k \in Found(new, s), new[Head(k)] = r,
         \A u \in Tests : u # s => /\ Found(new, u) = Found(log, u)
                                   /\ \A i \in Found(log, u) : new[Head(i)] = log[Head(i)]
  PROVE  AuditInv'
<1>1. new[AuditSig] = Sig /\ LogOK(new)
  BY DEF Ready, LogOK
<1>4. ASSUME NEW t \in Tests, last'[t] # "unknown"
      PROVE  /\ last'[t] = "none" => Found(new, t) = {}
             /\ last'[t] \in Results => \E i \in Found(new, t) : new[Head(i)] = last'[t]
  <2>1. CASE t = s
    BY <2>1
  <2>2. CASE t # s
    <3>1. Recorded(log, t) /\ last'[t] = last[t]
      BY <1>4, <2>2 DEF AuditInv
    <3>2. /\ Found(new, t) = Found(log, t)
          /\ \A i \in Found(log, t) : new[Head(i)] = log[Head(i)]
      BY <2>2
    <3> QED BY <3>1, <3>2 DEF Recorded
  <2> QED BY <2>1, <2>2
<1> QED BY <1>1, <1>4, AuditChanged

LEMMA ReturnAudit ==
  ASSUME ClientsAssumption, IInv, NEW p \in patch, p.block = Audit,
         flash' \in Patched(p.block, p.words), patch' = {},
         shell' = CASE shell.pc = "append" -> [shell EXCEPT !.pc = "appended"] [] OTHER -> Idle,
         last' = CASE shell.pc = "update" -> [last EXCEPT ![shell.test] = shell.result]
                   [] shell.pc = "idle" -> [t \in Tests |-> "none"]
                   [] OTHER -> last,
         UNCHANGED <<running, cache, saved>>
  PROVE  IInv'
<1>1. /\ FlashOK(flash) /\ ShellInv /\ RunningInv /\ AuditInv /\ ConfigInv
      /\ Audit \in Files /\ Config \in Files /\ Audit # Config
      /\ PatchOK(p) /\ WordsOK(p.words) /\ Exists(Audit) /\ CanPatch(Audit) /\ AuditPatchOK(p.words)
  BY PatchWords DEF IInv, Files, ClientsAssumption, PatchOK
<1>2. /\ FlashOK(flash') /\ Exists(Audit)' /\ Data(Audit)' = Merged(Audit, p.words)
      /\ Kept(Config)
      /\ \A w \in Word : w \notin DOMAIN p.words => flash'[Current(Audit)].data[w] = Data(Audit)[w]
  BY <1>1, PatchedStep
<1>3. PatchInv' /\ running' = running
  BY DEF PatchInv
<1>4. ConfigInv'
  <2>1. saved' \in {saved, Blank} /\ cache' \in Settings \cup {Blank}
    BY <1>1 DEF ConfigInv
  <2> QED BY <1>1, <1>2, <2>1, ConfigKept
<1>5. ASSUME (Data(Audit)')[AuditSig] = Sig PROVE RunningInv'
  BY <1>1, <1>2, <1>3, <1>5 DEF RunningInv, Kept, Files
<1>6. PICK log : log = Data(Audit)
  OBVIOUS
<1>7. PICK new : new = Merged(Audit, p.words)
  OBVIOUS
<1>8. ASSUME shell' = Idle PROVE ShellInv'
  BY <1>8, IdleIs DEF ShellInv
<1>9. CASE shell.pc = "idle" /\ p.words = EmptyLog
  <2>1. Ready(new) /\ new[AuditSig] = Sig /\ \A t : Found(new, t) = {}
    BY <1>1, <1>7, <1>9, EmptyMerged
  <2>2. last' = [t \in Tests |-> "none"] /\ shell' = Idle
    BY <1>9
  <2>3. /\ \A t \in Tests : last'[t] = "none"
        /\ last' \in [Tests -> Results \cup {"none", "unknown"}] /\ LogOK(new)
    BY <2>1, <2>2 DEF LogOK
  <2>4. "none" \notin Results
    BY DEF ClientsAssumption
  <2>5. AuditInv'
    BY <1>2, <1>7, <2>1, <2>3, <2>4, AuditChanged
  <2> QED BY <1>2, <1>3, <1>4, <1>5, <1>7, <1>8, <2>1, <2>2, <2>5 DEF IInv
<1>10. CASE /\ shell.pc = "append" /\ NewTest /\ shell.log = Current(Audit)
            /\ p.words = Entry(Data(Audit)[Count], shell.test, shell.result)
  <2> DEFINE c == log[Count]
  <2>1. Ready(log) /\ c \in Slot /\ c < Entries /\ log[AuditSig] = Sig /\ Current(Audit) \in Sector
    <3>1. Ready(log) /\ c \in 0..Entries /\ log[AuditSig] = Sig /\ Current(Audit) \in Sector
      BY <1>1, <1>6, <1>10, RunningLog, DataHas DEF NewTest
    <3>2. c < Entries
      BY <1>6, <1>10 DEF NewTest
    <3> QED BY <3>1, <3>2 DEF Slot, ClientsAssumption
  <2>2. /\ new[Head(c)] = shell.result /\ new[Name(c)] = shell.test
        /\ \A w \in Word : w # Head(c) /\ w # Name(c) => new[w] = log[w]
        /\ DOMAIN p.words = {Head(c), Name(c)}
    <3>1. PICK t, r, ws : t = shell.test /\ r = shell.result /\ ws = p.words
      OBVIOUS
    <3>2. IsEntry(ws, c, t, r) /\ Overlaid(new, log, ws)
      BY <1>1, <1>6, <1>7, <1>10, <3>1, MergedOverlays DEF IsEntry
    <3>3. c \in Slot
      BY <2>1
    <3> HIDE DEF c
    <3>4. /\ new[Head(c)] = r /\ new[Name(c)] = t
          /\ \A w \in Word : w # Head(c) /\ w # Name(c) => new[w] = log[w]
          /\ DOMAIN ws = {Head(c), Name(c)}
      BY <3>2, <3>3, EntryMerged
    <3> QED BY <3>1, <3>4
  <2>3. Ready(new) /\ Alike(log, new) /\ new[Count] = c
    BY <2>1, <2>2, EntryAside
  <2>4. AuditInv'
    <3>1. last' = last /\ LogOK(new)
      BY <1>10, <2>3 DEF LogOK
    <3> QED BY <1>1, <1>2, <1>6, <1>7, <2>3, <3>1, AuditAlike
  <2>5. new[AuditSig] = Sig
    BY <2>1, <2>3 DEF Alike
  <2>6. /\ shell'.pc = "appended" /\ shell'.test = shell.test /\ shell'.result = shell.result
        /\ shell'.log = shell.log /\ shell' \in ShellState
    <3>1. shell' = [shell EXCEPT !.pc = "appended"] /\ shell \in ShellState
      BY <1>1, <1>10 DEF ShellInv
    <3> QED BY <3>1 DEF ShellState
  <2>7. Appended'
    <3>1. /\ Audit \in running /\ shell.test \in Tests /\ shell.result \in Results
          /\ Found(new, shell.test) = {}
      BY <1>6, <1>10, <2>3 DEF NewTest, Alike
    <3>2. (Data(Audit))' = new
      BY <1>2, <1>7
    <3> QED BY <1>3, <2>1, <2>2, <2>3, <2>6, <3>1, <3>2 DEF Appended, NewTest, Found, Counted, Head, Name
  <2>8. flash'[shell'.log].data[Count] = (Data(Audit)')[Count]
    <3>1. Count \in Word /\ Count \notin DOMAIN p.words
      BY <2>1, <2>2, Places
    <3> QED BY <1>2, <1>6, <1>7, <1>10, <2>3, <2>6, <3>1
  <2>9. ShellInv'
    <3>1. Audit \in running'
      BY <1>3, <1>10 DEF NewTest
    <3> QED BY <2>6, <2>7, <2>8, <3>1 DEF ShellInv
  <2> QED BY <1>2, <1>3, <1>4, <1>5, <1>7, <2>4, <2>5, <2>9 DEF IInv
<1>11. ASSUME shell.pc = "update", shell.test \in Tests, shell.result \in Results
       PROVE  /\ shell' = Idle
              /\ last'[shell.test] = shell.result
              /\ last' \in [Tests -> Results \cup {"none", "unknown"}]
              /\ \A u \in Tests : u # shell.test => last'[u] = last[u]
  <2>1. last' = [last EXCEPT ![shell.test] = shell.result] /\ shell' = Idle
    BY <1>11
  <2>2. last \in [Tests -> Results \cup {"none", "unknown"}]
    BY <1>1 DEF AuditInv
  <2> QED BY <1>11, <2>1, <2>2
<1>12. \A r \in Results : r # "none"
  BY DEF ClientsAssumption
<1>13. CASE shell.pc = "update" /\ Appended /\ p.words = [w \in {Count} |-> Data(Audit)[Count] + 1]
  <2> DEFINE c == log[Count]
  <2>1. /\ Ready(log) /\ c < Entries /\ log[AuditSig] = Sig /\ shell.test \in Tests /\ shell.result \in Results
        /\ log[Head(c)] = shell.result /\ log[Name(c)] = shell.test /\ Found(log, shell.test) = {}
    BY <1>1, <1>6, <1>13, RunningLog DEF Appended, NewTest
  <2>2. new[Count] = c + 1 /\ \A w \in Word : w # Count => new[w] = log[w]
    <3>1. \A w \in Word : new[w] = IF w \in DOMAIN p.words THEN p.words[w] ELSE log[w]
      BY <1>1, <1>6, <1>7, MergedOverlays DEF Overlaid
    <3>2. DOMAIN p.words = {Count} /\ p.words[Count] = c + 1
      BY <1>6, <1>13
    <3>3. Count \in Word
      BY Places
    <3> QED BY <3>1, <3>2, <3>3
  <2>3. /\ Ready(new) /\ c \in Found(new, shell.test) /\ new[Head(c)] = shell.result
        /\ \A u \in Tests : u # shell.test =>
             /\ Found(new, u) = Found(log, u)
             /\ \A i \in Found(log, u) : new[Head(i)] = log[Head(i)]
    BY <2>1, <2>2, EntryCounted
  <2>4. AuditInv'
    BY <1>1, <1>2, <1>6, <1>7, <1>11, <1>12, <1>13, <2>1, <2>3, AuditResult
  <2>5. new[AuditSig] = Sig
    BY <2>3 DEF Ready
  <2> QED BY <1>2, <1>3, <1>4, <1>5, <1>7, <1>8, <1>11, <1>13, <2>4, <2>5 DEF IInv
<1>14. CASE /\ shell.pc = "update" /\ Audit \in running /\ shell.test \in Tests /\ shell.result \in Results
            /\ \E i \in Found(Data(Audit), shell.test) : p.words = Entry(i, shell.test, shell.result)
  <2>1. PICK k \in Found(log, shell.test) : p.words = Entry(k, shell.test, shell.result)
    BY <1>6, <1>14
  <2>2. Ready(log) /\ log[AuditSig] = Sig /\ log[Count] \in 0..Entries
    BY <1>1, <1>6, <1>14, RunningLog
  <2>3. k \in Slot /\ log[Name(k)] = shell.test
    BY <2>1, <2>2, FoundIs
  <2>4. /\ new[Head(k)] = shell.result
        /\ \A w \in Word : w # Head(k) => new[w] = log[w]
    <3>1. /\ new[Head(k)] = shell.result /\ new[Name(k)] = shell.test
          /\ \A w \in Word : w # Head(k) /\ w # Name(k) => new[w] = log[w]
      <4>1. PICK i \in Slot : i = k
        BY <2>3
      <4>2. PICK t, r, ws : t = shell.test /\ r = shell.result /\ ws = p.words
        OBVIOUS
      <4>3. IsEntry(ws, i, t, r) /\ Overlaid(new, log, ws)
        BY <1>1, <1>6, <1>7, <2>1, <4>1, <4>2, MergedOverlays DEF IsEntry
      <4>4. /\ new[Head(i)] = r /\ new[Name(i)] = t
            /\ \A w \in Word : w # Head(i) /\ w # Name(i) => new[w] = log[w]
            /\ DOMAIN ws = {Head(i), Name(i)}
        BY <4>3, EntryMerged
      <4> QED BY <4>1, <4>2, <4>4
    <3> QED BY <2>3, <3>1
  <2>5. /\ Ready(new) /\ k \in Found(new, shell.test)
        /\ \A u \in Tests : u # shell.test =>
             /\ Found(new, u) = Found(log, u)
             /\ \A i \in Found(log, u) : new[Head(i)] = log[Head(i)]
    BY <1>14, <2>1, <2>2, <2>4, EntryRewritten
  <2>6. AuditInv'
    BY <1>1, <1>2, <1>6, <1>7, <1>11, <1>12, <1>14, <2>2, <2>4, <2>5, AuditResult
  <2>7. new[AuditSig] = Sig
    BY <2>5 DEF Ready
  <2> QED BY <1>2, <1>3, <1>4, <1>5, <1>7, <1>8, <1>11, <1>14, <2>6, <2>7 DEF IInv
<1> QED BY <1>1, <1>9, <1>10, <1>13, <1>14 DEF AuditPatchOK

LEMMA ReturnConfig ==
  ASSUME ClientsAssumption, IInv, NEW p \in patch, p.block = Config,
         flash' \in Patched(p.block, p.words), patch' = {}, saved' = p.words[Field],
         UNCHANGED <<running, cache, shell, last>>
  PROVE  IInv'
<1>1. /\ FlashOK(flash) /\ ShellInv /\ RunningInv /\ AuditInv /\ ConfigInv
      /\ Audit \in Files /\ Config \in Files /\ Audit # Config
      /\ WordsOK(p.words) /\ Exists(Config) /\ CanPatch(Config)
  BY PatchWords DEF IInv, Files, ClientsAssumption, PatchOK
<1>2. PICK v \in Settings \cup {Blank} :
        v = p.words[Field] /\ DOMAIN p.words = {ConfigSig, Field} /\ p.words[ConfigSig] = Sig
  BY PatchWords
<1>3. /\ FlashOK(flash') /\ Exists(Config)' /\ Data(Config)' = Merged(Config, p.words)
      /\ Kept(Audit)
      /\ \A s \in Sector : flash'[s] = flash[s] \/ flash'[s].block = Config
  BY <1>1, PatchedStep
<1>4. (Data(Config)')[ConfigSig] = Sig /\ (Data(Config)')[Field] = v
  <2>1. PICK new : new = Merged(Config, p.words)
    OBVIOUS
  <2>2. \A w \in Word : w \in DOMAIN p.words => new[w] = p.words[w]
    BY <1>1, <2>1, MergedHas
  <2>3. ConfigSig \in Word /\ Field \in Word
    BY Places DEF ConfigSig, Field, Count, AuditSig
  <2>4. new[ConfigSig] = Sig /\ new[Field] = v
    BY <1>2, <2>2, <2>3
  <2> QED BY <1>3, <2>1, <2>4 DEF ConfigSig, Field
<1>5. ConfigInv'
  <2>1. cache' \in Settings \cup {Blank} /\ saved' = v
    BY <1>1, <1>2 DEF ConfigInv
  <2> QED BY <1>3, <1>4, <2>1 DEF ConfigInv, ConfigSig, Field
<1>6. AuditInv'
  BY <1>1, <1>3, AuditKept
<1>7. RunningInv'
  BY <1>1, <1>3 DEF RunningInv, Files, Kept
<1>8. ShellInv'
  <2>1. \A s \in Sector : flash'[s] = flash[s] \/ flash'[s].block # Audit
    BY <1>1, <1>3
  <2> QED BY <1>1, <1>3, <2>1, ShellKept
<1>9. PatchInv'
  BY DEF PatchInv
<1> QED BY <1>3, <1>5, <1>6, <1>7, <1>8, <1>9 DEF IInv

LEMMA ReturnInv ==
  ASSUME ClientsAssumption, IInv, Return
  PROVE  IInv'
<1>1. PICK p \in patch :
        /\ flash' \in Patched(p.block, p.words)
        /\ patch' = {}
        /\ IF p.block = Audit
           THEN /\ shell' = CASE shell.pc = "append" -> [shell EXCEPT !.pc = "appended"]
                              [] OTHER -> Idle
                /\ last' = CASE shell.pc = "update" -> [last EXCEPT ![shell.test] = shell.result]
                             [] shell.pc = "idle" -> [t \in Tests |-> "none"]
                             [] OTHER -> last
                /\ UNCHANGED saved
           ELSE saved' = p.words[Field] /\ UNCHANGED <<shell, last>>
        /\ UNCHANGED <<running, cache, cuts>>
  BY DEF Return
<1>2. p.block = Audit \/ (p.block = Config /\ Audit # Config)
  BY PatchWords DEF PatchOK, Files, ClientsAssumption
<1>3. CASE p.block = Audit
  BY <1>1, <1>3, ReturnAudit
<1>4. CASE p.block = Config /\ Audit # Config
  BY <1>1, <1>4, ReturnConfig
<1> QED BY <1>2, <1>3, <1>4

(***************************************************************************)
(* Power cuts.                                                             *)
(***************************************************************************)

LEMMA PowerOn ==
  ASSUME ClientsAssumption, running' = {}, patch' = {}, shell' = Idle
  PROVE  ShellInv' /\ PatchInv' /\ RunningInv'
<1>1. shell'.pc = "idle" /\ shell' \in ShellState
  BY IdleIs
<1> QED BY <1>1 DEF ShellInv, PatchInv, RunningInv

(* Whatever auditUpdate or init_audit writes, the log is well formed.      *)
LEMMA MergedLog ==
  ASSUME ClientsAssumption, IInv, NEW p \in patch, p.block = Audit
  PROVE  LogOK(Merged(Audit, p.words))
<1>1. /\ FlashOK(flash) /\ ShellInv /\ RunningInv /\ AuditInv /\ Audit \in Files
      /\ WordsOK(p.words) /\ Exists(Audit) /\ AuditPatchOK(p.words)
  BY PatchWords DEF IInv, Files, PatchOK
<1>2. PICK log, new, t, r, ws : /\ log = Data(Audit) /\ new = Merged(Audit, p.words)
                                /\ t = shell.test /\ r = shell.result /\ ws = p.words
  OBVIOUS
<1>3. CASE p.words = EmptyLog
  BY <1>1, <1>3, EmptyMerged DEF LogOK
<1>4. CASE NewTest /\ p.words = Entry(Data(Audit)[Count], shell.test, shell.result)
  <2>1. Ready(log) /\ log[Count] \in 0..Entries /\ log[Count] < Entries
    BY <1>1, <1>2, <1>4, RunningLog DEF NewTest
  <2>2. PICK c \in Slot : c = log[Count]
    BY <2>1 DEF Slot, ClientsAssumption
  <2>3. IsEntry(ws, c, t, r) /\ Overlaid(new, log, ws)
    BY <1>1, <1>2, <1>4, <2>2, MergedOverlays DEF IsEntry
  <2>4. /\ new[Head(c)] = r /\ new[Name(c)] = t
        /\ \A w \in Word : w # Head(c) /\ w # Name(c) => new[w] = log[w]
        /\ DOMAIN ws = {Head(c), Name(c)}
    BY <2>2, <2>3, EntryMerged
  <2>5. \A w \in Word : w # Head(log[Count]) /\ w # Name(log[Count]) => new[w] = log[w]
    BY <2>2, <2>4
  <2>6. Ready(new)
    BY <2>1, <2>5, EntryAside
  <2> QED BY <1>2, <2>6 DEF LogOK
<1>5. CASE Appended /\ p.words = [w \in {Count} |-> Data(Audit)[Count] + 1]
  <2>1. /\ Ready(log) /\ log[Count] < Entries /\ t \in Tests /\ r \in Results
        /\ log[Head(log[Count])] = r /\ log[Name(log[Count])] = t /\ Found(log, t) = {}
    BY <1>1, <1>2, <1>5, RunningLog DEF Appended, NewTest
  <2>2. new[Count] = log[Count] + 1 /\ \A w \in Word : w # Count => new[w] = log[w]
    <3>1. \A w \in Word : new[w] = IF w \in DOMAIN p.words THEN p.words[w] ELSE log[w]
      BY <1>1, <1>2, MergedOverlays DEF Overlaid
    <3>2. DOMAIN p.words = {Count} /\ p.words[Count] = log[Count] + 1
      BY <1>2, <1>5
    <3>3. Count \in Word
      BY Places
    <3> QED BY <3>1, <3>2, <3>3
  <2>3. Ready(new)
    BY <2>1, <2>2, EntryCounted
  <2> QED BY <1>2, <2>3 DEF LogOK
<1>6. CASE /\ Audit \in running /\ shell.test \in Tests /\ shell.result \in Results
           /\ \E i \in Found(Data(Audit), shell.test) : p.words = Entry(i, shell.test, shell.result)
  <2>1. PICK k \in Found(log, t) : ws = Entry(k, t, r)
    BY <1>2, <1>6
  <2>2. Ready(log) /\ log[Count] \in 0..Entries /\ t \in Tests /\ r \in Results
    BY <1>1, <1>2, <1>6, RunningLog
  <2>3. log[Name(k)] = t /\ k \in Slot
    BY <2>2, FoundIs
  <2>4. IsEntry(ws, k, t, r) /\ Overlaid(new, log, ws) /\ k \in Slot
    BY <1>1, <1>2, <2>1, <2>3, MergedOverlays DEF IsEntry
  <2>5. /\ new[Head(k)] = r /\ new[Name(k)] = t
        /\ \A w \in Word : w # Head(k) /\ w # Name(k) => new[w] = log[w]
        /\ DOMAIN ws = {Head(k), Name(k)}
    BY <2>4, EntryMerged
  <2>6. new[Head(k)] = r /\ \A w \in Word : w # Head(k) => new[w] = log[w]
    BY <2>3, <2>5
  <2>7. Ready(new)
    BY <2>2, <2>6, EntryRewritten
  <2> QED BY <1>2, <2>7 DEF LogOK
<1> QED BY <1>1, <1>3, <1>4, <1>5, <1>6 DEF AuditPatchOK

(* A patch of the log in place is cut short: init_audit's leaves nothing   *)
(* or an empty log, and an entry is not counted yet; the others are moves. *)
LEMMA TornInPlace ==
  ASSUME ClientsAssumption, IInv, NEW p \in patch, p.block = Audit, InPlace(Audit, p.words),
         NEW n \in 0..Words, Exists(Audit)',
         NEW new, new = Upto(Merged(Audit, p.words), n, Data(Audit)), Data(Audit)' = new, last' = last
  PROVE  AuditInv'
<1>1. /\ FlashOK(flash) /\ ShellInv /\ RunningInv /\ AuditInv /\ Audit \in Files
      /\ WordsOK(p.words) /\ Exists(Audit) /\ AuditPatchOK(p.words)
  BY PatchWords DEF IInv, Files, PatchOK
<1>2. PICK log, ws, whole : log = Data(Audit) /\ ws = p.words /\ whole = Merged(Audit, p.words)
  OBVIOUS
<1>3. \A w \in Word : /\ new[w] = IF w < n THEN whole[w] ELSE log[w]
                      /\ whole[w] = IF w \in DOMAIN ws THEN ws[w] ELSE log[w]
  BY <1>1, <1>2, MergedHas DEF Upto
<1>4. \A w \in DOMAIN ws : log[w] = Blank
  BY <1>2 DEF InPlace
<1>5. n \in Int /\ Word \subseteq Int
  BY Places DEF ClientsAssumption, Words
<1>6. CASE ws = EmptyLog /\ log[AuditSig] = Blank
  <2>1. Fresh(log) /\ \A t \in Tests : last[t] = "unknown"
    <3>1. Data(Audit)[AuditSig] # Sig
      BY <1>2, <1>6 DEF ClientsAssumption
    <3> QED BY <1>1, <1>2, <3>1, Unsigned
  <2>2. LogOK(new)
    <3>1. CASE n <= 1
      <4>1. \A w \in Word : w > 0 => new[w] = Blank
        BY <1>3, <1>5, <2>1, <3>1 DEF Fresh
      <4>2. Fresh(new)
        BY <4>1, Places DEF Fresh
      <4> QED BY <4>2 DEF LogOK
    <3>2. CASE ~(n <= 1)
      <4>1. Count \in Word /\ AuditSig \in Word /\ Count # AuditSig /\ Count < n /\ AuditSig < n
        BY <1>5, <3>2, Places
      <4>2. /\ Count \in DOMAIN EmptyLog /\ AuditSig \in DOMAIN EmptyLog
            /\ EmptyLog[Count] = 0 /\ EmptyLog[AuditSig] = Sig
        BY <4>1 DEF EmptyLog
      <4>3. new[Count] = 0 /\ new[AuditSig] = Sig
        BY <1>3, <1>6, <4>1, <4>2
      <4>4. Ready(new)
        BY <4>3, EmptyIsReady
      <4> QED BY <4>4 DEF LogOK
    <3> QED BY <3>1, <3>2
  <2>3. last' \in [Tests -> Results \cup {"none", "unknown"}] /\ \A t \in Tests : last'[t] = "unknown"
    BY <1>1, <2>1 DEF AuditInv
  <2> QED BY <2>2, <2>3, AuditChanged
<1>7. CASE NewTest /\ ws = Entry(log[Count], shell.test, shell.result)
  <2>1. Ready(log) /\ log[Count] < Entries
    BY <1>1, <1>2, <1>7, RunningLog DEF NewTest
  <2>2. DOMAIN ws = {Head(log[Count]), Name(log[Count])}
    BY <1>7 DEF Entry
  <2>3. \A w \in Word : w # Head(log[Count]) /\ w # Name(log[Count]) => new[w] = log[w]
    BY <1>3, <2>2
  <2>4. Ready(new) /\ Alike(log, new)
    BY <2>1, <2>3, EntryAside
  <2>5. LogOK(new)
    BY <2>4 DEF LogOK
  <2> QED BY <1>1, <1>2, <2>4, <2>5, AuditAlike
<1>8. CASE Appended /\ ws = [w \in {Count} |-> Data(Audit)[Count] + 1]
  <2>1. log[Count] \in 0..Entries
    BY <1>1, <1>2, <1>8, RunningLog DEF Appended, NewTest
  <2>2. log[Count] = Blank
    BY <1>4, <1>8
  <2> QED BY <2>1, <2>2 DEF ClientsAssumption
<1>9. CASE Audit \in running /\ \E i \in Found(log, shell.test) : ws = Entry(i, shell.test, shell.result)
  <2>1. log[Count] \in 0..Entries
    BY <1>1, <1>2, <1>9, RunningLog
  <2>2. PICK k \in Found(log, shell.test) : ws = Entry(k, shell.test, shell.result)
    BY <1>9
  <2>3. log[Head(k)] \in Results
    BY <2>1, FoundIs
  <2>4. Head(k) \in DOMAIN ws
    BY <2>2 DEF Entry
  <2> QED BY <1>4, <2>3, <2>4 DEF ClientsAssumption
<1> QED BY <1>1, <1>2, <1>6, <1>7, <1>8, <1>9 DEF AuditPatchOK

LEMMA TornLog ==
  ASSUME ClientsAssumption, IInv, NEW p \in patch, p.block = Audit, flash' \in Torn(p.block, p.words),
         last' = IF p.block = Audit /\ ~InPlace(Audit, p.words) THEN [t \in Tests |-> "unknown"] ELSE last,
         saved' = saved, cache' \in Settings \cup {Blank}
  PROVE  FlashOK(flash') /\ AuditInv' /\ ConfigInv'
<1>1. /\ FlashOK(flash) /\ AuditInv /\ ConfigInv /\ Audit \in Files /\ Config \in Files /\ Audit # Config
      /\ WordsOK(p.words) /\ Exists(Audit) /\ CanPatch(Audit)
  BY PatchWords DEF IInv, Files, PatchOK, ClientsAssumption
<1>2. PICK below : below = IF InPlace(Audit, p.words) THEN Data(Audit) ELSE Store!BlankContent
  OBVIOUS
<1>3. /\ FlashOK(flash') /\ Exists(Audit)' /\ Kept(Config)
      /\ Data(Audit)' = Data(Audit) \/ \E n \in 0..Words : Data(Audit)' = Upto(Merged(Audit, p.words), n, below)
  BY <1>1, <1>2, TornStep
<1>4. ConfigInv'
  BY <1>1, <1>3, ConfigKept
<1>5. CASE InPlace(Audit, p.words)
  <2>1. last' = last /\ below = Data(Audit)
    BY <1>2, <1>5
  <2>2. CASE Data(Audit)' = Data(Audit)
    <3>1. Kept(Audit)
      BY <1>1, <1>3, <2>2 DEF Kept
    <3> QED BY <1>1, <1>3, <1>4, <2>1, <3>1, AuditKept
  <2>3. ASSUME NEW n \in 0..Words, Data(Audit)' = Upto(Merged(Audit, p.words), n, below)
        PROVE  AuditInv'
    BY <1>3, <1>5, <2>1, <2>3, TornInPlace
  <2> QED BY <1>3, <1>4, <2>2, <2>3
<1>6. CASE ~InPlace(Audit, p.words)
  <2>1. last' = [t \in Tests |-> "unknown"] /\ below = Store!BlankContent
    BY <1>2, <1>6
  <2>2. last' \in [Tests -> Results \cup {"none", "unknown"}] /\ \A t \in Tests : last'[t] = "unknown"
    BY <2>1
  <2>3. LogOK(Data(Audit)) /\ LogOK(Merged(Audit, p.words)) /\ Merged(Audit, p.words) \in Contents
    BY <1>1, MergedLog, MergedHas DEF AuditInv
  <2>4. \E new : Data(Audit)' = new /\ LogOK(new)
    BY <1>3, <2>1, <2>3, PrefixIsOK
  <2>5. AuditInv'
    BY <1>3, <2>2, <2>4, AuditChanged
  <2> QED BY <1>3, <1>4, <2>5
<1> QED BY <1>5, <1>6

LEMMA TornConfig ==
  ASSUME ClientsAssumption, IInv, NEW p \in patch, p.block = Config, flash' \in Torn(p.block, p.words),
         last' = last, saved' = Blank, cache' \in Settings \cup {Blank}
  PROVE  FlashOK(flash') /\ AuditInv' /\ ConfigInv'
<1>1. /\ FlashOK(flash) /\ AuditInv /\ ConfigInv /\ Audit \in Files /\ Config \in Files /\ Audit # Config
      /\ WordsOK(p.words) /\ Exists(Config) /\ CanPatch(Config)
  BY PatchWords DEF IInv, Files, PatchOK, ClientsAssumption
<1>2. PICK below : below = IF InPlace(Config, p.words) THEN Data(Config) ELSE Store!BlankContent
  OBVIOUS
<1>3. /\ FlashOK(flash') /\ Exists(Config)' /\ Kept(Audit)
      /\ Data(Config)' = Data(Config) \/ \E n \in 0..Words : Data(Config)' = Upto(Merged(Config, p.words), n, below)
  BY <1>1, <1>2, TornStep
<1>4. AuditInv'
  BY <1>1, <1>3, AuditKept
<1>5. Field \in Word
  BY Places DEF Field, AuditSig
<1>6. Merged(Config, p.words)[Field] \in Settings \cup {Blank}
  BY <1>1, <1>5, PatchWords, MergedHas
<1>7. below[Field] \in Settings \cup {Blank}
  <2>1. Store!BlankContent[Field] = Blank
    BY <1>5 DEF Store!BlankContent, Store!Word, Word
  <2> QED BY <1>1, <1>2, <2>1 DEF ConfigInv
<1>8. \A n : Upto(Merged(Config, p.words), n, below)[Field] \in Settings \cup {Blank}
  BY <1>5, <1>6, <1>7 DEF Upto
<1>9. (Data(Config)')[Field] \in Settings \cup {Blank}
  BY <1>1, <1>3, <1>8 DEF ConfigInv
<1>10. ConfigInv'
  BY <1>9 DEF ConfigInv, Field
<1> QED BY <1>3, <1>4, <1>10

LEMMA PowerCutInv ==
  ASSUME ClientsAssumption, IInv, PowerCut
  PROVE  IInv'
<1>1. ShellInv' /\ PatchInv' /\ RunningInv'
  BY PowerOn DEF PowerCut
<1>2. cache' \in Settings \cup {Blank}
  BY DEF PowerCut, ClientsAssumption
<1>3. FlashOK(flash) /\ AuditInv /\ ConfigInv /\ Audit \in Files /\ Config \in Files /\ Audit # Config
  BY DEF IInv, Files, ClientsAssumption
<1>4. ASSUME FlashOK(flash'), \A b \in Files : Kept(b), UNCHANGED <<last, saved>> PROVE IInv'
  <2>1. AuditInv' /\ ConfigInv'
    BY <1>2, <1>3, <1>4, AuditKept, ConfigKept
  <2> QED BY <1>1, <1>4, <2>1 DEF IInv
<1>5. CASE UNCHANGED <<flash, last, saved>>
  <2>1. FlashOK(flash') /\ \A b \in Files : Kept(b)
    BY <1>3, <1>5, SameFlash
  <2> QED BY <1>4, <1>5, <2>1
<1>6. ASSUME NEW p \in patch, flash' \in Torn(p.block, p.words),
             last' = IF p.block = Audit /\ ~InPlace(Audit, p.words) THEN [t \in Tests |-> "unknown"] ELSE last,
             saved' = IF p.block = Config THEN Blank ELSE saved
      PROVE  IInv'
  <2>1. p.block = Audit \/ p.block = Config
    BY PatchWords DEF PatchOK, Files
  <2>2. CASE p.block = Audit
    BY <1>1, <1>2, <1>3, <1>6, <2>2, TornLog DEF IInv
  <2>3. CASE p.block = Config
    BY <1>1, <1>2, <1>3, <1>6, <2>3, TornConfig DEF IInv
  <2> QED BY <2>1, <2>2, <2>3
<1>7. ASSUME NEW b \in Files, NEW d \in Recycled, NEW row \in Begun(b), flash' = [flash EXCEPT ![d] = row],
             UNCHANGED <<last, saved>>
      PROVE  IInv'
  <2>1. BlankRow(row) /\ Becomes(d, row)
    BY <1>7, BegunIsBlank DEF Becomes
  <2>2. FlashOK(flash') /\ \A c \in Files : Kept(c)
    BY <1>3, <2>1, BlankStep
  <2> QED BY <1>4, <1>7, <2>2
<1> QED BY <1>5, <1>6, <1>7 DEF PowerCut, Files

(***************************************************************************)
(* The theorems.                                                           *)
(***************************************************************************)

LEMMA InitInv ==
  ASSUME ClientsAssumption, Init
  PROVE  IInv
<1>1. flash = [s \in Sector |-> Store!Erased] /\ BlankRow(Store!Erased)
  BY BegunIsBlank DEF Init, Sector
<1>2. \A s \in Sector : flash[s] = Store!Erased
  BY <1>1
<1>3. FlashOK(flash)
  BY <1>1, <1>2 DEF FlashOK, BlankRow, ClientsAssumption
<1>4. ~Has(flash, Audit) /\ ~Has(flash, Config)
  BY <1>1, <1>2 DEF Has, BlankRow, ClientsAssumption
<1>5. ~Exists(Audit) /\ ~Exists(Config)
  BY <1>3, <1>4, Names DEF Files
<1>6. shell.pc = "idle" /\ shell \in ShellState
  BY IdleIs DEF Init
<1>7. last \in [Tests -> Results \cup {"none", "unknown"}] /\ \A t \in Tests : last[t] = "unknown"
  BY DEF Init
<1>8. cache \in Settings /\ saved = Blank /\ running = {} /\ patch = {}
  BY DEF Init, ClientsAssumption
<1>9. AuditInv /\ ConfigInv
  BY <1>5, <1>7, <1>8 DEF AuditInv, ConfigInv
<1>10. ShellInv /\ PatchInv /\ RunningInv
  BY <1>6, <1>8 DEF ShellInv, PatchInv, RunningInv
<1> QED BY <1>3, <1>9, <1>10 DEF IInv

LEMMA StutterInv ==
  ASSUME IInv, UNCHANGED vars
  PROVE  IInv'
<1>1. /\ flash' = flash /\ running' = running /\ cache' = cache /\ patch' = patch /\ shell' = shell
      /\ cuts' = cuts /\ last' = last /\ saved' = saved
  BY DEF vars
<1>2. \A b \in Files : /\ Data(b)' = Data(b) /\ Current(b)' = Current(b)
                       /\ Exists(b)' <=> Exists(b)
                       /\ CanPatch(b)' <=> CanPatch(b)
                       /\ Kept(b)
  BY <1>1, SameFlash
<1>3. FlashOK(flash)' /\ RunningInv'
  BY <1>1, <1>2, RunningKept DEF IInv
<1>4. AuditInv' /\ ConfigInv'
  <2>1. AuditInv /\ ConfigInv /\ Kept(Audit) /\ Kept(Config) /\ cache' \in Settings \cup {Blank}
        /\ saved' \in {saved, Blank}
    BY <1>1, <1>2 DEF IInv, Files, ConfigInv
  <2> QED BY <1>1, <2>1, AuditKept, ConfigKept
<1>5. ShellInv'
  BY <1>1, <1>2, ShellKept DEF IInv, Files
<1>6. PatchInv'
  <2>1. ASSUME NEW p, PatchOK(p) PROVE PatchOK(p)'
    <3>1. p.block \in Files /\ (p.block = Audit => AuditPatchOK(p.words))
      BY <2>1 DEF PatchOK
    <3>2. ASSUME p.block = Audit PROVE AuditPatchOK(p.words)'
      <4>1. Data(Audit)' = Data(Audit) /\ Current(Audit)' = Current(Audit)
        BY <1>2 DEF Files
      <4>2. (NewTest => NewTest') /\ (Appended => Appended')
        BY <1>1, <4>1 DEF Appended, NewTest, Found, Counted, Head, Name
      <4>3. AuditPatchOK(p.words)
        BY <3>1, <3>2
      <4>4. \A t : Found(Data(Audit)', t) = Found(Data(Audit), t)
        BY <4>1
      <4> QED BY <1>1, <4>1, <4>2, <4>3, <4>4 DEF AuditPatchOK
    <3> QED BY <1>2, <2>1, <3>2 DEF PatchOK, Configured
  <2> QED BY <1>1, <2>1 DEF IInv, PatchInv
<1> QED BY <1>3, <1>4, <1>5, <1>6 DEF IInv

THEOREM Invariance == Spec => []IInv
<1>1. Init => IInv
  BY ClientsAssumption, InitInv
<1>2. IInv /\ [Next]_vars => IInv'
  BY ClientsAssumption, StartAuditInv, StartConfigInv, AuditUpdateInv, AuditCountInv, SetInv, ReturnInv, PowerCutInv, StutterInv
  DEF Next
<1> QED BY <1>1, <1>2, PTL DEF Spec

(* The sectors keep their form and every journal number its range, however *)
(* storagePatchData is cut short, and no two patches run at once.          *)
THEOREM TypeCorrect == Spec => []TypeOK
<1>1. ASSUME IInv PROVE TypeOK
  <2>1. \A s \in Sector : /\ flash[s].block \in {Audit, Config, Blank} /\ flash[s].sig \in BOOLEAN
                          /\ flash[s].rev \in 0..(Youngest + 1) /\ DOMAIN flash[s].data = Word
    BY ClientsAssumption, <1>1, RowIs DEF IInv, FlashOK, Files
  <2>2. Cardinality(patch) <= 1
    <3>1. CASE patch = {}
      BY <3>1, FS_EmptySet
    <3>2. ASSUME NEW p, patch = {p} PROVE Cardinality(patch) = 1
      BY <3>2, FS_Singleton
    <3> QED BY <1>1, <3>1, <3>2 DEF IInv, PatchInv
  <2>3. shell.pc \in {"idle", "append", "appended", "update", "overrun", "stale"}
    BY <1>1 DEF IInv, ShellInv, ShellState
  <2> QED BY <1>1, <2>1, <2>2, <2>3
      DEF IInv, RunningInv, ConfigInv, AuditInv, TypeOK, Files, Sector
<1> QED BY <1>1, Invariance, PTL

(* What auditUpdate last recorded is what the log says, through every cut, *)
(* every relocation and every flush of the configuration.                  *)
THEOREM LogIsTrue == Spec => []AuditTruth
<1>1. ASSUME IInv PROVE AuditTruth
  <2> SUFFICES ASSUME NEW t \in Tests
               PROVE  /\ last[t] = "none" => Found(Data(Audit), t) = {}
                      /\ last[t] \in Results =>
                           \E i \in Found(Data(Audit), t) : Data(Audit)[Head(i)] = last[t]
    BY DEF AuditTruth
  <2>1. last[t] # "unknown" => Recorded(Data(Audit), t)
    BY <1>1 DEF IInv, AuditInv
  <2>2. "unknown" \notin Results
    BY ClientsAssumption
  <2> QED BY <2>1, <2>2 DEF Recorded
<1> QED BY <1>1, Invariance, PTL

(* No test ever gets two entries that count.                               *)
THEOREM NoTwoEntries == Spec => []OneEntry
<1>1. ASSUME IInv PROVE OneEntry
  <2> DEFINE log == Data(Audit)
             Used == {i \in 0..(Entries - 1) : log[Count] \in Nat /\ i < log[Count] /\ log[Name(i)] \in Tests}
  <2>1. ASSUME Exists(Audit), NEW i \in Used, NEW j \in Used, log[Name(i)] = log[Name(j)]
        PROVE  i = j
    <3>1. Fresh(log) \/ Ready(log)
      BY <1>1, <2>1 DEF IInv, AuditInv, LogOK
    <3>2. i \in Slot /\ j \in Slot /\ i < log[Count] /\ j < log[Count] /\ log[Name(i)] \in Tests
      BY <2>1 DEF Slot
    <3>3. CASE Fresh(log)
      <4>1. log[Name(i)] = Blank
        BY <3>2, <3>3, Places, ClientsAssumption DEF Fresh
      <4> QED BY <3>2, <4>1, ClientsAssumption
    <3>4. CASE Ready(log)
      BY <2>1, <3>2, <3>4 DEF Ready
    <3> QED BY <3>1, <3>3, <3>4
  <2> QED BY <2>1 DEF OneEntry
<1> QED BY <1>1, Invariance, PTL

(* configStart takes over the setting that was flushed last, unless power  *)
(* was cut in that flush.                                                  *)
THEOREM FlushedSettingKept == Spec => SettingsKept
<1>1. ASSUME IInv, [Next]_vars, saved # Blank, Config \notin running, Config \in running'
      PROVE  cache' = saved
  <2>1. running' # running
    BY <1>1
  <2>2. StartConfig /\ running' = running \cup {Config}
    <3>1. Next
      BY <1>1, <2>1 DEF vars
    <3>2. ~(AuditUpdate \/ AuditCount \/ Set \/ LazyFlush \/ Return)
      BY <2>1 DEF AuditUpdate, AuditCount, Set, LazyFlush, Return
    <3>3. ~PowerCut
      BY <1>1 DEF PowerCut
    <3>4. ~StartAudit
      BY <1>1, ClientsAssumption DEF StartAudit, Start
    <3>5. StartConfig
      BY <3>1, <3>2, <3>3, <3>4 DEF Next
    <3> QED BY <2>1, <3>5 DEF StartConfig, Start
  <2>3. cache' = Data(Config)[Field]
    BY <2>1, <2>2 DEF StartConfig, Start
  <2> QED BY <1>1, <2>3 DEF IInv, ConfigInv
<1>2. IInv /\ [Next]_vars => [saved # Blank /\ Config \notin running /\ Config \in running' => cache' = saved]_vars
  BY <1>1
<1> QED BY <1>2, Invariance, PTL DEF SettingsKept, Spec

=============================================================================
