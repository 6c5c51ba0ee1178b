---------------------------- MODULE StorageProofs ----------------------------
(***************************************************************************)
(* Proofs about Storage for a single caller (Threads = {t}) and any number *)
(* of sectors, blocks, words, values and journal numbers: the store never  *)
(* asserts, and it never loses the newest copy of a block, whatever step a *)
(* power cut strikes.                                                      *)
(*                                                                         *)
(* The inductive invariant adds two facts to the type of the variables.    *)
(* JournalInv: the valid copies of a block have different journal numbers. *)
(* OpInv: what the running patch has established so far, above all that    *)
(* the sector it is about to erase is outdated and that the number it is   *)
(* about to write is below every number the block has.                     *)
(***************************************************************************)
EXTENDS Storage, FiniteSetTheorems, WellFoundedInduction, TLAPS

Valid(s) == flash[s].sig /\ flash[s].rev <= Youngest

Distinct ==
  \A s, r \in Sector :
    /\ s # r /\ Valid(s) /\ Valid(r) /\ flash[s].block = flash[r].block
    => flash[s].rev # flash[r].rev

(* A header that was cut short before its block has no journal number.     *)
CutShort == \A s \in Sector : flash[s].block = NoBlock => flash[s].rev = JournalInvalid

JournalInv == Distinct /\ CutShort

(* Erasing d loses no newest copy.                                         *)
Outdated(d) ==
  Valid(d) => \E r \in Sector : /\ flash[r].sig /\ flash[r].block = flash[d].block
                                /\ flash[r].rev < flash[d].rev

(* The journal number of o is at most, or below, every one of its block.   *)
AtMost(o) ==
  o.rev <= Youngest /\ \A s \in Sector : flash[s].sig /\ flash[s].block = o.block
                                          => o.rev <= flash[s].rev
Below(o) ==
  o.rev <= Youngest /\ \A s \in Sector : flash[s].sig /\ flash[s].block = o.block
                                          => o.rev < flash[s].rev

BlankFrom(o, n) == \A w \in Word : n <= w => flash[o.dest].data[w] = Blank

OpInv(o) ==
  /\ o.pc # "assert"
  /\ o.pc # "idle" => o.block \in Blocks /\ o.val \in Values /\ o.lo <= o.hi
  /\ o.pc \in {"choose", "erase", "header"} => o.next # "journal"
  /\ o.pc \in {"decide", "journal"} => Valid(o.src) /\ flash[o.src].block = o.block
  /\ o.pc = "choose" /\ o.next = "decide" => Below(o)
  /\ o.pc = "choose" /\ o.next = "prefix" => AtMost(o)
  /\ o.pc \in {"erase", "header"} => Below(o)
  /\ o.pc = "erase" => Outdated(o.dest)
  /\ o.pc = "header" => flash[o.dest] = Erased
  /\ o.pc = "inplace" => DestBlank(o)
  /\ o.pc = "prefix" => BlankFrom(o, 0)
  /\ o.pc = "patch" => BlankFrom(o, o.lo)
  /\ o.pc = "suffix" => BlankFrom(o, o.hi + 1)

IInv == TypeOK /\ JournalInv /\ \A t \in Threads : OpInv(op[t])

(***************************************************************************)
(* find_empty_sector.                                                      *)
(***************************************************************************)

(* The scan always stops: with more sectors than block numbers to be seen, *)
(* a block number is seen twice unless a sector is unsigned.               *)
LEMMA ScanStops ==
  ASSUME StorageAssumption, TypeOK, NEW garbage \in BOOLEAN
  PROVE  \E s \in Sector : Stops(s, garbage)
<1> SUFFICES ASSUME \A s \in Sector : ~Stops(s, garbage) PROVE FALSE
  OBVIOUS
<1> DEFINE f == [s \in Sector |-> flash[s].block]
           Seeable == Blocks \cup {NoBlock}
<1>1. IsFiniteSet(Sector) /\ Cardinality(Sector) = SectorCount
  <2>1. SectorCount - 1 \in Int /\ 0 \in Int
    BY DEF StorageAssumption
  <2>2. /\ IsFiniteSet(0..(SectorCount - 1))
        /\ Cardinality(0..(SectorCount - 1)) =
             IF 0 > SectorCount - 1 THEN 0 ELSE SectorCount - 1 - 0 + 1
    BY <2>1, FS_Interval
  <2> QED BY <2>2 DEF Sector, StorageAssumption
<1>2. IsFiniteSet(Seeable) /\ Cardinality(Seeable) = Cardinality(Blocks) + 1
  BY FS_AddElement DEF StorageAssumption
<1>3. Cardinality(Seeable) < Cardinality(Sector)
  BY <1>1, <1>2 DEF StorageAssumption
<1>4. f \in [Sector -> Seeable]
  BY DEF TypeOK, SectorState
<1> HIDE DEF f, Seeable
<1>5. PICK x, y \in Sector : x # y /\ f[x] = f[y]
  BY <1>1, <1>2, <1>3, <1>4, FS_PigeonHole
<1>6. flash[x].sig /\ flash[y].sig /\ flash[x].block = flash[y].block
  BY <1>5 DEF f, Stops
<1>7. x < y \/ y < x
  BY <1>5 DEF Sector, StorageAssumption
<1>8. x \in Seen(y) \/ y \in Seen(x)
  BY <1>6, <1>7 DEF Seen
<1> QED BY <1>8 DEF Stops

(* The sector it returns holds no newest copy.                             *)
LEMMA EmptyIsOutdated ==
  ASSUME StorageAssumption, TypeOK, JournalInv,
         NEW garbage \in BOOLEAN, NEW d \in EmptySectors(garbage)
  PROVE  d \in Sector /\ Outdated(d)
<1>1. PICK s \in Sector : Stops(s, garbage) /\ d \in GivenUp(s, garbage)
  BY DEF EmptySectors
<1>2. CASE ~flash[s].sig \/ (garbage /\ flash[s].block = NoBlock)
  <2>1. d = s
    BY <1>1, <1>2 DEF GivenUp
  <2> QED BY <1>2, <2>1 DEF Outdated, Valid, JournalInv, CutShort, JournalInvalid, StorageAssumption
<1>3. CASE ~(~flash[s].sig \/ (garbage /\ flash[s].block = NoBlock))
  <2>1. PICK r \in Seen(s) : d = IF flash[s].rev < flash[r].rev THEN r ELSE s
    BY <1>1, <1>3 DEF GivenUp
  <2>2. /\ r \in Sector /\ r # s /\ flash[r].sig /\ flash[r].block = flash[s].block
        /\ flash[s].sig
    BY <1>3 DEF Seen, Sector, StorageAssumption
  <2>3. flash[s].rev \in Int /\ flash[r].rev \in Int
    BY <2>2 DEF TypeOK, SectorState
  <2>4. Valid(d) => Valid(s) /\ Valid(r)
    BY <2>1, <2>2, <2>3 DEF Valid, StorageAssumption
  <2>5. Valid(d) => flash[s].rev # flash[r].rev
    BY <2>2, <2>4 DEF JournalInv, Distinct
  <2> QED BY <2>1, <2>2, <2>3, <2>5 DEF Outdated
<1> QED BY <1>2, <1>3

(***************************************************************************)
(* The steps of a patch.                                                   *)
(***************************************************************************)

(* Programming data words leaves every header alone.                       *)
LEMMA ProgrammedKeepsHeaders ==
  ASSUME TypeOK, NEW o \in Op, NEW n \in Int,
         o.pc # "idle" => o.val \in Values,
         o.pc # "idle",
         flash' = Programmed(o, n)
  PROVE  /\ flash' \in [Sector -> SectorState]
         /\ \A s \in Sector : /\ flash'[s].sig = flash[s].sig
                             /\ flash'[s].block = flash[s].block
                             /\ flash'[s].rev = flash[s].rev
         /\ \A s \in Sector : s # o.dest => flash'[s] = flash[s]
         /\ \A w \in Word : flash'[o.dest].data[w] =
              IF w \in Segment(o) /\ w < n THEN SourceWord(o, w) ELSE flash[o.dest].data[w]
<1> DEFINE row == [w \in Word |-> IF w \in Segment(o) /\ w < n THEN SourceWord(o, w)
                                  ELSE flash[o.dest].data[w]]
<1>1. o.dest \in Sector /\ o.src \in Sector
  BY DEF Op
<1>2. row \in Content
  <2>1. \A s \in Sector : flash[s].data \in Content
    BY DEF TypeOK, SectorState
  <2>2. \A w \in Word : SourceWord(o, w) \in Values \cup {Blank}
    BY <1>1, <2>1 DEF SourceWord, Content
  <2> QED BY <1>1, <2>1, <2>2 DEF Content
<1>3. flash' = [flash EXCEPT ![o.dest].data = row]
  BY DEF Programmed
<1> HIDE DEF row
<1>4. flash' \in [Sector -> SectorState]
  <2>1. [flash[o.dest] EXCEPT !.data = row] \in SectorState
    BY <1>1, <1>2 DEF TypeOK, SectorState
  <2>2. flash' = [flash EXCEPT ![o.dest] = [flash[o.dest] EXCEPT !.data = row]]
    BY <1>3
  <2> QED BY <1>1, <2>1, <2>2 DEF TypeOK
<1>5. flash'[o.dest].data = row
  BY <1>1, <1>3 DEF TypeOK, SectorState
<1>6. \A s \in Sector : /\ flash'[s].sig = flash[s].sig
                         /\ flash'[s].block = flash[s].block
                         /\ flash'[s].rev = flash[s].rev
  BY <1>1, <1>3 DEF TypeOK, SectorState
<1>7. \A s \in Sector : s # o.dest => flash'[s] = flash[s]
  BY <1>1, <1>3 DEF TypeOK
<1> QED BY <1>4, <1>5, <1>6, <1>7 DEF row

(* A header is written into one sector, field by field.                    *)
LEMMA HeaderIsWritten ==
  ASSUME TypeOK, NEW o \in Op, NEW n \in 1..3, flash' = HeaderWritten(o, n)
  PROVE  /\ flash' \in [Sector -> SectorState]
         /\ \A s \in Sector : s # o.dest => flash'[s] = flash[s]
         /\ flash'[o.dest].sig
         /\ flash'[o.dest].block = IF n >= 2 THEN o.block ELSE flash[o.dest].block
         /\ flash'[o.dest].rev = IF n = 3 THEN o.rev ELSE flash[o.dest].rev
         /\ flash'[o.dest].data = flash[o.dest].data
<1>1. o.dest \in Sector /\ o.block \in Blocks \cup {NoBlock} /\ o.rev \in 0..JournalInvalid
  BY DEF Op
<1>2. flash \in [Sector -> SectorState] /\ flash[o.dest] \in SectorState
  BY <1>1 DEF TypeOK
<1> DEFINE h == [sig |-> TRUE,
                block |-> IF n >= 2 THEN o.block ELSE flash[o.dest].block,
                rev |-> IF n = 3 THEN o.rev ELSE flash[o.dest].rev,
                data |-> flash[o.dest].data]
<1>3. flash' = [flash EXCEPT ![o.dest] = h]
  BY DEF HeaderWritten
<1>4. h \in SectorState
  BY <1>1, <1>2 DEF SectorState
<1> QED BY <1>1, <1>2, <1>3, <1>4 DEF SectorState

(* When the headers stay, so do the facts about them.                      *)
LEMMA SameHeaders ==
  ASSUME JournalInv,
         \A s \in Sector : /\ flash'[s].sig = flash[s].sig
                          /\ flash'[s].block = flash[s].block
                          /\ flash'[s].rev = flash[s].rev
  PROVE  JournalInv'
BY DEF JournalInv, Distinct, CutShort, Valid

(* What a finished patch and PowerCut leave behind is well typed.          *)
LEMMA ReturnedInOp ==
  ASSUME StorageAssumption, NEW code \in {"none", "ok", "over"}
  PROVE  Returned(code) \in Op /\ Returned(code).pc = "idle"
<1>1. 0 \in Word /\ 0 \in Sector /\ JournalInvalid \in 0..JournalInvalid
  <2>1. Cardinality(Blocks) \in Nat
    BY FS_CardinalityType DEF StorageAssumption
  <2> QED BY <2>1 DEF StorageAssumption, Word, Sector, JournalInvalid
<1> QED BY <1>1 DEF Returned, Op, PC

(* A step of the patch preserves the invariant.                            *)
LEMMA StepInv ==
  ASSUME StorageAssumption, NEW t, Threads = {t}, IInv, Step(t)
  PROVE  IInv'
<1> DEFINE o == op[t]
<1>1. /\ TypeOK /\ JournalInv /\ OpInv(o) /\ o \in Op /\ t \in Threads
      /\ op \in [Threads -> Op] /\ flash \in [Sector -> SectorState]
  BY DEF IInv, TypeOK
<1>2. SUFFICES /\ flash' \in [Sector -> SectorState]
               /\ op' \in [Threads -> Op]
               /\ JournalInv'
               /\ OpInv(op[t])'
  BY DEF IInv, TypeOK
<1>3. CASE Call(t)
  <2>1. PICK b \in Blocks, lo \in Word, hi \in Word, v \in Values :
          /\ lo <= hi
          /\ op' = [op EXCEPT ![t].pc = "lookup", ![t].block = b, ![t].lo = lo,
                              ![t].hi = hi, ![t].val = v, ![t].ret = "none"]
    BY <1>3 DEF Call
  <2>2. op'[t] = [op[t] EXCEPT !.pc = "lookup", !.block = b, !.lo = lo, !.hi = hi, !.val = v,
                        !.ret = "none"]
    BY <1>1, <2>1
  <2>3. op'[t] \in Op /\ op'[t].pc = "lookup" /\ op'[t].block = b /\ op'[t].val = v
        /\ op'[t].lo <= op'[t].hi
    <3>1. [op[t] EXCEPT !.pc = "lookup", !.block = b, !.lo = lo, !.hi = hi, !.val = v,
                        !.ret = "none"] \in Op
      BY <1>1 DEF Op, PC
    <3>2. op'[t].pc = "lookup" /\ op'[t].block = b /\ op'[t].val = v /\ op'[t].lo = lo /\ op'[t].hi = hi
      BY <1>1, <2>2 DEF Op
    <3> QED BY <2>1, <2>2, <3>1, <3>2
  <2>4. op' \in [Threads -> Op]
    BY <1>1, <2>1, <2>3
  <2> QED BY <1>1, <1>3, <2>3, <2>4, SameHeaders DEF Call, OpInv
<1>4. CASE Lookup(t)
  <2> DEFINE b == o.block
  <2>1. b \in Blocks /\ flash' = flash
    BY <1>1, <1>4 DEF Lookup, OpInv
  <2>2. CASE \E s \in Newest(b) : op' = [op EXCEPT ![t].pc = "decide", ![t].src = s]
    <3>1. PICK s \in Newest(b) : op' = [op EXCEPT ![t].pc = "decide", ![t].src = s]
      BY <2>2
    <3>2. s \in Sector /\ Valid(s) /\ flash[s].block = b
      BY DEF Newest, Versions, Valid
    <3>3. op'[t] = [o EXCEPT !.pc = "decide", !.src = s]
      BY <1>1, <3>1
    <3>4. op'[t] \in Op /\ op'[t].pc = "decide" /\ op'[t].block = b /\ op'[t].src = s
          /\ op'[t].val = o.val /\ op'[t].lo = o.lo /\ op'[t].hi = o.hi
      BY <1>1, <3>2, <3>3 DEF Op, PC
    <3>5. op' \in [Threads -> Op]
      BY <1>1, <3>1, <3>4
    <3> QED BY <1>1, <1>4, <2>1, <3>2, <3>4, <3>5, SameHeaders DEF Lookup, OpInv, Valid
  <2>3. CASE /\ Versions(b) = {}
             /\ op' = [op EXCEPT ![t].pc = "choose", ![t].rev = Youngest, ![t].next = "decide"]
    <3>1. op'[t] = [o EXCEPT !.pc = "choose", !.rev = Youngest, !.next = "decide"]
      BY <1>1, <2>3
    <3>2. op'[t] \in Op /\ op'[t].pc = "choose" /\ op'[t].block = b /\ op'[t].rev = Youngest
          /\ op'[t].next = "decide" /\ op'[t].val = o.val /\ op'[t].lo = o.lo /\ op'[t].hi = o.hi
      <4>1. Youngest \in 0..JournalInvalid
        BY DEF JournalInvalid, StorageAssumption
      <4> QED BY <1>1, <3>1, <4>1 DEF Op, PC
    <3>3. op' \in [Threads -> Op]
      BY <1>1, <2>3, <3>2
    <3>4. \A s \in Sector : flash[s].sig /\ flash[s].block = b => Youngest < flash[s].rev
      BY <1>1, <2>3 DEF Versions, SectorState, JournalInvalid, StorageAssumption
    <3>5. Below(op[t])'
      BY <2>1, <3>2, <3>4 DEF Below, StorageAssumption
    <3> QED BY <1>1, <1>4, <2>1, <3>2, <3>3, <3>5, SameHeaders DEF Lookup, OpInv
  <2> QED BY <1>4, <2>2, <2>3 DEF Lookup
<1>5. CASE Decide(t)
  <2>1. o.pc = "decide" /\ flash' = flash /\ Valid(o.src) /\ flash[o.src].block = o.block
        /\ o.block \in Blocks /\ o.val \in Values /\ o.lo <= o.hi
    BY <1>1, <1>5 DEF Decide, OpInv
  <2>2. CASE PatchBlank(o)
    <3>1. op' = [op EXCEPT ![t].pc = "inplace", ![t].dest = op[t].src]
      BY <1>5, <2>2 DEF Decide
    <3>2. op'[t] = [o EXCEPT !.pc = "inplace", !.dest = o.src]
      BY <1>1, <3>1
    <3>3. op'[t] \in Op /\ op'[t].pc = "inplace" /\ op'[t].block = o.block /\ op'[t].dest = o.src
          /\ op'[t].val = o.val /\ op'[t].lo = o.lo /\ op'[t].hi = o.hi
      BY <1>1, <3>2 DEF Op, PC
    <3>4. op' \in [Threads -> Op]
      BY <1>1, <3>1, <3>3
    <3>5. DestBlank(op[t])'
      BY <1>1, <2>1, <2>2, <3>3 DEF PatchBlank, DestBlank, Segment, Word, Op
    <3> QED BY <1>1, <2>1, <3>3, <3>4, <3>5, SameHeaders DEF OpInv
  <2>3. CASE ~PatchBlank(o)
    <3>1. op' = [op EXCEPT ![t].pc = "journal"]
      BY <1>5, <2>3 DEF Decide, SetPC
    <3>2. op'[t] \in Op /\ op'[t].pc = "journal" /\ op'[t].block = o.block
          /\ op'[t].val = o.val /\ op'[t].lo = o.lo /\ op'[t].hi = o.hi /\ op'[t].src = o.src
      BY <1>1, <3>1 DEF Op, PC
    <3>3. op' \in [Threads -> Op]
      BY <1>1, <3>1, <3>2
    <3> QED BY <1>1, <2>1, <3>2, <3>3, SameHeaders DEF OpInv, Valid
  <2> QED BY <2>2, <2>3
<1>6. CASE Journal(t)
  <2> DEFINE b == o.block
  <2>1. b \in Blocks /\ o.val \in Values /\ o.lo <= o.hi /\ flash' = flash /\ Valid(o.src) /\ flash[o.src].block = b
    BY <1>1, <1>6 DEF Journal, OpInv
  <2>2. Versions(b) # {}
    <3>1. o.src \in Versions(b)
      BY <1>1, <2>1 DEF Versions, Valid, Op
    <3> QED BY <3>1
  <2>3. PICK s \in Newest(b) :
          op' = [op EXCEPT ![t].pc = "choose", ![t].next = "prefix", ![t].rev = flash[s].rev]
    BY <1>6, <2>2 DEF Journal
  <2>4. s \in Sector /\ flash[s].rev \in 0..JournalInvalid /\ flash[s].rev <= Youngest
    BY <1>1 DEF Newest, Versions, SectorState
  <2>5. op'[t] = [o EXCEPT !.pc = "choose", !.next = "prefix", !.rev = flash[s].rev]
    BY <1>1, <2>3
  <2>6. op'[t] \in Op /\ op'[t].pc = "choose" /\ op'[t].block = b /\ op'[t].rev = flash[s].rev
        /\ op'[t].next = "prefix" /\ op'[t].val = o.val /\ op'[t].lo = o.lo /\ op'[t].hi = o.hi
    BY <1>1, <2>4, <2>5 DEF Op, PC
  <2>7. op' \in [Threads -> Op]
    BY <1>1, <2>3, <2>6
  <2>8. \A r \in Sector : flash[r].sig /\ flash[r].block = b => flash[s].rev <= flash[r].rev
    <3> SUFFICES ASSUME NEW r \in Sector, flash[r].sig, flash[r].block = b
                 PROVE  flash[s].rev <= flash[r].rev
      OBVIOUS
    <3>1. flash[r].rev \in Int /\ flash[s].rev \in Int
      BY <1>1, <2>4 DEF SectorState
    <3>2. CASE flash[r].rev <= Youngest
      <4>1. r \in Versions(b)
        BY <3>2 DEF Versions
      <4> QED BY <3>1, <4>1 DEF Newest
    <3> QED BY <2>4, <3>1, <3>2 DEF StorageAssumption
  <2>9. AtMost(op[t])'
    BY <2>1, <2>4, <2>6, <2>8 DEF AtMost
  <2> QED BY <1>1, <2>1, <2>6, <2>7, <2>9, SameHeaders DEF OpInv
<1>7. CASE Choose(t)
  <2>1. /\ o.pc = "choose" /\ o.next \in {"decide", "prefix"} /\ flash' = flash
        /\ o.block \in Blocks /\ o.val \in Values /\ o.lo <= o.hi /\ o.rev \in 0..JournalInvalid
    BY <1>1, <1>7 DEF Choose, OpInv, Op
  <2>2. PICK garbage \in BOOLEAN : \E d \in EmptySectors(garbage) :
          op' = IF Overflows(o) THEN [op EXCEPT ![t] = Returned("over")]
                ELSE [op EXCEPT ![t].pc = "erase", ![t].dest = d, ![t].rev = NewJournal(o)]
    BY <1>1, <1>7, ScanStops DEF Choose
  <2> PICK d \in EmptySectors(garbage) :
          op' = IF Overflows(o) THEN [op EXCEPT ![t] = Returned("over")]
                ELSE [op EXCEPT ![t].pc = "erase", ![t].dest = d, ![t].rev = NewJournal(o)]
    BY <2>2
  <2>3. d \in Sector /\ Outdated(d)
    BY <1>1, EmptyIsOutdated
  <2>4. CASE Overflows(o)
    <3>1. op' = [op EXCEPT ![t] = Returned("over")]
      BY <2>4
    <3>2. op'[t].pc = "idle" /\ op' \in [Threads -> Op]
      BY <1>1, <3>1, ReturnedInOp
    <3> QED BY <1>1, <2>1, <3>2, SameHeaders DEF OpInv
  <2>5. CASE ~Overflows(o)
    <3>1. op' = [op EXCEPT ![t].pc = "erase", ![t].dest = d, ![t].rev = NewJournal(o)]
      BY <2>5
    <3>2. op'[t] = [o EXCEPT !.pc = "erase", !.dest = d, !.rev = NewJournal(o)]
      BY <1>1, <3>1
    <3>3. \A s \in Sector : flash[s].rev \in Int
      BY <1>1 DEF SectorState
    <3>4. /\ NewJournal(o) \in 0..JournalInvalid /\ NewJournal(o) <= Youngest
          /\ \A s \in Sector : flash[s].sig /\ flash[s].block = o.block
                               => NewJournal(o) < flash[s].rev
      <4>1. CASE o.next = "decide"
        BY <1>1, <2>1, <4>1 DEF OpInv, Below, NewJournal
      <4>2. CASE o.next = "prefix"
        <5>1. AtMost(o) /\ o.rev # 0
          BY <1>1, <2>1, <2>5, <4>2 DEF OpInv, Overflows
        <5> QED BY <2>1, <3>3, <4>2, <5>1
                DEF AtMost, NewJournal, JournalInvalid, StorageAssumption
      <4> QED BY <2>1, <4>1, <4>2
    <3>5. /\ op'[t] \in Op /\ op'[t].pc = "erase" /\ op'[t].dest = d
          /\ op'[t].rev = NewJournal(o) /\ op'[t].block = o.block /\ op'[t].val = o.val
          /\ op'[t].lo = o.lo /\ op'[t].hi = o.hi /\ op'[t].next = o.next
      <4>1. NewJournal(o) \in 0..JournalInvalid
        BY <3>4
      <4> HIDE DEF NewJournal
      <4>2. [o EXCEPT !.pc = "erase", !.dest = d, !.rev = NewJournal(o)] \in Op
        BY <1>1, <2>3, <4>1 DEF Op, PC
      <4>3. /\ op'[t].pc = "erase" /\ op'[t].dest = d
            /\ op'[t].rev = NewJournal(o) /\ op'[t].block = o.block /\ op'[t].val = o.val
            /\ op'[t].lo = o.lo /\ op'[t].hi = o.hi /\ op'[t].next = o.next
        BY <1>1, <3>2 DEF Op
      <4> QED BY <3>2, <4>2, <4>3
    <3>6. op' \in [Threads -> Op]
      BY <1>1, <3>1, <3>5
    <3>7. Below(op[t])'
      BY <2>1, <3>4, <3>5 DEF Below
    <3>8. Outdated(op[t].dest)'
      BY <2>1, <2>3, <3>5 DEF Outdated, Valid
    <3> QED BY <1>1, <2>1, <3>5, <3>6, <3>7, <3>8, SameHeaders DEF OpInv
  <2> QED BY <2>4, <2>5
<1>8. CASE Erase(t)
  <2> DEFINE d == o.dest
  <2>1. /\ o.pc = "erase" /\ d \in Sector /\ flash' = [flash EXCEPT ![d] = Erased]
        /\ o.block \in Blocks /\ o.val \in Values /\ o.lo <= o.hi /\ Below(o) /\ o.next # "journal"
    BY <1>1, <1>8 DEF Erase, OpInv, Op
  <2>2. op' = [op EXCEPT ![t].pc = "header"]
    BY <1>8 DEF Erase, SetPC
  <2>3. /\ op'[t] \in Op /\ op'[t].pc = "header" /\ op'[t].dest = d /\ op'[t].rev = o.rev
        /\ op'[t].block = o.block /\ op'[t].val = o.val /\ op'[t].lo = o.lo /\ op'[t].hi = o.hi
          /\ op'[t].next = o.next
    BY <1>1, <2>2 DEF Op, PC
  <2>4. op' \in [Threads -> Op]
    BY <1>1, <2>2, <2>3
  <2>5. Erased \in SectorState /\ ~Erased.sig /\ Erased.rev = JournalInvalid
    BY DEF Erased, SectorState, BlankContent, Content, JournalInvalid, StorageAssumption
  <2>6. flash' \in [Sector -> SectorState] /\ flash'[d] = Erased
        /\ \A s \in Sector : s # d => flash'[s] = flash[s]
    BY <1>1, <2>1, <2>5
  <2>7. JournalInv'
    BY <1>1, <2>1, <2>5, <2>6 DEF JournalInv, Distinct, CutShort, Valid
  <2>8. Below(op[t])'
    BY <2>1, <2>3, <2>5, <2>6 DEF Below
  <2> QED BY <2>1, <2>3, <2>4, <2>6, <2>7, <2>8 DEF OpInv
<1>9. CASE Header(t)
  <2> DEFINE d == o.dest
  <2>1. /\ o.pc = "header" /\ d \in Sector /\ flash[d] = Erased
        /\ o.block \in Blocks /\ o.val \in Values /\ o.lo <= o.hi /\ Below(o) /\ o.next \in {"decide", "prefix"}
    BY <1>1, <1>9 DEF Header, OpInv, Op
  <2>2. HeaderBlank(o)
    BY <2>1 DEF HeaderBlank, Erased, BlankContent, Word, StorageAssumption
  <2>3. /\ flash' = HeaderWritten(o, 3)
        /\ op' = [op EXCEPT ![t].pc = o.next, ![t].src = IF o.next = "decide" THEN d ELSE @]
    BY <1>9, <2>2 DEF Header
  <2>4. /\ flash'[d].sig /\ flash'[d].block = o.block /\ flash'[d].rev = o.rev
        /\ flash'[d].data = BlankContent
        /\ \A s \in Sector : s # d => flash'[s] = flash[s]
        /\ flash' \in [Sector -> SectorState]
    BY <1>1, <2>1, <2>3, HeaderIsWritten DEF Erased
  <2>5. op'[t] = [o EXCEPT !.pc = o.next, !.src = IF o.next = "decide" THEN d ELSE o.src]
    BY <1>1, <2>3
  <2>6. /\ op'[t] \in Op /\ op'[t].pc = o.next /\ op'[t].dest = d /\ op'[t].block = o.block
        /\ op'[t].val = o.val /\ op'[t].lo = o.lo /\ op'[t].hi = o.hi
        /\ (o.next = "decide" => op'[t].src = d)
    BY <1>1, <2>1, <2>5 DEF Op, PC
  <2>7. op' \in [Threads -> Op]
    BY <1>1, <2>3, <2>6
  <2>8. JournalInv'
    <3>1. o.rev <= Youngest /\ o.rev \in Int /\ o.block # NoBlock
      BY <1>1, <2>1 DEF Below, Op, StorageAssumption
    <3>2. \A s \in Sector : /\ s # d /\ flash[s].sig /\ flash[s].block = o.block
                            => flash[s].rev # o.rev
      BY <1>1, <2>1, <3>1 DEF Below, SectorState
    <3>3. Distinct'
      BY <1>1, <2>1, <2>4, <3>2 DEF JournalInv, Distinct, Valid
    <3>4. CutShort'
      BY <1>1, <2>4, <3>1 DEF JournalInv, CutShort
    <3> QED BY <3>3, <3>4 DEF JournalInv
  <2>9. CASE o.next = "decide"
    BY <2>1, <2>4, <2>6, <2>7, <2>8, <2>9 DEF OpInv, Below, Valid
  <2>10. CASE o.next = "prefix"
    <3>1. BlankFrom(op[t], 0)'
      BY <2>4, <2>6 DEF BlankFrom, BlankContent
    <3> QED BY <2>1, <2>4, <2>6, <2>7, <2>8, <2>10, <3>1 DEF OpInv
  <2> QED BY <2>1, <2>9, <2>10
<1>10. CASE Program(t)
  <2> DEFINE d == o.dest
  <2>1. /\ o.pc \in {"inplace", "prefix", "patch", "suffix"} /\ d \in Sector
        /\ o.block \in Blocks /\ o.val \in Values /\ o.lo <= o.hi
        /\ o.lo \in Word /\ o.hi \in Word /\ Words \in Int /\ Word \subseteq Int
    BY <1>1, <1>10 DEF Program, OpInv, Op, Word, StorageAssumption
  <2>2. DestBlank(o)
    <3>1. \A w \in Word : 0 <= w
      BY DEF Word, StorageAssumption
    <3>2. CASE o.pc = "inplace"
      BY <1>1, <3>2 DEF OpInv
    <3>3. CASE o.pc = "prefix"
      BY <1>1, <3>1, <3>3 DEF OpInv, DestBlank, BlankFrom, Segment
    <3>4. CASE o.pc = "patch"
      BY <1>1, <3>4 DEF OpInv, DestBlank, BlankFrom, Segment
    <3>5. CASE o.pc = "suffix"
      <4>1. \A w \in Word : o.hi < w => o.hi + 1 <= w
        BY <2>1 DEF Word
      <4> QED BY <1>1, <3>5, <4>1 DEF OpInv, DestBlank, BlankFrom, Segment
    <3> QED BY <2>1, <3>2, <3>3, <3>4, <3>5
  <2>3. flash' = Programmed(o, Words)
    BY <1>10, <2>2 DEF Program
  <2>4. /\ flash' \in [Sector -> SectorState]
        /\ \A s \in Sector : /\ flash'[s].sig = flash[s].sig
                             /\ flash'[s].block = flash[s].block
                             /\ flash'[s].rev = flash[s].rev
        /\ \A w \in Word : w \notin Segment(o) => flash'[d].data[w] = flash[d].data[w]
    BY <1>1, <2>1, <2>3, ProgrammedKeepsHeaders
  <2>5. JournalInv'
    BY <1>1, <2>4, SameHeaders
  <2>6. CASE o.pc \in {"inplace", "suffix"}
    <3>1. op' = [op EXCEPT ![t] = Returned("ok")]
      BY <1>10, <2>2, <2>6 DEF Program
    <3>2. op' \in [Threads -> Op] /\ op'[t].pc = "idle"
      BY <1>1, <3>1, ReturnedInOp
    <3> QED BY <2>4, <2>5, <3>2 DEF OpInv
  <2>7. CASE o.pc = "prefix"
    <3>1. op' = [op EXCEPT ![t].pc = "patch"]
      BY <1>10, <2>2, <2>7 DEF Program, SetPC
    <3>2. /\ op'[t] \in Op /\ op'[t].pc = "patch" /\ op'[t].dest = d
          /\ op'[t].block = o.block /\ op'[t].val = o.val /\ op'[t].lo = o.lo /\ op'[t].hi = o.hi
      BY <1>1, <3>1 DEF Op, PC
    <3>3. op' \in [Threads -> Op]
      BY <1>1, <3>1, <3>2
    <3>4. \A w \in Word : o.lo <= w => w \notin Segment(o)
      BY <2>1, <2>7 DEF Segment
    <3>5. BlankFrom(o, 0)
      BY <1>1, <2>7 DEF OpInv
    <3>6. BlankFrom(op[t], op[t].lo)'
      BY <2>4, <3>2, <3>4, <3>5 DEF BlankFrom, Word
    <3> QED BY <2>1, <2>4, <2>5, <3>2, <3>3, <3>6 DEF OpInv
  <2>8. CASE o.pc = "patch"
    <3>1. op' = [op EXCEPT ![t].pc = "suffix"]
      BY <1>10, <2>2, <2>8 DEF Program, SetPC
    <3>2. /\ op'[t] \in Op /\ op'[t].pc = "suffix" /\ op'[t].dest = d
          /\ op'[t].block = o.block /\ op'[t].val = o.val /\ op'[t].lo = o.lo /\ op'[t].hi = o.hi
      BY <1>1, <3>1 DEF Op, PC
    <3>3. op' \in [Threads -> Op]
      BY <1>1, <3>1, <3>2
    <3>4. \A w \in Word : o.hi + 1 <= w => w \notin Segment(o)
      BY <2>1, <2>8 DEF Segment
    <3>5. \A w \in Word : o.hi + 1 <= w => flash[d].data[w] = Blank
      <4>1. BlankFrom(o, o.lo)
        BY <1>1, <2>8 DEF OpInv
      <4>2. \A w \in Word : o.hi + 1 <= w => o.lo <= w
        BY <2>1 DEF Word
      <4> QED BY <4>1, <4>2 DEF BlankFrom
    <3>6. BlankFrom(op[t], op[t].hi + 1)'
      BY <2>4, <3>2, <3>4, <3>5 DEF BlankFrom
    <3> QED BY <2>1, <2>4, <2>5, <3>2, <3>3, <3>6 DEF OpInv
  <2> QED BY <2>1, <2>6, <2>7, <2>8
<1> QED BY <1>1, <1>3, <1>4, <1>5, <1>6, <1>7, <1>8, <1>9, <1>10 DEF Step

(* A power cut preserves it too: it only adds a prefix of what the flash   *)
(* operation under way would have written.                                 *)
LEMMA PowerCutInv ==
  ASSUME StorageAssumption, NEW t, Threads = {t}, IInv, PowerCut
  PROVE  IInv'
<1> DEFINE o == op[t]
<1>1. /\ TypeOK /\ JournalInv /\ OpInv(o) /\ o \in Op
      /\ flash \in [Sector -> SectorState]
  BY DEF IInv, TypeOK
<1>2. op' \in [Threads -> Op] /\ op'[t] = IdleOp /\ op'[t].pc = "idle"
  BY ReturnedInOp DEF PowerCut, IdleOp
<1>3. OpInv(op[t])'
  BY <1>2 DEF OpInv
<1>4. CASE UNCHANGED flash
  BY <1>1, <1>2, <1>3, <1>4, SameHeaders DEF IInv, TypeOK
<1>5. CASE \E n \in 1..2 : o.pc = "header" /\ HeaderBlank(o) /\ flash' = HeaderWritten(o, n)
  <2>1. PICK n \in 1..2 : o.pc = "header" /\ flash' = HeaderWritten(o, n)
    BY <1>5
  <2>2. /\ flash[o.dest] = Erased /\ o.block \in Blocks /\ o.dest \in Sector
        /\ n \in 1..3 /\ n # 3
    BY <1>1, <2>1 DEF OpInv, Op
  <2>3. /\ flash' \in [Sector -> SectorState]
        /\ \A s \in Sector : s # o.dest => flash'[s] = flash[s]
        /\ flash'[o.dest].rev = flash[o.dest].rev
    BY <1>1, <2>1, <2>2, HeaderIsWritten
  <2>4. flash'[o.dest].rev = JournalInvalid /\ ~(JournalInvalid <= Youngest)
    BY <2>2, <2>3 DEF Erased, JournalInvalid, StorageAssumption
  <2>5. JournalInv'
    BY <1>1, <2>3, <2>4 DEF JournalInv, Distinct, CutShort, Valid
  <2> QED BY <1>2, <1>3, <2>3, <2>5 DEF IInv, TypeOK
<1>6. CASE \E n \in Word : Segment(o) # {} /\ DestBlank(o) /\ flash' = Programmed(o, n)
  <2>1. PICK n \in Word : Segment(o) # {} /\ flash' = Programmed(o, n)
    BY <1>6
  <2>2. n \in Int /\ o.pc # "idle" /\ o.val \in Values
    BY <1>1, <2>1 DEF OpInv, Segment, Word, StorageAssumption
  <2>3. /\ flash' \in [Sector -> SectorState]
        /\ \A s \in Sector : /\ flash'[s].sig = flash[s].sig
                             /\ flash'[s].block = flash[s].block
                             /\ flash'[s].rev = flash[s].rev
    BY <1>1, <2>1, <2>2, ProgrammedKeepsHeaders
  <2> QED BY <1>1, <1>2, <1>3, <2>3, SameHeaders DEF IInv, TypeOK
<1> QED BY <1>4, <1>5, <1>6 DEF PowerCut

LEMMA InitInv ==
  ASSUME StorageAssumption, Init
  PROVE  IInv
<1>1. Erased \in SectorState /\ ~Erased.sig /\ Erased.rev = JournalInvalid
  BY DEF Erased, SectorState, BlankContent, Content, JournalInvalid, StorageAssumption
<1>2. flash \in [Sector -> SectorState] /\ \A s \in Sector : flash[s] = Erased
  BY <1>1 DEF Init
<1>3. op \in [Threads -> Op] /\ \A t \in Threads : op[t].pc = "idle"
  BY ReturnedInOp DEF Init, IdleOp
<1>4. JournalInv
  BY <1>1, <1>2 DEF JournalInv, Distinct, CutShort, Valid
<1> QED BY <1>2, <1>3, <1>4 DEF IInv, TypeOK, OpInv

LEMMA Invariance ==
  ASSUME StorageAssumption, NEW t, Threads = {t}
  PROVE  Spec => []IInv
<1>1. Init => IInv
  BY InitInv
<1>2. IInv /\ [Next]_vars => IInv'
  <2> SUFFICES ASSUME IInv, [Next]_vars PROVE IInv'
    OBVIOUS
  <2>1. CASE Step(t)
    BY <2>1, StepInv
  <2>2. CASE PowerCut
    BY <2>2, PowerCutInv
  <2>3. CASE UNCHANGED vars
    BY <2>3 DEF vars, IInv, TypeOK, JournalInv, Distinct, CutShort, Valid, OpInv, Outdated,
                AtMost, Below, BlankFrom, DestBlank
  <2> QED BY <2>1, <2>2, <2>3 DEF Next
<1> QED BY <1>1, <1>2, PTL DEF Spec

(***************************************************************************)
(* The promise: what a lookup finds in a flash f.                          *)
(***************************************************************************)

VersionsIn(f, b) == {s \in Sector : f[s].sig /\ f[s].block = b /\ f[s].rev <= Youngest}

NewestIn(f, b) ==
  {s \in VersionsIn(f, b) :
     \A r \in VersionsIn(f, b) : \/ f[s].rev < f[r].rev
                                 \/ f[s].rev = f[r].rev /\ r <= s}

BlockIn(f, b) ==
  IF VersionsIn(f, b) = {} THEN BlankContent ELSE f[CHOOSE s \in NewestIn(f, b) : TRUE].data

StoredIn(f, o, b) == IF Copying(o, b) THEN f[o.src].data ELSE BlockIn(f, b)

DistinctIn(f) ==
  \A b \in Blocks : \A s, r \in VersionsIn(f, b) : s # r => f[s].rev # f[r].rev

PatchOf(o) == [block |-> o.block, lo |-> o.lo, hi |-> o.hi, val |-> o.val]

(* The word w of the patched block.                                        *)
NewWord(o, w) == IF o.lo <= w /\ w <= o.hi THEN o.val ELSE flash[o.src].data[w]

Copied(o, n) == \A w \in Word : w < n => flash[o.dest].data[w] = NewWord(o, w)

(* What OpInv must know besides: the copy that is being patched is the     *)
(* newest until the header of its successor is written, and keeps the old  *)
(* contents until the last word of the successor is.                       *)
CopyInv(o) ==
  /\ o.pc # "idle" => o.ret = "none"
  /\ o.pc \in {"choose", "erase", "header"} /\ o.next = "decide" => Versions(o.block) = {}
  /\ o.pc \in {"choose", "erase", "header"} /\ o.next = "prefix" => o.src \in Newest(o.block)
  /\ o.pc \in {"erase", "header"} /\ o.next = "prefix" => o.dest # o.src
  /\ o.pc \in {"decide", "journal", "inplace"} => o.src \in Newest(o.block)
  /\ o.pc = "inplace" => o.dest = o.src /\ PatchBlank(o)
  /\ o.pc \in {"prefix", "patch", "suffix"} => o.dest # o.src /\ o.dest \in Newest(o.block)
  /\ o.pc = "patch" => Copied(o, o.lo)
  /\ o.pc = "suffix" => Copied(o, o.hi + 1)

MInv == IInv /\ \A t \in Threads : CopyInv(op[t])

LEMMA MinNat ==
  ASSUME NEW T, T \subseteq Nat, T # {}
  PROVE  \E n \in T : \A m \in T : n <= m
<1> DEFINE R == {p \in Nat \X Nat : p[1] < p[2]}
<1>1. IsWellFoundedOn(R, Nat)
  BY NatLessThanWellFounded, Zenon DEF OpToRel
<1>2. \A x, y \in Nat : <<y, x>> \in R <=> y < x
  OBVIOUS
<1> HIDE DEF R
<1>3. PICK n \in T : \A m \in T : ~ (<<m, n>> \in R)
  BY <1>1, WFMin
<1>4. \A m \in T : n <= m
  <2> SUFFICES ASSUME NEW m \in T PROVE n <= m
    OBVIOUS
  <2>1. n \in Nat /\ m \in Nat
    OBVIOUS
  <2>2. ~(m < n)
    BY <1>2, <1>3, <2>1
  <2> QED BY <2>1, <2>2
<1> QED BY <1>4

LEMMA SectorInt == ASSUME StorageAssumption PROVE Sector \subseteq Int
BY DEF Sector, StorageAssumption

LEMMA NewestDef ==
  ASSUME NEW f, NEW b, NEW s
  PROVE  s \in NewestIn(f, b) <=>
           /\ s \in VersionsIn(f, b)
           /\ \A r \in VersionsIn(f, b) :
                f[s].rev < f[r].rev \/ (f[s].rev = f[r].rev /\ r <= s)
BY DEF NewestIn

(* A block that has a copy has a newest one, ...                           *)
LEMMA NewestExists ==
  ASSUME StorageAssumption, NEW f \in [Sector -> SectorState], DistinctIn(f),
         NEW b \in Blocks, VersionsIn(f, b) # {}
  PROVE  NewestIn(f, b) # {}
<1> DEFINE V == VersionsIn(f, b)
           T == {f[s].rev : s \in V}
<1>1. V \subseteq Sector /\ \A s \in Sector : f[s].rev \in Nat
  BY DEF VersionsIn, SectorState, JournalInvalid, StorageAssumption
<1>2. \A s, r \in V : s # r => f[s].rev # f[r].rev
  BY DEF DistinctIn
<1> HIDE DEF V
<1>3. T \subseteq Nat /\ T # {}
  BY <1>1 DEF V
<1>4. PICK n \in T : \A m \in T : n <= m
  BY <1>3, MinNat
<1>5. PICK s \in V : f[s].rev = n
  BY <1>4
<1>6. \A r \in V : f[s].rev < f[r].rev \/ (f[s].rev = f[r].rev /\ r <= s)
  <2> SUFFICES ASSUME NEW r \in V PROVE f[s].rev < f[r].rev \/ (f[s].rev = f[r].rev /\ r <= s)
    OBVIOUS
  <2>1. s \in Int /\ f[s].rev \in Int /\ f[r].rev \in Int
    BY <1>1, SectorInt
  <2>2. f[s].rev <= f[r].rev
    BY <1>4, <1>5
  <2>3. CASE r = s
    BY <2>1, <2>3
  <2>4. CASE r # s
    BY <1>2, <2>1, <2>2, <2>4
  <2> QED BY <2>3, <2>4
<1> QED BY <1>5, <1>6 DEF NewestIn, V

(* ... and only one.                                                       *)
LEMMA BlockIs ==
  ASSUME StorageAssumption, NEW f \in [Sector -> SectorState], NEW b, NEW s \in NewestIn(f, b)
  PROVE  /\ BlockIn(f, b) = f[s].data
         /\ \A r \in NewestIn(f, b) : r = s
         /\ s \in Sector /\ f[s].sig /\ f[s].block = b
         /\ f[s].rev \in Int /\ f[s].rev <= Youngest
<1>1. s \in VersionsIn(f, b)
  BY DEF NewestIn
<1>2. \A r \in NewestIn(f, b) : r = s
  <2> SUFFICES ASSUME NEW r \in NewestIn(f, b) PROVE r = s
    OBVIOUS
  <2>1. /\ r \in VersionsIn(f, b)
        /\ f[s].rev < f[r].rev \/ (f[s].rev = f[r].rev /\ r <= s)
        /\ f[r].rev < f[s].rev \/ (f[r].rev = f[s].rev /\ s <= r)
    BY <1>1, NewestDef
  <2>2. s \in Int /\ r \in Int /\ f[s].rev \in Int /\ f[r].rev \in Int
    BY <1>1, <2>1, SectorInt DEF VersionsIn, SectorState
  <2> QED BY <2>1, <2>2
<1>3. (CHOOSE r \in NewestIn(f, b) : TRUE) = s
  BY <1>2
<1>4. BlockIn(f, b) = f[s].data
  BY <1>1, <1>3 DEF BlockIn
<1> QED BY <1>1, <1>2, <1>4 DEF VersionsIn, SectorState

(* A sector that is no newest copy of b can become anything but a copy.    *)
LEMMA OtherSector ==
  ASSUME StorageAssumption, NEW f \in [Sector -> SectorState], DistinctIn(f),
         NEW g \in [Sector -> SectorState], NEW d \in Sector, \A s \in Sector : s # d => g[s] = f[s],
         NEW b \in Blocks, d \notin NewestIn(f, b), d \notin VersionsIn(g, b)
  PROVE  NewestIn(g, b) = NewestIn(f, b) /\ BlockIn(g, b) = BlockIn(f, b)
<1>1. VersionsIn(g, b) = VersionsIn(f, b) \ {d}
  BY DEF VersionsIn
<1>2. CASE VersionsIn(f, b) = {}
  BY <1>1, <1>2 DEF BlockIn, NewestIn
<1>3. CASE VersionsIn(f, b) # {}
  <2>1. PICK n \in NewestIn(f, b) : TRUE
    BY <1>3, NewestExists
  <2>2. n \in VersionsIn(f, b) /\ n # d /\ n \in Sector /\ g[n] = f[n]
    BY <2>1 DEF NewestIn, VersionsIn
  <2>3. n \in NewestIn(g, b)
    <3> SUFFICES ASSUME NEW r \in VersionsIn(g, b)
                 PROVE  g[n].rev < g[r].rev \/ (g[n].rev = g[r].rev /\ r <= n)
      BY <1>1, <2>2 DEF NewestIn
    <3>1. r \in VersionsIn(f, b) /\ r \in Sector /\ g[r] = f[r]
      BY <1>1 DEF VersionsIn
    <3>2. f[n].rev < f[r].rev \/ (f[n].rev = f[r].rev /\ r <= n)
      BY <2>1, <3>1, NewestDef
    <3> QED BY <2>2, <3>1, <3>2
  <2>4. NewestIn(f, b) = {n} /\ NewestIn(g, b) = {n}
    BY <2>1, <2>3, BlockIs
  <2>5. BlockIn(f, b) = f[n].data /\ BlockIn(g, b) = g[n].data
    BY <2>1, <2>3, BlockIs
  <2> QED BY <2>2, <2>4, <2>5
<1> QED BY <1>2, <1>3

(* When the headers stay, so does the newest copy.                         *)
LEMMA SameNewest ==
  ASSUME StorageAssumption, NEW f \in [Sector -> SectorState], DistinctIn(f),
         NEW g \in [Sector -> SectorState], NEW b \in Blocks,
         \A s \in Sector : /\ g[s].sig = f[s].sig /\ g[s].block = f[s].block
                          /\ g[s].rev = f[s].rev
  PROVE  /\ NewestIn(g, b) = NewestIn(f, b)
         /\ (\A s \in NewestIn(f, b) : g[s].data = f[s].data) => BlockIn(g, b) = BlockIn(f, b)
<1>1. VersionsIn(g, b) = VersionsIn(f, b)
  BY DEF VersionsIn
<1>2. \A s \in VersionsIn(f, b) : g[s].rev = f[s].rev
  BY DEF VersionsIn
<1>3. NewestIn(g, b) = NewestIn(f, b)
  BY <1>1, <1>2 DEF NewestIn
<1>4. CASE VersionsIn(f, b) = {}
  BY <1>1, <1>3, <1>4 DEF BlockIn
<1>5. CASE VersionsIn(f, b) # {}
  <2>1. PICK n \in NewestIn(f, b) : TRUE
    BY <1>5, NewestExists
  <2>2. BlockIn(f, b) = f[n].data /\ BlockIn(g, b) = g[n].data
    BY <1>3, <2>1, BlockIs
  <2> QED BY <1>3, <2>1, <2>2
<1> QED BY <1>4, <1>5

(* A copy with a smaller number than all others is the newest.             *)
LEMMA NewCopy ==
  ASSUME StorageAssumption, NEW f \in [Sector -> SectorState], NEW b, NEW d \in VersionsIn(f, b),
         \A s \in VersionsIn(f, b) : s # d => f[d].rev < f[s].rev
  PROVE  d \in NewestIn(f, b)
<1>1. d \in Int
  BY SectorInt DEF VersionsIn
<1> QED BY <1>1 DEF NewestIn

(* The refinement mapping with one caller.                                 *)
LEMMA Mapping ==
  ASSUME NEW t, Threads = {t}
  PROVE  /\ Stored = [b \in Blocks |-> StoredIn(flash, op[t], b)]
         /\ Pending = IF op[t].pc = "idle" THEN {} ELSE {PatchOf(op[t])}
         /\ Answered = {op[t].ret} \ {"none"}
<1>1. ASSUME NEW b \in Blocks PROVE StoredBlock(b) = StoredIn(flash, op[t], b)
  <2>1. Copying(op[t], b) => (CHOOSE u \in Threads : Copying(op[u], b)) = t
    OBVIOUS
  <2>2. (\E u \in Threads : Copying(op[u], b)) <=> Copying(op[t], b)
    OBVIOUS
  <2>3. VersionsIn(flash, b) = Versions(b) /\ NewestIn(flash, b) = Newest(b)
    BY DEF VersionsIn, NewestIn, Versions, Newest
  <2>4. CASE Copying(op[t], b)
    BY <2>1, <2>2, <2>4 DEF StoredBlock, StoredIn
  <2>5. CASE ~Copying(op[t], b)
    BY <2>2, <2>3, <2>5 DEF StoredBlock, StoredIn, BlockIn
  <2> QED BY <2>4, <2>5
<1>2. Stored = [b \in Blocks |-> StoredIn(flash, op[t], b)]
  BY <1>1 DEF Stored
<1>3. Pending = IF op[t].pc = "idle" THEN {} ELSE {PatchOf(op[t])}
  BY DEF Pending, Patches, PatchOf
<1>4. Answered = {op[t].ret} \ {"none"}
  BY DEF Answered
<1> QED BY <1>2, <1>3, <1>4

LEMMA MappingNext ==
  ASSUME NEW t, Threads = {t}
  PROVE  /\ Stored' = [b \in Blocks |-> StoredIn(flash', op'[t], b)]
         /\ Pending' = IF op'[t].pc = "idle" THEN {} ELSE {PatchOf(op'[t])}
         /\ Answered' = {op'[t].ret} \ {"none"}
<1>1. /\ Stored = [b \in Blocks |-> StoredIn(flash, op[t], b)]
      /\ Pending = IF op[t].pc = "idle" THEN {} ELSE {PatchOf(op[t])}
      /\ Answered = {op[t].ret} \ {"none"}
  BY Mapping
<1>2. (/\ Stored = [b \in Blocks |-> StoredIn(flash, op[t], b)]
       /\ Pending = IF op[t].pc = "idle" THEN {} ELSE {PatchOf(op[t])}
       /\ Answered = {op[t].ret} \ {"none"})'
  BY <1>1, PTL
<1> QED BY <1>2 DEF StoredIn, BlockIn, VersionsIn, NewestIn, PatchOf, Copying

LEMMA Facts ==
  ASSUME NEW t, Threads = {t}, MInv
  PROVE  /\ OpInv(op[t]) /\ CopyInv(op[t]) /\ op[t] \in Op /\ op \in [Threads -> Op]
         /\ flash \in [Sector -> SectorState] /\ DistinctIn(flash)
         /\ \A b : Versions(b) = VersionsIn(flash, b) /\ Newest(b) = NewestIn(flash, b)
<1>1. DistinctIn(flash)
  BY DEF MInv, IInv, JournalInv, Distinct, DistinctIn, VersionsIn, Valid
<1>2. \A b : Versions(b) = VersionsIn(flash, b) /\ Newest(b) = NewestIn(flash, b)
  BY DEF Versions, VersionsIn, Newest, NewestIn
<1> QED BY <1>1, <1>2 DEF MInv, IInv, TypeOK

LEMMA FactsNext ==
  ASSUME NEW t, Threads = {t}, IInv'
  PROVE  /\ OpInv(op[t])' /\ op'[t] \in Op
         /\ flash' \in [Sector -> SectorState]
         /\ \A b : Versions(b)' = VersionsIn(flash', b) /\ Newest(b)' = NewestIn(flash', b)
<1>1. \A b : Versions(b)' = VersionsIn(flash', b) /\ Newest(b)' = NewestIn(flash', b)
  BY DEF Versions, VersionsIn, Newest, NewestIn
<1> QED BY <1>1 DEF IInv, TypeOK

(* A step within a patch that changes no block is a stuttering step.       *)
LEMMA Stutters ==
  ASSUME NEW t, Threads = {t}, op[t].pc # "idle", op'[t].pc # "idle",
         PatchOf(op'[t]) = PatchOf(op[t]), op'[t].ret = op[t].ret,
         \A b \in Blocks : StoredIn(flash', op'[t], b) = StoredIn(flash, op[t], b)
  PROVE  UNCHANGED Promise!vars
BY Mapping, MappingNext DEF Promise!vars

(* storagePatchData begins.                                                *)
LEMMA SimCall ==
  ASSUME StorageAssumption, NEW t, Threads = {t}, MInv, IInv', Call(t)
  PROVE  CopyInv(op[t])' /\ Promise!Begin
<1> DEFINE o == op[t]
<1>1. PICK b \in Blocks, lo \in Word, hi \in Word, v \in Values :
        /\ lo <= hi
        /\ op' = [op EXCEPT ![t].pc = "lookup", ![t].block = b, ![t].lo = lo,
                            ![t].hi = hi, ![t].val = v, ![t].ret = "none"]
  BY DEF Call
<1>2. op'[t] = [o EXCEPT !.pc = "lookup", !.block = b, !.lo = lo, !.hi = hi, !.val = v, !.ret = "none"]
  BY <1>1, Facts
<1>3. /\ o.pc = "idle" /\ flash' = flash
      /\ op'[t].pc = "lookup" /\ op'[t].block = b /\ op'[t].lo = lo /\ op'[t].hi = hi
      /\ op'[t].val = v /\ op'[t].ret = "none"
  <2>1. o \in Op
    BY Facts
  <2>2. o.pc = "idle" /\ flash' = flash
    BY DEF Call
  <2> QED BY <1>2, <2>1, <2>2 DEF Op
<1>4. CopyInv(op[t])'
  BY <1>3 DEF CopyInv
<1>5. \A c \in Blocks : StoredIn(flash', op'[t], c) = StoredIn(flash, o, c)
  BY <1>3 DEF StoredIn, Copying
<1>6. Stored' = Stored /\ Pending = {} /\ Pending' = {PatchOf(op'[t])} /\ Answered' = {}
  BY <1>3, <1>5, Mapping, MappingNext
<1>7. PatchOf(op'[t]) \in Promise!Patch /\ PatchOf(op'[t]).lo <= PatchOf(op'[t]).hi
  BY <1>1, <1>3 DEF PatchOf, Promise!Patch, Promise!Word, Word
<1> QED BY <1>4, <1>6, <1>7 DEF Promise!Begin

LEMMA SimLookup ==
  ASSUME StorageAssumption, NEW t, Threads = {t}, MInv, IInv', Lookup(t)
  PROVE  CopyInv(op[t])' /\ UNCHANGED Promise!vars
<1> DEFINE o == op[t]
<1>1. o.pc = "lookup" /\ flash' = flash /\ o.ret = "none"
  BY Facts DEF Lookup, CopyInv
<1>2. \A b : Newest(b)' = Newest(b) /\ Versions(b)' = Versions(b)
  BY <1>1 DEF Newest, Versions
<1>3. CASE \E s \in Newest(o.block) : op' = [op EXCEPT ![t].pc = "decide", ![t].src = s]
  <2>1. PICK s \in Newest(o.block) : op' = [op EXCEPT ![t].pc = "decide", ![t].src = s]
    BY <1>3
  <2>2. op'[t] = [o EXCEPT !.pc = "decide", !.src = s]
    BY <2>1, Facts
  <2>3. op'[t].pc = "decide" /\ op'[t].src = s /\ PatchOf(op'[t]) = PatchOf(o)
        /\ op'[t].block = o.block /\ op'[t].ret = o.ret
    BY <2>2, Facts DEF Op, PatchOf
  <2>4. CopyInv(op[t])'
    BY <1>1, <1>2, <2>1, <2>3 DEF CopyInv
  <2>5. \A b \in Blocks : StoredIn(flash', op'[t], b) = StoredIn(flash, o, b)
    BY <1>1, <2>3 DEF StoredIn, Copying
  <2> QED BY <1>1, <2>3, <2>4, <2>5, Stutters
<1>4. CASE /\ Versions(o.block) = {}
           /\ op' = [op EXCEPT ![t].pc = "choose", ![t].rev = Youngest, ![t].next = "decide"]
  <2>1. op'[t] = [o EXCEPT !.pc = "choose", !.rev = Youngest, !.next = "decide"]
    BY <1>4, Facts
  <2>2. op'[t].pc = "choose" /\ op'[t].next = "decide" /\ PatchOf(op'[t]) = PatchOf(o)
        /\ op'[t].block = o.block /\ op'[t].ret = o.ret
    BY <2>1, Facts DEF Op, PatchOf
  <2>3. CopyInv(op[t])'
    BY <1>1, <1>2, <1>4, <2>2 DEF CopyInv
  <2>4. \A b \in Blocks : StoredIn(flash', op'[t], b) = StoredIn(flash, o, b)
    BY <1>1, <2>2 DEF StoredIn, Copying
  <2> QED BY <1>1, <2>2, <2>3, <2>4, Stutters
<1> QED BY <1>3, <1>4 DEF Lookup

LEMMA SimDecide ==
  ASSUME StorageAssumption, NEW t, Threads = {t}, MInv, IInv', Decide(t)
  PROVE  CopyInv(op[t])' /\ UNCHANGED Promise!vars
<1> DEFINE o == op[t]
<1>1. o.pc = "decide" /\ flash' = flash /\ o.ret = "none" /\ o.src \in Newest(o.block)
  BY Facts DEF Decide, CopyInv
<1>2. \A b : Newest(b)' = Newest(b)
  BY <1>1 DEF Newest, Versions
<1>3. CASE PatchBlank(o)
  <2>1. op'[t] = [o EXCEPT !.pc = "inplace", !.dest = o.src]
    BY <1>3, Facts DEF Decide
  <2>2. op'[t].pc = "inplace" /\ op'[t].src = o.src /\ op'[t].dest = o.src /\ PatchOf(op'[t]) = PatchOf(o)
        /\ op'[t].block = o.block /\ op'[t].ret = o.ret /\ op'[t].lo = o.lo /\ op'[t].hi = o.hi
    BY <2>1, Facts DEF Op, PatchOf
  <2>3. CopyInv(op[t])'
    BY <1>1, <1>2, <1>3, <2>2 DEF CopyInv, PatchBlank
  <2>4. \A b \in Blocks : StoredIn(flash', op'[t], b) = StoredIn(flash, o, b)
    BY <1>1, <2>2 DEF StoredIn, Copying
  <2> QED BY <1>1, <2>2, <2>3, <2>4, Stutters
<1>4. CASE ~PatchBlank(o)
  <2>1. op'[t] = [o EXCEPT !.pc = "journal"]
    BY <1>4, Facts DEF Decide, SetPC
  <2>2. op'[t].pc = "journal" /\ op'[t].src = o.src /\ PatchOf(op'[t]) = PatchOf(o)
        /\ op'[t].block = o.block /\ op'[t].ret = o.ret
    BY <2>1, Facts DEF Op, PatchOf
  <2>3. CopyInv(op[t])'
    BY <1>1, <1>2, <2>2 DEF CopyInv
  <2>4. \A b \in Blocks : StoredIn(flash', op'[t], b) = StoredIn(flash, o, b)
    BY <1>1, <2>2 DEF StoredIn, Copying
  <2> QED BY <1>1, <2>2, <2>3, <2>4, Stutters
<1> QED BY <1>3, <1>4

LEMMA SimJournal ==
  ASSUME StorageAssumption, NEW t, Threads = {t}, MInv, IInv', Journal(t)
  PROVE  CopyInv(op[t])' /\ UNCHANGED Promise!vars
<1> DEFINE o == op[t]
<1>1. o.pc = "journal" /\ flash' = flash /\ o.ret = "none" /\ o.src \in Newest(o.block)
  BY Facts DEF Journal, CopyInv
<1>2. \A b : Newest(b)' = Newest(b)
  BY <1>1 DEF Newest, Versions
<1>3. PICK s \in Newest(o.block) :
        op' = [op EXCEPT ![t].pc = "choose", ![t].next = "prefix", ![t].rev = flash[s].rev]
  BY <1>1 DEF Journal, Newest
<1>4. op'[t] = [o EXCEPT !.pc = "choose", !.next = "prefix", !.rev = flash[s].rev]
  BY <1>3, Facts
<1>5. op'[t].pc = "choose" /\ op'[t].next = "prefix" /\ op'[t].src = o.src /\ PatchOf(op'[t]) = PatchOf(o)
      /\ op'[t].block = o.block /\ op'[t].ret = o.ret
  BY <1>4, Facts DEF Op, PatchOf
<1>6. CopyInv(op[t])'
  BY <1>1, <1>2, <1>5 DEF CopyInv
<1>7. \A b \in Blocks : StoredIn(flash', op'[t], b) = StoredIn(flash, o, b)
  BY <1>1, <1>5 DEF StoredIn, Copying
<1> QED BY <1>1, <1>5, <1>6, <1>7, Stutters

(* An outdated sector is no newest copy.                                   *)
LEMMA OutdatedIsOld ==
  ASSUME StorageAssumption, flash \in [Sector -> SectorState], NEW d \in Sector, Outdated(d), NEW b
  PROVE  d \notin NewestIn(flash, b)
<1> SUFFICES ASSUME d \in NewestIn(flash, b) PROVE FALSE
  OBVIOUS
<1>1. flash[d].block = b /\ Valid(d)
  BY DEF NewestIn, VersionsIn, Valid
<1>2. PICK r \in Sector : flash[r].sig /\ flash[r].block = b /\ flash[r].rev < flash[d].rev
  BY <1>1 DEF Outdated
<1>3. flash[r].rev \in Int /\ flash[d].rev \in Int
  BY DEF SectorState
<1>4. r \in VersionsIn(flash, b)
  BY <1>1, <1>2, <1>3 DEF VersionsIn, Valid, StorageAssumption
<1> QED BY <1>2, <1>3, <1>4, NewestDef

(* A full journal: the call fails, and the block stays what it was.        *)
LEMMA SimChoose ==
  ASSUME StorageAssumption, NEW t, Threads = {t}, MInv, IInv', Choose(t)
  PROVE  CopyInv(op[t])' /\ [Promise!Next]_(Promise!vars)
<1> DEFINE o == op[t]
<1>1. /\ o.pc = "choose" /\ flash' = flash /\ o.ret = "none"
      /\ o.next = "decide" => Versions(o.block) = {}
      /\ o.next = "prefix" => o.src \in Newest(o.block)
  BY Facts DEF Choose, CopyInv
<1>2. \A b : Newest(b)' = Newest(b) /\ Versions(b)' = Versions(b)
  BY <1>1 DEF Newest, Versions
<1>3. CASE op' = [op EXCEPT ![t] = Returned("over")]
  <2>1. op'[t].pc = "idle" /\ op'[t].ret = "over"
    BY <1>3, Facts DEF Returned
  <2>2. CopyInv(op[t])'
    BY <2>1 DEF CopyInv
  <2>3. \A b \in Blocks : StoredIn(flash', op'[t], b) = StoredIn(flash, o, b)
    BY <1>1, <2>1 DEF StoredIn, Copying
  <2>4. Stored' = Stored /\ Pending # {} /\ Pending' = {} /\ Answered' = {"over"}
    BY <1>1, <2>1, <2>3, Mapping, MappingNext
  <2> QED BY <2>2, <2>4 DEF Promise!Next, Promise!Refuse
<1>4. CASE \E d \in Sector : op' = [op EXCEPT ![t].pc = "erase", ![t].dest = d, ![t].rev = NewJournal(o)]
  <2>1. PICK d \in Sector : op' = [op EXCEPT ![t].pc = "erase", ![t].dest = d, ![t].rev = NewJournal(o)]
    BY <1>4
  <2>2. op'[t] = [o EXCEPT !.pc = "erase", !.dest = d, !.rev = NewJournal(o)]
    BY <2>1, Facts
  <2>3. o \in Op
    BY Facts
  <2>4. /\ op'[t].pc = "erase" /\ op'[t].src = o.src /\ op'[t].dest = d /\ PatchOf(op'[t]) = PatchOf(o)
        /\ op'[t].block = o.block /\ op'[t].ret = o.ret /\ op'[t].next = o.next
    BY <2>2, <2>3 DEF Op, PatchOf
  <2>5. Outdated(d)
    BY <1>1, <2>4, FactsNext DEF OpInv, Outdated, Valid
  <2>6. o.next = "prefix" => d # o.src
    BY <1>1, <2>5, OutdatedIsOld, Facts
  <2>7. CopyInv(op[t])'
    BY <1>1, <1>2, <2>4, <2>6 DEF CopyInv
  <2>8. \A b \in Blocks : StoredIn(flash', op'[t], b) = StoredIn(flash, o, b)
    BY <1>1, <2>4 DEF StoredIn, Copying
  <2> QED BY <1>1, <2>4, <2>7, <2>8, Stutters
<1>5. CASE op' = [op EXCEPT ![t].pc = "assert"]
  <2>1. op'[t].pc = "assert"
    BY <1>5, Facts
  <2> QED BY <2>1, FactsNext DEF OpInv
<1>6. \A garbage \in BOOLEAN : EmptySectors(garbage) \subseteq Sector
  BY EmptyIsOutdated DEF MInv, IInv
<1> QED BY <1>3, <1>4, <1>5, <1>6 DEF Choose, SetPC

LEMMA SimErase ==
  ASSUME StorageAssumption, NEW t, Threads = {t}, MInv, IInv', Erase(t)
  PROVE  CopyInv(op[t])' /\ UNCHANGED Promise!vars
<1> DEFINE o == op[t]
           d == o.dest
<1>1. o \in Op /\ d \in Sector /\ o.pc = "erase" /\ Outdated(d) /\ o.block \in Blocks /\ o.ret = "none"
  BY Facts DEF Erase, OpInv, CopyInv, Op
<1>2. op'[t] = [o EXCEPT !.pc = "header"]
  BY Facts DEF Erase, SetPC
<1>3. /\ op'[t].pc = "header" /\ op'[t].src = o.src /\ op'[t].dest = d /\ PatchOf(op'[t]) = PatchOf(o)
      /\ op'[t].block = o.block /\ op'[t].ret = o.ret /\ op'[t].next = o.next
  BY <1>1, <1>2 DEF Op, PatchOf
<1>4. flash'[d] = Erased /\ \A s \in Sector : s # d => flash'[s] = flash[s]
  BY <1>1, Facts DEF Erase
<1>5. \A b : d \notin VersionsIn(flash', b)
  BY <1>4 DEF VersionsIn, Erased
<1>6. \A b \in Blocks : NewestIn(flash', b) = NewestIn(flash, b) /\ BlockIn(flash', b) = BlockIn(flash, b)
  <2> SUFFICES ASSUME NEW b \in Blocks
               PROVE  NewestIn(flash', b) = NewestIn(flash, b) /\ BlockIn(flash', b) = BlockIn(flash, b)
    OBVIOUS
  <2>1. d \notin NewestIn(flash, b)
    BY <1>1, OutdatedIsOld, Facts
  <2>2. flash \in [Sector -> SectorState] /\ DistinctIn(flash) /\ flash' \in [Sector -> SectorState]
    BY Facts, FactsNext
  <2> QED BY <1>1, <1>4, <1>5, <2>1, <2>2, OtherSector
<1>7. o.next = "decide" => VersionsIn(flash', o.block) = {}
  <2>1. o.next = "decide" => VersionsIn(flash, o.block) = {}
    BY <1>1, Facts DEF CopyInv
  <2> QED BY <1>4, <1>5, <2>1 DEF VersionsIn
<1>8. o.next = "prefix" => o.src \in NewestIn(flash', o.block) /\ d # o.src
  BY <1>1, <1>6, Facts DEF CopyInv
<1>9. CopyInv(op[t])'
  <2>1. \A b : Versions(b)' = VersionsIn(flash', b) /\ Newest(b)' = NewestIn(flash', b)
    BY FactsNext
  <2> QED BY <1>1, <1>3, <1>7, <1>8, <2>1 DEF CopyInv
<1>10. \A b \in Blocks : StoredIn(flash', op'[t], b) = StoredIn(flash, o, b)
  BY <1>1, <1>3, <1>6 DEF StoredIn, Copying
<1> QED BY <1>1, <1>3, <1>9, <1>10, Stutters

(* The new copy becomes the newest one before it has the contents of the   *)
(* old one.                                                                *)
LEMMA SimHeader ==
  ASSUME StorageAssumption, NEW t, Threads = {t}, MInv, IInv', Header(t)
  PROVE  CopyInv(op[t])' /\ UNCHANGED Promise!vars
<1> DEFINE o == op[t]
           d == o.dest
<1>1. /\ o \in Op /\ d \in Sector /\ o.src \in Sector /\ o.pc = "header" /\ o.block \in Blocks /\ o.ret = "none"
      /\ flash[d] = Erased /\ Below(o) /\ o.next \in {"decide", "prefix"}
  BY Facts DEF Header, OpInv, CopyInv, Op
<1>2. HeaderBlank(o)
  BY <1>1 DEF HeaderBlank, Erased, BlankContent, Word, StorageAssumption
<1>3. /\ flash' = HeaderWritten(o, 3)
      /\ op'[t] = [o EXCEPT !.pc = o.next, !.src = IF o.next = "decide" THEN d ELSE o.src]
  BY <1>2, Facts DEF Header
<1>4. /\ flash'[d].sig /\ flash'[d].block = o.block /\ flash'[d].rev = o.rev
      /\ flash'[d].data = BlankContent
      /\ \A s \in Sector : s # d => flash'[s] = flash[s]
  <2>1. TypeOK /\ 3 \in 1..3 /\ flash' = HeaderWritten(o, 3)
    BY <1>3 DEF MInv, IInv
  <2>2. /\ \A s \in Sector : s # o.dest => flash'[s] = flash[s]
        /\ flash'[o.dest].sig
        /\ flash'[o.dest].block = o.block
        /\ flash'[o.dest].rev = o.rev
        /\ flash'[o.dest].data = flash[o.dest].data
    BY <1>1, <2>1, HeaderIsWritten
  <2>3. flash[d].data = BlankContent
    BY <1>1 DEF Erased
  <2> QED BY <2>2, <2>3
<1>5. /\ op'[t].pc = o.next /\ op'[t].src = (IF o.next = "decide" THEN d ELSE o.src) /\ op'[t].dest = d
      /\ PatchOf(op'[t]) = PatchOf(o) /\ op'[t].block = o.block /\ op'[t].ret = o.ret
  BY <1>1, <1>3 DEF Op, PatchOf
<1>6. \A b \in Blocks : b # o.block => BlockIn(flash', b) = BlockIn(flash, b)
  <2> SUFFICES ASSUME NEW b \in Blocks, b # o.block PROVE BlockIn(flash', b) = BlockIn(flash, b)
    OBVIOUS
  <2>1. d \notin NewestIn(flash, b) /\ d \notin VersionsIn(flash', b)
    BY <1>1, <1>4 DEF NewestIn, VersionsIn, Erased
  <2>2. flash \in [Sector -> SectorState] /\ DistinctIn(flash) /\ flash' \in [Sector -> SectorState]
    BY Facts, FactsNext
  <2> QED BY <1>1, <1>4, <2>1, <2>2, OtherSector
<1>7. d \in NewestIn(flash', o.block)
  <2>1. d \in VersionsIn(flash', o.block)
    BY <1>1, <1>4 DEF VersionsIn, Below
  <2>2. \A s \in VersionsIn(flash', o.block) : s # d => flash'[d].rev < flash'[s].rev
    BY <1>1, <1>4 DEF VersionsIn, Below
  <2>3. flash' \in [Sector -> SectorState]
    BY FactsNext
  <2> QED BY <2>1, <2>2, <2>3, NewCopy
<1>8. CASE o.next = "decide"
  <2>1. BlockIn(flash', o.block) = BlankContent
    BY <1>4, <1>7, BlockIs, FactsNext
  <2>2. BlockIn(flash, o.block) = BlankContent
    BY <1>1, <1>8, Facts DEF CopyInv, BlockIn
  <2>3. \A b \in Blocks : StoredIn(flash', op'[t], b) = StoredIn(flash, o, b)
    BY <1>1, <1>5, <1>6, <1>8, <2>1, <2>2 DEF StoredIn, Copying
  <2>4. CopyInv(op[t])'
    BY <1>1, <1>5, <1>7, <1>8, FactsNext DEF CopyInv
  <2> QED BY <1>1, <1>5, <1>8, <2>3, <2>4, Stutters
<1>9. CASE o.next = "prefix"
  <2>1. o.src \in NewestIn(flash, o.block) /\ d # o.src
    BY <1>1, <1>9, Facts DEF CopyInv
  <2>2. BlockIn(flash, o.block) = flash'[o.src].data
    BY <1>1, <1>4, <2>1, BlockIs, Facts
  <2>3. \A b \in Blocks : StoredIn(flash', op'[t], b) = StoredIn(flash, o, b)
    BY <1>1, <1>5, <1>6, <1>9, <2>2 DEF StoredIn, Copying
  <2>4. CopyInv(op[t])'
    BY <1>1, <1>5, <1>7, <1>9, <2>1, FactsNext DEF CopyInv
  <2> QED BY <1>1, <1>5, <1>9, <2>3, <2>4, Stutters
<1> QED BY <1>1, <1>8, <1>9

(* flashProgram writes to the newest copy: in place, or to the new one of  *)
(* a block that still is what the old one holds.                           *)
LEMMA Programs ==
  ASSUME StorageAssumption, NEW t, Threads = {t}, MInv, NEW n \in Int,
         op[t].pc \in {"inplace", "prefix", "patch", "suffix"}, flash' = Programmed(op[t], n)
  PROVE  LET o == op[t] IN
         /\ o \in Op /\ o.block \in Blocks /\ o.val \in Values /\ o.lo <= o.hi /\ o.ret = "none"
         /\ flash' \in [Sector -> SectorState]
         /\ \A b \in Blocks : NewestIn(flash', b) = NewestIn(flash, b)
         /\ \A b \in Blocks : b # o.block => BlockIn(flash', b) = BlockIn(flash, b)
         /\ o.dest \in NewestIn(flash, o.block)
         /\ o.pc # "inplace" => o.dest # o.src /\ flash'[o.src] = flash[o.src]
         /\ StoredIn(flash, o, o.block) = flash[o.src].data
         /\ BlockIn(flash', o.block) = flash'[o.dest].data
         /\ \A w \in Word : flash'[o.dest].data[w] =
              IF w \in Segment(o) /\ w < n THEN SourceWord(o, w) ELSE flash[o.dest].data[w]
<1> DEFINE o == op[t]
<1>1. /\ o \in Op /\ o.block \in Blocks /\ o.val \in Values /\ o.lo <= o.hi /\ o.ret = "none"
      /\ o.src \in Sector /\ o.dest \in Sector
      /\ flash \in [Sector -> SectorState] /\ DistinctIn(flash)
  BY Facts DEF OpInv, CopyInv, Op
<1>2. /\ flash' \in [Sector -> SectorState]
      /\ \A s \in Sector : /\ flash'[s].sig = flash[s].sig
                          /\ flash'[s].block = flash[s].block
                          /\ flash'[s].rev = flash[s].rev
      /\ \A s \in Sector : s # o.dest => flash'[s] = flash[s]
      /\ \A w \in Word : flash'[o.dest].data[w] =
           IF w \in Segment(o) /\ w < n THEN SourceWord(o, w) ELSE flash[o.dest].data[w]
  BY <1>1, ProgrammedKeepsHeaders DEF MInv, IInv
<1>3. \A b \in Blocks : NewestIn(flash', b) = NewestIn(flash, b)
  BY <1>1, <1>2, SameNewest
<1>4. o.dest \in NewestIn(flash, o.block) /\ (o.pc # "inplace" => o.dest # o.src)
  BY Facts DEF CopyInv
<1>5. \A b \in Blocks : b # o.block => BlockIn(flash', b) = BlockIn(flash, b)
  <2> SUFFICES ASSUME NEW b \in Blocks, b # o.block PROVE BlockIn(flash', b) = BlockIn(flash, b)
    OBVIOUS
  <2>1. \A s \in NewestIn(flash, b) : s \in Sector /\ flash[s].block = b
    BY DEF NewestIn, VersionsIn
  <2>2. flash[o.dest].block = o.block
    BY <1>4 DEF NewestIn, VersionsIn
  <2>3. \A s \in NewestIn(flash, b) : flash'[s].data = flash[s].data
    BY <1>2, <2>1, <2>2
  <2> QED BY <1>1, <1>2, <2>3, SameNewest
<1>6. StoredIn(flash, o, o.block) = flash[o.src].data
  <2>1. CASE o.pc = "inplace"
    <3>1. o.src = o.dest
      BY <2>1, Facts DEF CopyInv
    <3> QED BY <1>1, <1>4, <2>1, <3>1, BlockIs DEF StoredIn, Copying
  <2>2. CASE o.pc # "inplace"
    BY <2>2 DEF StoredIn, Copying
  <2> QED BY <2>1, <2>2
<1>7. BlockIn(flash', o.block) = flash'[o.dest].data
  BY <1>1, <1>2, <1>3, <1>4, BlockIs
<1> QED BY <1>1, <1>2, <1>3, <1>4, <1>5, <1>6, <1>7

(* What BlockStore calls the contents up to word n, in the flash.          *)
LEMMA UptoIs ==
  ASSUME NEW t, Threads = {t}, op[t].block \in Blocks,
         StoredIn(flash, op[t], op[t].block) = flash[op[t].src].data, NEW n, NEW tail
  PROVE  Promise!Upto(PatchOf(op[t]), n, tail) =
           [w \in Word |-> IF w >= n THEN tail[w] ELSE NewWord(op[t], w)]
<1> DEFINE o == op[t]
<1>1. Stored[o.block] = flash[o.src].data
  BY Mapping
<1>2. PatchOf(o).block = o.block /\ PatchOf(o).lo = o.lo /\ PatchOf(o).hi = o.hi /\ PatchOf(o).val = o.val
  BY DEF PatchOf
<1> HIDE DEF o
<1> QED BY <1>1, <1>2 DEF Promise!Upto, Promise!InPatch, Promise!Word, Word, NewWord, o

(* The last flashProgram of a patch makes all of it visible at once.       *)
LEMMA SimProgram ==
  ASSUME StorageAssumption, NEW t, Threads = {t}, MInv, IInv', Program(t)
  PROVE  CopyInv(op[t])' /\ [Promise!Next]_(Promise!vars)
<1> DEFINE o == op[t]
           d == o.dest
<1>1. o.pc \in {"inplace", "prefix", "patch", "suffix"} /\ Words \in Int /\ \A w \in Word : w \in Int /\ w < Words
  BY DEF Program, Word, StorageAssumption
<1>2. flash' = Programmed(o, Words) /\ DestBlank(o)
  <2>1. CASE ~DestBlank(o)
    <3>1. op' = [op EXCEPT ![t].pc = "assert"]
      BY <2>1 DEF Program, SetPC
    <3>2. op'[t].pc = "assert"
      BY <3>1, Facts
    <3> QED BY <3>2, FactsNext DEF OpInv
  <2> QED BY <2>1 DEF Program
<1>3. /\ o \in Op /\ o.block \in Blocks /\ o.val \in Values /\ o.lo <= o.hi /\ o.ret = "none"
      /\ flash' \in [Sector -> SectorState]
      /\ \A b \in Blocks : NewestIn(flash', b) = NewestIn(flash, b)
      /\ \A b \in Blocks : b # o.block => BlockIn(flash', b) = BlockIn(flash, b)
      /\ d \in NewestIn(flash, o.block)
      /\ o.pc # "inplace" => d # o.src /\ flash'[o.src] = flash[o.src]
      /\ StoredIn(flash, o, o.block) = flash[o.src].data
      /\ BlockIn(flash', o.block) = flash'[d].data
  BY <1>1, <1>2, Programs
<1>4. \A w \in Word : flash'[d].data[w] =
        IF w \in Segment(o) THEN SourceWord(o, w) ELSE flash[d].data[w]
  BY <1>1, <1>2, Programs
<1>5. d \in Sector /\ flash'[d].data \in Content /\ o.lo \in Int /\ o.hi \in Int
  BY <1>1, <1>3 DEF Op, SectorState
<1>6. CASE o.pc \in {"inplace", "suffix"}
  <2>1. op'[t].pc = "idle" /\ op'[t].ret = "ok"
    BY <1>2, <1>6, Facts DEF Program, Returned
  <2>2. \A w \in Word : flash'[d].data[w] = NewWord(o, w)
    <3>1. CASE o.pc = "inplace"
      <4>1. d = o.src
        BY <3>1, Facts DEF CopyInv
      <4> QED BY <1>4, <3>1, <4>1 DEF Segment, SourceWord, NewWord
    <3>2. CASE o.pc = "suffix"
      <4>1. Copied(o, o.hi + 1)
        BY <3>2, Facts DEF CopyInv
      <4>2. \A w \in Word : w < o.hi + 1 <=> ~(o.hi < w)
        BY <1>1, <1>5
      <4>3. \A w \in Word : w \in Segment(o) => ~(w <= o.hi)
        BY <1>1, <1>5, <3>2 DEF Segment
      <4> QED BY <1>4, <3>2, <4>1, <4>2, <4>3 DEF Segment, SourceWord, NewWord, Copied
    <3> QED BY <1>6, <3>1, <3>2
  <2>3. Promise!Patched(PatchOf(o)) = flash'[d].data
    <3>1. Promise!Patched(PatchOf(o)) =
            [w \in Word |-> IF w >= Words THEN Stored[PatchOf(o).block][w] ELSE NewWord(o, w)]
      BY <1>3, UptoIs DEF Promise!Patched
    <3>2. \A w \in Word : ~(w >= Words)
      BY <1>1
    <3> QED BY <1>5, <2>2, <3>1, <3>2 DEF Content
  <2>4. Stored' = [Stored EXCEPT ![o.block] = flash'[d].data]
    <3>1. \A b \in Blocks : StoredIn(flash', op'[t], b) =
            IF b = o.block THEN flash'[d].data ELSE StoredIn(flash, o, b)
      BY <1>3, <2>1 DEF StoredIn, Copying
    <3> QED BY <1>3, <3>1, Mapping, MappingNext
  <2>5. Pending = {PatchOf(o)} /\ PatchOf(o).block = o.block /\ Pending' = {} /\ Answered' = {"ok"}
    BY <1>1, <2>1, Mapping, MappingNext DEF PatchOf
  <2>6. CopyInv(op[t])'
    BY <2>1 DEF CopyInv
  <2> QED BY <2>3, <2>4, <2>5, <2>6 DEF Promise!Next, Promise!Commit
<1>7. CASE o.pc \in {"prefix", "patch"}
  <2>1. op'[t] = [o EXCEPT !.pc = IF o.pc = "prefix" THEN "patch" ELSE "suffix"]
    BY <1>2, <1>7, Facts DEF Program, SetPC
  <2>2. /\ op'[t].pc = (IF o.pc = "prefix" THEN "patch" ELSE "suffix")
        /\ PatchOf(op'[t]) = PatchOf(o) /\ op'[t].block = o.block /\ op'[t].ret = o.ret
        /\ op'[t].src = o.src /\ op'[t].dest = d
        /\ op'[t].lo = o.lo /\ op'[t].hi = o.hi /\ op'[t].val = o.val
    BY <1>3, <2>1 DEF Op, PatchOf
  <2>3. \A b \in Blocks : StoredIn(flash', op'[t], b) = StoredIn(flash, o, b)
    BY <1>3, <1>7, <2>2 DEF StoredIn, Copying
  <2>4. \A w \in Word : NewWord(op[t], w)' = NewWord(o, w)
    BY <1>3, <1>7, <2>2 DEF NewWord
  <2>5. CASE o.pc = "prefix"
    <3>1. \A w \in Word : w < o.lo => flash'[d].data[w] = NewWord(o, w)
      <4> SUFFICES ASSUME NEW w \in Word, w < o.lo PROVE flash'[d].data[w] = NewWord(o, w)
        OBVIOUS
      <4>1. w \in Segment(o) /\ ~(o.lo <= w)
        BY <1>1, <1>5, <2>5 DEF Segment
      <4> QED BY <1>4, <2>5, <4>1 DEF SourceWord, NewWord
    <3>2. Copied(op[t], op[t].lo)'
      BY <2>2, <2>4, <3>1 DEF Copied
    <3>3. CopyInv(op[t])'
      BY <1>3, <2>2, <2>5, <3>2, FactsNext DEF CopyInv
    <3> QED BY <1>1, <2>2, <2>3, <2>5, <3>3, Stutters
  <2>6. CASE o.pc = "patch"
    <3>1. \A w \in Word : w < o.hi + 1 => flash'[d].data[w] = NewWord(o, w)
      <4> SUFFICES ASSUME NEW w \in Word, w < o.hi + 1 PROVE flash'[d].data[w] = NewWord(o, w)
        OBVIOUS
      <4>1. Copied(o, o.lo)
        BY <2>6, Facts DEF CopyInv
      <4>2. w \in Segment(o) <=> o.lo <= w
        BY <1>1, <1>5, <2>6 DEF Segment
      <4>3. CASE o.lo <= w
        BY <1>1, <1>4, <1>5, <2>6, <4>2, <4>3 DEF SourceWord, NewWord
      <4>4. CASE ~(o.lo <= w)
        <5>1. w < o.lo
          BY <1>1, <1>5, <4>4
        <5> QED BY <1>4, <4>1, <4>2, <4>4, <5>1 DEF Copied
      <4> QED BY <4>3, <4>4
    <3>2. Copied(op[t], op[t].hi + 1)'
      BY <2>2, <2>4, <3>1 DEF Copied
    <3>3. CopyInv(op[t])'
      BY <1>3, <2>2, <2>6, <3>2, FactsNext DEF CopyInv
    <3> QED BY <1>1, <2>2, <2>3, <2>6, <3>3, Stutters
  <2> QED BY <1>7, <2>5, <2>6
<1> QED BY <1>1, <1>6, <1>7

(* A power cut leaves the new copy with its first words.                   *)
LEMMA TornWords ==
  ASSUME StorageAssumption, NEW t, Threads = {t}, MInv, NEW n \in Word,
         op[t].pc \in {"prefix", "patch", "suffix"},
         \A w \in Word : flash'[op[t].dest].data[w] =
           IF w \in Segment(op[t]) /\ w < n THEN SourceWord(op[t], w) ELSE flash[op[t].dest].data[w]
  PROVE  \E m \in 0..Words : \A w \in Word :
           flash'[op[t].dest].data[w] = IF w >= m THEN Blank ELSE NewWord(op[t], w)
<1> DEFINE o == op[t]
           d == o.dest
<1>1. /\ o.lo \in Word /\ o.hi \in Word /\ o.lo <= o.hi /\ Words \in Int
      /\ \A w \in Word : w \in Int /\ 0 <= w /\ w < Words
  BY Facts DEF OpInv, Op, Word, StorageAssumption
<1>2. CASE o.pc = "prefix"
  <2> DEFINE m == IF n < o.lo THEN n ELSE o.lo
  <2>1. m \in 0..Words
    BY <1>1
  <2>2. ASSUME NEW w \in Word PROVE flash'[d].data[w] = IF w >= m THEN Blank ELSE NewWord(o, w)
    <3>1. flash[d].data[w] = Blank
      BY <1>1, <1>2, Facts DEF OpInv, BlankFrom
    <3>2. w \in Segment(o) /\ w < n <=> ~(w >= m)
      BY <1>1, <1>2 DEF Segment
    <3>3. ~(w >= m) => ~(o.lo <= w)
      BY <1>1
    <3> QED BY <1>2, <3>1, <3>2, <3>3 DEF SourceWord, NewWord
  <2> QED BY <2>1, <2>2
<1>3. CASE o.pc = "patch"
  <2> DEFINE m == IF n <= o.lo THEN o.lo ELSE IF n <= o.hi THEN n ELSE o.hi + 1
  <2>1. m \in 0..Words
    BY <1>1
  <2>2. ASSUME NEW w \in Word PROVE flash'[d].data[w] = IF w >= m THEN Blank ELSE NewWord(o, w)
    <3>1. w >= o.lo => flash[d].data[w] = Blank
      BY <1>1, <1>3, Facts DEF OpInv, BlankFrom
    <3>2. w < o.lo => flash[d].data[w] = NewWord(o, w)
      BY <1>3, Facts DEF CopyInv, Copied
    <3>3. w \in Segment(o) /\ w < n <=> o.lo <= w /\ ~(w >= m)
      BY <1>1, <1>3 DEF Segment
    <3>4. o.lo <= w /\ ~(w >= m) => SourceWord(o, w) = NewWord(o, w)
      BY <1>1, <1>3 DEF SourceWord, NewWord
    <3>5. w < o.lo => ~(w >= m)
      BY <1>1
    <3>6. w < o.lo <=> ~(w >= o.lo)
      BY <1>1
    <3>7. o.lo <= w <=> w >= o.lo
      BY <1>1
    <3> HIDE DEF m
    <3> QED BY <3>1, <3>2, <3>3, <3>4, <3>5, <3>6, <3>7
  <2> QED BY <2>1, <2>2
<1>4. CASE o.pc = "suffix"
  <2> DEFINE m == IF n <= o.hi THEN o.hi + 1 ELSE n
  <2>1. m \in 0..Words
    BY <1>1
  <2>2. ASSUME NEW w \in Word PROVE flash'[d].data[w] = IF w >= m THEN Blank ELSE NewWord(o, w)
    <3>1. o.hi < w => flash[d].data[w] = Blank
      BY <1>1, <1>4, Facts DEF OpInv, BlankFrom
    <3>2. ~(o.hi < w) => flash[d].data[w] = NewWord(o, w)
      BY <1>1, <1>4, Facts DEF CopyInv, Copied
    <3>3. w \in Segment(o) /\ w < n <=> o.hi < w /\ ~(w >= m)
      BY <1>1, <1>4 DEF Segment
    <3>4. o.hi < w => SourceWord(o, w) = NewWord(o, w)
      BY <1>1, <1>4 DEF SourceWord, NewWord
    <3>5. ~(o.hi < w) => ~(w >= m)
      BY <1>1
    <3> HIDE DEF m
    <3> QED BY <3>1, <3>2, <3>3, <3>4, <3>5
  <2> QED BY <2>1, <2>2
<1> QED BY <1>2, <1>3, <1>4

(* What a power cut leaves of a block that was being moved.                *)
LEMMA CutWhileMoving ==
  ASSUME StorageAssumption, NEW t, Threads = {t}, MInv, NEW n \in Word,
         op[t].pc \in {"prefix", "patch", "suffix"}, op' = [u \in Threads |-> IdleOp],
         flash' = flash \/ flash' = Programmed(op[t], n)
  PROVE  Promise!PowerCut
<1> DEFINE o == op[t]
           d == o.dest
<1>1. n \in Int /\ 0 \in Word /\ ~(\E w \in Word : w < 0)
  BY DEF Word, StorageAssumption
<1>2. /\ o \in Op /\ o.block \in Blocks /\ d \in Sector
      /\ flash' \in [Sector -> SectorState]
      /\ StoredIn(flash, o, o.block) = flash[o.src].data
      /\ BlockIn(flash', o.block) = flash'[d].data
      /\ \A b \in Blocks : b # o.block => BlockIn(flash', b) = BlockIn(flash, b)
  <2>1. CASE flash' = flash
    <3>1. /\ o \in Op /\ o.block \in Blocks /\ d \in NewestIn(flash, o.block)
          /\ flash \in [Sector -> SectorState] /\ d \in Sector
      BY Facts DEF OpInv, CopyInv, Op
    <3>2. BlockIn(flash, o.block) = flash[d].data
      BY <3>1, BlockIs
    <3>3. StoredIn(flash, o, o.block) = flash[o.src].data
      BY DEF StoredIn, Copying
    <3> QED BY <2>1, <3>1, <3>2, <3>3
  <2>2. CASE flash' = Programmed(o, n)
    <3>1. /\ o \in Op /\ o.block \in Blocks
          /\ flash' \in [Sector -> SectorState]
          /\ StoredIn(flash, o, o.block) = flash[o.src].data
          /\ BlockIn(flash', o.block) = flash'[d].data
          /\ \A b \in Blocks : b # o.block => BlockIn(flash', b) = BlockIn(flash, b)
      BY <1>1, <2>2, Programs
    <3>2. d \in Sector
      BY <3>1 DEF Op
    <3> QED BY <3>1, <3>2
  <2> QED BY <2>1, <2>2
<1>content. flash'[d].data \in Content
  BY <1>2 DEF SectorState
<1>3. \E m \in 0..Words : \A w \in Word :
        flash'[d].data[w] = IF w >= m THEN Blank ELSE NewWord(o, w)
  <2>1. CASE flash' = flash
    <3>1. \A w \in Word : flash'[d].data[w] =
            IF w \in Segment(o) /\ w < 0 THEN SourceWord(o, w) ELSE flash[d].data[w]
      BY <1>1, <2>1
    <3> QED BY <1>1, <3>1, TornWords
  <2>2. CASE flash' = Programmed(o, n)
    <3>1. \A w \in Word : flash'[d].data[w] =
            IF w \in Segment(o) /\ w < n THEN SourceWord(o, w) ELSE flash[d].data[w]
      BY <1>1, <2>2, Programs
    <3> QED BY <3>1, TornWords
  <2> QED BY <2>1, <2>2
<1>4. PICK m \in 0..Words : \A w \in Word :
        flash'[d].data[w] = IF w >= m THEN Blank ELSE NewWord(o, w)
  BY <1>3
<1>5. Promise!Upto(PatchOf(o), m, [w \in Promise!Word |-> Blank]) =
        [w \in Word |-> IF w >= m THEN [v \in Promise!Word |-> Blank][w] ELSE NewWord(o, w)]
  BY <1>2, UptoIs
<1>6. flash'[d].data = Promise!Upto(PatchOf(o), m, [w \in Promise!Word |-> Blank])
  BY <1>content, <1>4, <1>5 DEF Content, Promise!Word, Word
<1>7. flash'[d].data \in Promise!Torn(PatchOf(o))
  BY <1>6 DEF Promise!Torn
<1>8. op'[t].pc = "idle" /\ op'[t].ret = "none"
  BY DEF IdleOp, Returned
<1>9. Stored' = [Stored EXCEPT ![o.block] = flash'[d].data]
  <2>1. \A b \in Blocks : StoredIn(flash', op'[t], b) =
          IF b = o.block THEN flash'[d].data ELSE StoredIn(flash, o, b)
    BY <1>2, <1>8 DEF StoredIn, Copying
  <2> QED BY <1>2, <2>1, Mapping, MappingNext
<1>10. Pending = {PatchOf(o)} /\ PatchOf(o).block = o.block /\ Pending' = {} /\ Answered' = {}
  BY <1>8, Mapping, MappingNext DEF PatchOf
<1> QED BY <1>7, <1>9, <1>10 DEF Promise!PowerCut

LEMMA SimPowerCut ==
  ASSUME StorageAssumption, NEW t, Threads = {t}, MInv, IInv', PowerCut
  PROVE  CopyInv(op[t])' /\ Promise!PowerCut
<1> DEFINE o == op[t]
           d == o.dest
<1>1. op' = [u \in Threads |-> IdleOp] /\ op'[t].pc = "idle" /\ op'[t].ret = "none" /\ o.pc # "idle"
  BY DEF PowerCut, IdleOp, Returned
<1>2. CopyInv(op[t])'
  BY <1>1 DEF CopyInv
<1>3. Pending = {PatchOf(o)} /\ PatchOf(o).block = o.block /\ Pending' = {} /\ Answered' = {}
  BY <1>1, Mapping, MappingNext DEF PatchOf
<1>4. CASE \A b \in Blocks : BlockIn(flash', b) = StoredIn(flash, o, b)
  <2>1. Stored' = Stored
    BY <1>1, <1>4, Mapping, MappingNext DEF StoredIn, Copying
  <2> QED BY <1>2, <1>3, <2>1 DEF Promise!PowerCut
<1>5. CASE UNCHANGED flash
  <2>1. CASE o.pc \in {"prefix", "patch", "suffix"}
    <3>1. 0 \in Word
      BY DEF Word, StorageAssumption
    <3> QED BY <1>1, <1>2, <1>5, <2>1, <3>1, CutWhileMoving
  <2>2. CASE o.pc \notin {"prefix", "patch", "suffix"}
    <3>1. \A b \in Blocks : BlockIn(flash', b) = StoredIn(flash, o, b)
      BY <1>5, <2>2 DEF StoredIn, Copying
    <3> QED BY <1>4, <3>1
  <2> QED BY <2>1, <2>2
<1>6. CASE \E n \in 1..2 : o.pc = "header" /\ flash' = HeaderWritten(o, n)
  <2>1. PICK n \in 1..3 : o.pc = "header" /\ flash' = HeaderWritten(o, n) /\ n # 3
    BY <1>6
  <2>2. /\ o \in Op /\ d \in Sector /\ flash[d] = Erased
        /\ flash \in [Sector -> SectorState] /\ DistinctIn(flash) /\ flash' \in [Sector -> SectorState]
    BY <2>1, Facts, FactsNext DEF OpInv, Op
  <2>3. flash'[d].rev = JournalInvalid /\ \A s \in Sector : s # d => flash'[s] = flash[s]
    BY <2>1, <2>2, HeaderIsWritten DEF Erased, MInv, IInv
  <2>4. \A b : d \notin VersionsIn(flash', b) /\ d \notin NewestIn(flash, b)
    BY <2>2, <2>3 DEF VersionsIn, NewestIn, Erased, JournalInvalid, StorageAssumption
  <2>5. \A b \in Blocks : BlockIn(flash', b) = BlockIn(flash, b)
    BY <2>2, <2>3, <2>4, OtherSector
  <2> QED BY <1>4, <2>1, <2>5 DEF StoredIn, Copying
<1>7. CASE \E n \in Word : Segment(o) # {} /\ flash' = Programmed(o, n)
  <2>1. PICK n \in Word : flash' = Programmed(o, n) /\ o.pc \in {"inplace", "prefix", "patch", "suffix"}
    BY <1>7 DEF Segment
  <2>2. CASE o.pc # "inplace"
    BY <1>1, <1>2, <2>1, <2>2, CutWhileMoving
  <2>3. CASE o.pc = "inplace"
    <3>1. n \in Int /\ \A w \in Word : w \in Int
      BY DEF Word, StorageAssumption
    <3>2. /\ o \in Op /\ o.block \in Blocks /\ flash' \in [Sector -> SectorState]
          /\ \A b \in Blocks : b # o.block => BlockIn(flash', b) = BlockIn(flash, b)
          /\ StoredIn(flash, o, o.block) = flash[o.src].data
          /\ BlockIn(flash', o.block) = flash'[d].data
          /\ \A w \in Word : flash'[d].data[w] =
               IF w \in Segment(o) /\ w < n THEN SourceWord(o, w) ELSE flash[d].data[w]
      BY <2>1, <3>1, Programs
    <3>3. d = o.src /\ PatchBlank(o) /\ d \in Sector /\ o.lo \in Int /\ o.hi \in Int
      BY <2>3, <3>1, Facts DEF CopyInv, Op
    <3>4. Stored[o.block] = flash[d].data
      BY <3>2, <3>3, Mapping
    <3>5. \A w \in Word : Promise!InPatch(PatchOf(o), w) => flash[d].data[w] = Blank
      <4>1. PatchOf(o).lo = o.lo /\ PatchOf(o).hi = o.hi
        BY DEF PatchOf
      <4>2. \A w \in o.lo..o.hi : flash[d].data[w] = Blank
        BY <3>3 DEF PatchBlank
      <4> SUFFICES ASSUME NEW w \in Word, Promise!InPatch(PatchOf(o), w) PROVE flash[d].data[w] = Blank
        OBVIOUS
      <4>3. o.lo <= w /\ w <= o.hi
        BY <4>1 DEF Promise!InPatch
      <4>4. w \in o.lo..o.hi
        BY <3>1, <3>3, <4>3
      <4> QED BY <4>2, <4>4
    <3>6. Promise!Upto(PatchOf(o), n, Stored[o.block]) =
            [w \in Word |-> IF w >= n THEN Stored[o.block][w] ELSE NewWord(o, w)]
      BY <3>2, UptoIs
    <3>7. \A w \in Word : flash'[d].data[w] = IF w >= n THEN flash[d].data[w] ELSE NewWord(o, w)
      <4> SUFFICES ASSUME NEW w \in Word
                   PROVE flash'[d].data[w] = IF w >= n THEN flash[d].data[w] ELSE NewWord(o, w)
        OBVIOUS
      <4>1. w \in Segment(o) <=> o.lo <= w /\ w <= o.hi
        BY <2>3 DEF Segment
      <4>2. w < n <=> ~(w >= n)
        BY <3>1
      <4> QED BY <2>3, <3>2, <3>3, <4>1, <4>2 DEF SourceWord, NewWord
    <3>8. flash'[d].data = Promise!Upto(PatchOf(o), n, Stored[o.block])
      <4>1. flash'[d].data \in Content
        BY <3>2, <3>3 DEF SectorState
      <4> QED BY <3>4, <3>6, <3>7, <4>1 DEF Content
    <3>9. flash'[d].data \in Promise!Torn(PatchOf(o))
      BY <1>3, <3>4, <3>5, <3>8 DEF Promise!Torn, Promise!Word, Word
    <3>10. Stored' = [Stored EXCEPT ![o.block] = flash'[d].data]
      <4>1. \A b \in Blocks : StoredIn(flash', op'[t], b) =
              IF b = o.block THEN flash'[d].data ELSE StoredIn(flash, o, b)
        BY <1>1, <2>3, <3>2 DEF StoredIn, Copying
      <4> QED BY <3>2, <4>1, Mapping, MappingNext
    <3> QED BY <1>2, <1>3, <3>9, <3>10 DEF Promise!PowerCut
  <2> QED BY <2>2, <2>3
<1> QED BY <1>5, <1>6, <1>7 DEF PowerCut

LEMMA SimNext ==
  ASSUME StorageAssumption, NEW t, Threads = {t}, MInv, IInv', [Next]_vars
  PROVE  MInv' /\ [Promise!Next]_(Promise!vars)
<1>1. CASE Step(t)
  BY <1>1, SimCall, SimLookup, SimDecide, SimJournal, SimChoose, SimErase, SimHeader, SimProgram
     DEF Step, MInv, Promise!Next
<1>2. CASE PowerCut
  BY <1>2, SimPowerCut DEF MInv, Promise!Next
<1>3. CASE UNCHANGED vars
  <2>1. CopyInv(op[t])'
    <3>1. CopyInv(op[t])
      BY DEF MInv
    <3> QED BY <1>3, <3>1 DEF vars, CopyInv, Versions, Newest, PatchBlank, Copied, NewWord
  <2>2. Stored' = Stored /\ Pending' = Pending /\ Answered' = Answered
    <3>1. flash' = flash /\ op'[t] = op[t]
      BY <1>3 DEF vars
    <3>2. Stored' = Stored
      <4>1. Stored' = [b \in Blocks |-> StoredIn(flash', op'[t], b)]
        BY MappingNext
      <4>2. Stored = [b \in Blocks |-> StoredIn(flash, op[t], b)]
        BY Mapping
      <4> QED BY <3>1, <4>1, <4>2
    <3>3. Pending' = Pending
      <4>1. Pending' = IF op'[t].pc = "idle" THEN {} ELSE {PatchOf(op'[t])}
        BY MappingNext
      <4>2. Pending = IF op[t].pc = "idle" THEN {} ELSE {PatchOf(op[t])}
        BY Mapping
      <4> QED BY <3>1, <4>1, <4>2
    <3>4. Answered' = Answered
      <4>1. Answered' = {op'[t].ret} \ {"none"}
        BY MappingNext
      <4>2. Answered = {op[t].ret} \ {"none"}
        BY Mapping
      <4> QED BY <3>1, <4>1, <4>2
    <3> QED BY <3>2, <3>3, <3>4
  <2> QED BY <2>1, <2>2 DEF MInv, Promise!vars
<1> QED BY <1>1, <1>2, <1>3 DEF Next

LEMMA SimInit ==
  ASSUME StorageAssumption, NEW t, Threads = {t}, Init
  PROVE  MInv /\ Promise!Init
<1>1. IInv
  BY InitInv
<1>2. op[t].pc = "idle" /\ op[t].ret = "none" /\ \A s \in Sector : flash[s] = Erased
  BY DEF Init, IdleOp, Returned
<1>3. CopyInv(op[t])
  BY <1>2 DEF CopyInv
<1>4. \A b \in Blocks : StoredIn(flash, op[t], b) = BlankContent
  BY <1>2 DEF StoredIn, Copying, BlockIn, VersionsIn, Erased
<1>5. Stored = [b \in Blocks |-> BlankContent] /\ Pending = {} /\ Answered = {}
  BY <1>2, <1>4, Mapping
<1>6. BlankContent = [w \in Promise!Word |-> Blank]
  BY DEF BlankContent, Promise!Word, Word
<1> QED BY <1>1, <1>3, <1>5, <1>6 DEF MInv, Promise!Init

(***************************************************************************)
(* The theorems.                                                           *)
(***************************************************************************)

(* The variables keep their types: the flash only ever holds what          *)
(* init_sector and flashProgram can put there.                             *)
THEOREM TypeCorrect ==
  ASSUME StorageAssumption, NEW t, Threads = {t}
  PROVE  Spec => []TypeOK
<1>1. IInv => TypeOK
  BY DEF IInv
<1> QED BY <1>1, Invariance, PTL

(* With one caller no osalDbgAssert of storage.c fires, after any number   *)
(* of power cuts: find_empty_sector finds a sector and flashProgram finds  *)
(* blank words.                                                            *)
THEOREM NeverAsserts ==
  ASSUME StorageAssumption, NEW t, Threads = {t}
  PROVE  Spec => []NoAssert
<1>1. IInv => NoAssert
  BY DEF IInv, OpInv, NoAssert, NoHalt
<1> QED BY <1>1, Invariance, PTL

(* With one caller the newest copy of a block is never lost.               *)
THEOREM NeverLosesNewest ==
  ASSUME StorageAssumption, NEW t, Threads = {t}
  PROVE  Spec => NewestKept
<1>1. IInv /\ [Next]_vars => [KeepsNewest]_vars
  <2> DEFINE o == op[t]
  <2> SUFFICES ASSUME IInv, Next PROVE KeepsNewest
    OBVIOUS
  <2>1. /\ TypeOK /\ JournalInv /\ OpInv(o) /\ o \in Op /\ o.dest \in Sector
        /\ flash \in [Sector -> SectorState]
    BY DEF IInv, TypeOK, Op
  <2>2. SUFFICES ASSUME NEW s \in Sector, Valid(s)
                 PROVE  \E r \in Sector : /\ flash'[r].sig /\ flash'[r].block = flash[s].block
                                          /\ flash'[r].rev <= flash[s].rev
    BY DEF KeepsNewest, Valid
  <2>3. flash[s].sig /\ flash[s].rev \in Int
    BY <2>1, <2>2 DEF Valid, SectorState
  <2>4. CASE flash' = flash
    BY <2>3, <2>4
  <2>5. CASE flash' = [flash EXCEPT ![o.dest] = Erased] /\ o.pc = "erase"
    <3>1. CASE s = o.dest
      <4>1. PICK r \in Sector : /\ flash[r].sig /\ flash[r].block = flash[s].block
                                /\ flash[r].rev < flash[s].rev
        BY <2>1, <2>2, <2>5, <3>1 DEF OpInv, Outdated
      <4>2. r # o.dest /\ flash[r].rev \in Int
        BY <2>1, <2>3, <3>1, <4>1 DEF SectorState
      <4>3. flash'[r] = flash[r]
        BY <2>1, <2>5, <4>2
      <4>4. /\ flash'[r].sig /\ flash'[r].block = flash[s].block
            /\ flash'[r].rev <= flash[s].rev
        BY <2>3, <4>1, <4>2, <4>3
      <4> QED BY <4>1, <4>4
    <3>2. CASE s # o.dest
      BY <2>1, <2>3, <2>5, <3>2
    <3> QED BY <3>1, <3>2
  <2>6. CASE \E n \in 1..3 : o.pc = "header" /\ flash' = HeaderWritten(o, n)
    <3>1. PICK n \in 1..3 : o.pc = "header" /\ flash' = HeaderWritten(o, n)
      BY <2>6
    <3>2. s # o.dest
      BY <2>1, <2>3, <3>1 DEF OpInv, Erased
    <3>3. flash'[s] = flash[s]
      BY <2>1, <3>1, <3>2, HeaderIsWritten
    <3> QED BY <2>3, <3>3
  <2>7. CASE \E n \in Int : o.pc # "idle" /\ flash' = Programmed(o, n)
    <3>1. PICK n \in Int : o.pc # "idle" /\ flash' = Programmed(o, n)
      BY <2>7
    <3>2. o.val \in Values
      BY <2>1, <3>1 DEF OpInv
    <3>3. /\ flash'[s].sig = flash[s].sig /\ flash'[s].block = flash[s].block
          /\ flash'[s].rev = flash[s].rev
      BY <2>1, <3>1, <3>2, ProgrammedKeepsHeaders
    <3>4. flash'[s].sig
      BY <2>3, <3>3, Zenon
    <3>5. flash'[s].rev <= flash[s].rev
      BY <2>3, <3>3
    <3> QED BY <3>3, <3>4, <3>5, Zenon
  <2>8. \/ flash' = flash
        \/ flash' = [flash EXCEPT ![o.dest] = Erased] /\ o.pc = "erase"
        \/ \E n \in 1..3 : o.pc = "header" /\ flash' = HeaderWritten(o, n)
        \/ \E n \in Int : o.pc # "idle" /\ flash' = Programmed(o, n)
    <3>1. Words \in Int /\ Word \subseteq Int
      BY DEF Word, StorageAssumption
    <3>2. CASE Call(t) \/ Lookup(t) \/ Decide(t) \/ Journal(t) \/ Choose(t)
      BY <3>2 DEF Call, Lookup, Decide, Journal, Choose
    <3>3. CASE Erase(t)
      BY <3>3 DEF Erase
    <3>4. CASE Header(t)
      BY <3>4 DEF Header
    <3>5. CASE Program(t)
      BY <3>1, <3>5 DEF Program
    <3>6. CASE PowerCut
      <4>1. Segment(o) # {} => o.pc # "idle"
        BY DEF Segment
      <4> QED BY <3>1, <3>6, <4>1 DEF PowerCut
    <3> QED BY <3>2, <3>3, <3>4, <3>5, <3>6 DEF Next, Step
  <2> QED BY <2>4, <2>5, <2>6, <2>7, <2>8
<1> QED BY <1>1, Invariance, PTL DEF Spec, NewestKept

(* With one caller the block store keeps its promise (BlockStore): every   *)
(* patch takes effect in one step or is refused, and a power cut at any    *)
(* flash operation damages no other block.                                 *)
THEOREM KeepsPromise ==
  ASSUME StorageAssumption, NEW t, Threads = {t}
  PROVE  Spec => ImplementsBlockStore
<1>1. Init => MInv /\ Promise!Init
  BY SimInit
<1>2. MInv /\ IInv' /\ [Next]_vars => MInv' /\ [Promise!Next]_(Promise!vars)
  BY SimNext
<1> QED BY <1>1, <1>2, Invariance, PTL DEF Spec, ImplementsBlockStore, Promise!Spec
=============================================================================
