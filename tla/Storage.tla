------------------------------- MODULE Storage -------------------------------
(***************************************************************************)
(* ORFS, the journalled block store the firmware keeps in the last 16 kB   *)
(* of program flash (src/storage.c on top of src/flash.c).                 *)
(*                                                                         *)
(* A sector starts with a header (signature, version, block, journalrev)   *)
(* that is followed by the block's words.  Journal numbers count DOWN, so  *)
(* the copy of a block with the smallest number is the current one.  A     *)
(* patch of blank words is programmed in place; any other patch copies the *)
(* block to a sector picked by find_empty_sector.                          *)
(*                                                                         *)
(* Steps are the flash operations: each runs under chSysLock, so a thread  *)
(* switch can happen only between two of them, while a power cut can also  *)
(* strike inside one and leave a prefix of its words programmed.  There is *)
(* no lock around storagePatchData: Threads are all its callers.  That     *)
(* flashProgram looks whether its destination is blank a millisecond before *)
(* it programs matters to two callers only; here it is one step.           *)
(***************************************************************************)
EXTENDS Integers, FiniteSets

CONSTANTS
  Threads,      (* threads that call storagePatchData                      *)
  SectorCount,  (* SECTOR_COUNT                                            *)
  Blocks,       (* the logical blocks in use: genes, userconfig, audit log *)
  Words,        (* number of data words in a sector                        *)
  Values,       (* what a programmed word can hold                         *)
  Blank,        (* the erased word 0xFFFFFFFF                              *)
  NoBlock,      (* the block field of a header that was cut short          *)
  Youngest      (* JOURNAL_YOUNGEST                                        *)

(* find_empty_sector needs a sector beyond those the blocks, and one       *)
(* header that was cut short, can fill: the firmware uses three blocks of  *)
(* eight sectors (sixteen on the BM17).                                    *)
ASSUME StorageAssumption ==
  /\ SectorCount \in Nat
  /\ IsFiniteSet(Blocks) /\ NoBlock \notin Blocks
  /\ Cardinality(Blocks) + 1 < SectorCount
  /\ Words \in Nat \ {0}
  /\ Blank \notin Values
  /\ Youngest \in Nat

Sector == 0..(SectorCount - 1)
Word == 0..(Words - 1)
JournalInvalid == Youngest + 1     (* 0xFFFFFFFF, older than any valid one *)
Content == [Word -> Values \cup {Blank}]
BlankContent == [w \in Word |-> Blank]

SectorState == [sig : BOOLEAN, block : Blocks \cup {NoBlock},
                rev : 0..JournalInvalid, data : Content]
Erased == [sig |-> FALSE, block |-> NoBlock, rev |-> JournalInvalid,
           data |-> BlankContent]

(* One activation of storagePatchData; the words lo..hi become val.  next  *)
(* is where control continues once init_sector has written a header.       *)
PC == {"idle", "lookup", "decide", "journal", "choose", "erase", "header",
       "inplace", "prefix", "patch", "suffix", "assert"}
Op == [pc : PC, block : Blocks \cup {NoBlock}, lo : Word, hi : Word, val : Values \cup {Blank},
       src : Sector, dest : Sector, rev : 0..JournalInvalid,
       next : {"decide", "journal", "prefix"}, ret : {"none", "ok", "over"}]

(* No activation, only the code the last one returned, if any: what the    *)
(* other fields hold then is never read.                                   *)
Returned(code) ==
  [pc |-> "idle", block |-> NoBlock, lo |-> 0, hi |-> 0, val |-> Blank, src |-> 0, dest |-> 0,
   rev |-> JournalInvalid, next |-> "decide", ret |-> code]
IdleOp == Returned("none")

VARIABLES
  flash,        (* the sectors, in address order                           *)
  op            (* what each thread is doing                               *)

vars == <<flash, op>>

-----------------------------------------------------------------------------
(* Reading the journal.                                                    *)

(* The copies of b that a lookup accepts: signed, and with a journal       *)
(* number not above JOURNAL_YOUNGEST.                                      *)
Versions(b) ==
  {s \in Sector : flash[s].sig /\ flash[s].block = b /\ flash[s].rev <= Youngest}

(* The copy the scan of storageGetData and storage_get_journal ends with:  *)
(* the smallest journal number, the last such sector when two are equal.   *)
Newest(b) ==
  {s \in Versions(b) :
     \A r \in Versions(b) : \/ flash[s].rev < flash[r].rev
                            \/ flash[s].rev = flash[r].rev /\ r <= s}

Seen(s) == {r \in Sector : r < s /\ flash[r].sig /\ flash[r].block = flash[s].block}

(* Where the scan of find_empty_sector may stop.  A header that was cut    *)
(* short has block 0xFFFFFFFF, which indexes blockToSector outside its     *)
(* bounds: the word read there either looks unused (the scan goes on) or   *)
(* does not (garbage, the scan stops at this sector).                      *)
Stops(s, garbage) ==
  \/ ~flash[s].sig
  \/ garbage /\ flash[s].block = NoBlock
  \/ Seen(s) # {}

(* Mutant of GivenUp: the comparison of the two journal numbers is swapped. *)
GivenUpNewer(s, garbage) ==
  IF ~flash[s].sig \/ (garbage /\ flash[s].block = NoBlock) THEN {s}
  ELSE {IF flash[s].rev < flash[r].rev THEN s ELSE r : r \in Seen(s)}

(* The sector given up: the unsigned one, or the older of two copies.      *)
GivenUp(s, garbage) ==
  IF ~flash[s].sig \/ (garbage /\ flash[s].block = NoBlock) THEN {s}
  ELSE {IF flash[s].rev < flash[r].rev THEN r ELSE s : r \in Seen(s)}

(* What find_empty_sector can return; nothing when no sector stops it.     *)
EmptySectors(garbage) ==
  UNION {GivenUp(s, garbage) :
           s \in {s \in Sector : /\ Stops(s, garbage)
                                 /\ \A r \in Sector : r < s => ~Stops(r, garbage)}}

-----------------------------------------------------------------------------
(* Flash operations.                                                       *)

SetPC(t, pc) == op' = [op EXCEPT ![t].pc = pc]

(* Mutant of Segment: the copy after the patch starts one word late.       *)
SegmentLate(o) ==
  CASE o.pc = "prefix" -> {w \in Word : w < o.lo}
    [] o.pc \in {"inplace", "patch"} -> {w \in Word : o.lo <= w /\ w <= o.hi}
    [] o.pc = "suffix" -> {w \in Word : o.hi + 1 < w}
    [] OTHER -> {}

(* The words of the flashProgram call that pc stands for.                  *)
Segment(o) ==
  CASE o.pc = "prefix" -> {w \in Word : w < o.lo}
    [] o.pc \in {"inplace", "patch"} -> {w \in Word : o.lo <= w /\ w <= o.hi}
    [] o.pc = "suffix" -> {w \in Word : o.hi < w}
    [] OTHER -> {}

SourceWord(o, w) == IF o.pc \in {"prefix", "suffix"} THEN flash[o.src].data[w] ELSE o.val

DestBlank(o) == \A w \in Segment(o) : flash[o.dest].data[w] = Blank

HeaderBlank(o) == ~flash[o.dest].sig /\ flash[o.dest].data[0] = Blank

(* flashProgram of the words of the segment below n.                       *)
Programmed(o, n) ==
  [flash EXCEPT ![o.dest].data =
     [w \in Word |-> IF w \in Segment(o) /\ w < n THEN SourceWord(o, w)
                     ELSE flash[o.dest].data[w]]]

(* The first n header fields in the order they are programmed: signature,  *)
(* block, journal number.                                                  *)
HeaderWritten(o, n) ==
  LET old == flash[o.dest]
  IN  [flash EXCEPT ![o.dest] = [sig   |-> TRUE,
                                 block |-> IF n >= 2 THEN o.block ELSE old.block,
                                 rev   |-> IF n = 3 THEN o.rev ELSE old.rev,
                                 data  |-> old.data]]

-----------------------------------------------------------------------------
(* storagePatchData, one action per step of thread t.                      *)

NoHalt == \A t \in Threads : op[t].pc # "assert"

Call(t) ==
  /\ op[t].pc = "idle"
  /\ \E b \in Blocks, lo \in Word, hi \in Word, v \in Values :
       /\ lo <= hi
       /\ op' = [op EXCEPT ![t].pc = "lookup", ![t].block = b, ![t].lo = lo,
                           ![t].hi = hi, ![t].val = v, ![t].ret = "none"]
  /\ UNCHANGED flash

(* storageGetData, which creates the block if no sector holds it.          *)
Lookup(t) ==
  /\ op[t].pc = "lookup"
  /\ LET b == op[t].block
     IN  \/ \E s \in Newest(b) : op' = [op EXCEPT ![t].pc = "decide", ![t].src = s]
         \/ /\ Versions(b) = {}
            /\ op' = [op EXCEPT ![t].pc = "choose", ![t].rev = Youngest, ![t].next = "decide"]
  /\ UNCHANGED flash

(* Mutant of PatchBlank: only the first word is looked at.                 *)
FirstBlank(o) == flash[o.src].data[o.lo] = Blank

(* Are all the words to patch blank in the copy that was found?            *)
PatchBlank(o) == \A w \in o.lo..o.hi : flash[o.src].data[w] = Blank

Decide(t) ==
  /\ op[t].pc = "decide"
  /\ IF PatchBlank(op[t])
     THEN op' = [op EXCEPT ![t].pc = "inplace", ![t].dest = op[t].src]
     ELSE SetPC(t, "journal")
  /\ UNCHANGED flash

(* storage_get_journal.  It creates a block that vanished meanwhile.       *)
Journal(t) ==
  /\ op[t].pc = "journal"
  /\ LET b == op[t].block
     IN  \/ \E s \in Newest(b) :
              op' = [op EXCEPT ![t].pc = "choose", ![t].next = "prefix", ![t].rev = flash[s].rev]
         \/ /\ Versions(b) = {}
            /\ op' = [op EXCEPT ![t].pc = "choose", ![t].rev = Youngest, ![t].next = "journal"]
  /\ UNCHANGED flash

(* The journal number cannot be decremented.  Mutant: it is not checked.   *)
NeverOverflows(o) == o.rev = 0 /\ FALSE
Overflows(o) == o.next = "prefix" /\ o.rev = 0

(* The journal number of the new sector.                                   *)
NewJournal(o) == IF o.next = "prefix" THEN o.rev - 1 ELSE o.rev

(* find_empty_sector, then the check for journal overflow: the call fails  *)
(* with F_ERR_JOURNAL_OVER and leaves the flash alone.                     *)
Choose(t) ==
  /\ op[t].pc = "choose"
  /\ \E garbage \in BOOLEAN :
       \/ /\ \A s \in Sector : ~Stops(s, garbage)
          /\ SetPC(t, "assert")
       \/ \E s \in EmptySectors(garbage) :
            op' = IF Overflows(op[t]) THEN [op EXCEPT ![t] = Returned("over")]
                  ELSE [op EXCEPT ![t].pc = "erase", ![t].dest = s, ![t].rev = NewJournal(op[t])]
  /\ UNCHANGED flash

(* init_sector: erase ...                                                  *)
Erase(t) ==
  /\ op[t].pc = "erase"
  /\ flash' = [flash EXCEPT ![op[t].dest] = Erased]
  /\ SetPC(t, "header")

(* ... then program the header, which must still be blank, and the first   *)
(* data word, which stays so.                                              *)
Header(t) ==
  /\ op[t].pc = "header"
  /\ IF HeaderBlank(op[t])
     THEN /\ flash' = HeaderWritten(op[t], 3)
          /\ op' = [op EXCEPT ![t].pc = op[t].next,
                              ![t].src = IF op[t].next = "decide" THEN op[t].dest ELSE @]
     ELSE SetPC(t, "assert") /\ UNCHANGED flash

(* flashProgram refuses a destination that is not blank, and then          *)
(* storagePatchData asserts.                                               *)
Program(t) ==
  /\ op[t].pc \in {"inplace", "prefix", "patch", "suffix"}
  /\ IF DestBlank(op[t])
     THEN /\ flash' = Programmed(op[t], Words)
          /\ CASE op[t].pc = "prefix" -> SetPC(t, "patch")
               [] op[t].pc = "patch"  -> SetPC(t, "suffix")
               [] OTHER               -> op' = [op EXCEPT ![t] = Returned("ok")]
     ELSE SetPC(t, "assert") /\ UNCHANGED flash

Step(t) ==
  /\ NoHalt
  /\ \/ Call(t)    \/ Lookup(t)  \/ Decide(t) \/ Journal(t)
     \/ Choose(t)  \/ Erase(t)   \/ Header(t) \/ Program(t)

(* Power goes, or the watchdog bites after an assertion stopped the        *)
(* system.  All threads are gone; the flash operation under way, if any,   *)
(* leaves the first n of its words.                                        *)
PowerCut ==
  /\ \E t \in Threads : op[t].pc # "idle"
  /\ \/ UNCHANGED flash
     \/ \E t \in Threads, n \in 1..2 :
          NoHalt /\ op[t].pc = "header" /\ HeaderBlank(op[t]) /\ flash' = HeaderWritten(op[t], n)
     \/ \E t \in Threads, n \in Word :
          NoHalt /\ Segment(op[t]) # {} /\ DestBlank(op[t]) /\ flash' = Programmed(op[t], n)
  /\ op' = [t \in Threads |-> IdleOp]

(* The flash as it leaves the factory.                                     *)
Init ==
  /\ flash = [s \in Sector |-> Erased]
  /\ op = [t \in Threads |-> IdleOp]

Next == (\E t \in Threads : Step(t)) \/ PowerCut

Spec == Init /\ [][Next]_vars

-----------------------------------------------------------------------------
TypeOK == flash \in [Sector -> SectorState] /\ op \in [Threads -> Op]

(* No osalDbgAssert of storage.c ever fires: a spare sector is always      *)
(* found, and every flashProgram finds its destination blank.              *)
NoAssert == NoHalt

(* No step leaves a block with nothing as new as one of its copies.        *)
KeepsNewest ==
  \A s \in Sector : flash[s].sig /\ flash[s].rev <= Youngest =>
    \E r \in Sector : /\ flash'[r].sig /\ flash'[r].block = flash[s].block
                      /\ flash'[r].rev <= flash[s].rev

(* The newest copy of a block is never lost: whatever step is taken,       *)
(* erasing a sector and cutting the power included, each block keeps a     *)
(* copy at least as new as the newest it had, so no lookup ever goes back  *)
(* to an older revision.                                                   *)
NewestKept == [][KeepsNewest]_vars

-----------------------------------------------------------------------------
(* What the store promises its callers (BlockStore): while a patch is      *)
(* being copied to its new sector the old copy still is the block.         *)
Copying(o, b) == o.block = b /\ o.pc \in {"prefix", "patch", "suffix"}

StoredBlock(b) ==
  IF \E t \in Threads : Copying(op[t], b)
  THEN flash[op[CHOOSE t \in Threads : Copying(op[t], b)].src].data
  ELSE IF Versions(b) = {} THEN BlankContent ELSE flash[CHOOSE s \in Newest(b) : TRUE].data

Stored == [b \in Blocks |-> StoredBlock(b)]

Patches == {t \in Threads : op[t].pc # "idle"}

Pending == {[block |-> op[t].block, lo |-> op[t].lo, hi |-> op[t].hi, val |-> op[t].val] : t \in Patches}

Answered == {op[t].ret : t \in Threads} \ {"none"}

Promise == INSTANCE BlockStore WITH store <- Stored, pending <- Pending, result <- Answered

ImplementsBlockStore == Promise!Spec
=============================================================================
