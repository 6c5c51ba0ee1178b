------------------------------ MODULE MCStorage ------------------------------
(* Instances of Storage for TLC.  Neither the blocks nor the values are     *)
(* told apart by the specification, and no property checked with this       *)
(* symmetry is a liveness property.                                         *)
EXTENDS Storage, TLC

CONSTANTS Shell, Events, Gene    (* the two callers of the race, GENE_BLOCK *)

Symm == Permutations(Blocks) \cup Permutations(Values)

(* A cube that has been running for a while: every block has its sector.    *)
BootedInit ==
  /\ op = [t \in Threads |-> IdleOp]
  /\ \E home \in [Blocks -> Sector], v \in Values :
       /\ \A a, b \in Blocks : a # b => home[a] # home[b]
       /\ flash = [s \in Sector |->
            IF \E b \in Blocks : home[b] = s
            THEN [sig |-> TRUE, block |-> CHOOSE b \in Blocks : home[b] = s,
                  rev |-> Youngest, data |-> [w \in Word |-> v]]
            ELSE Erased]

(* handle_radio_sex_ack goes on to its patch only if the name it finds in   *)
(* the gene block is the one the packet is meant for (orchard-app.c:500).   *)
NameStored == \E s \in Newest(Gene) : flash[s].data[0] # Blank

(* Both write the genes, which begin the block: the name command and the    *)
(* handler of the acknowledgement.                                          *)
PatchesGenes(t) == op'[t].block = Gene /\ op'[t].lo = 0 /\ op'[t].hi = 0

(* The event thread (NORMALPRIO + 16) preempts the shell (NORMALPRIO + 1)   *)
(* anywhere.  The shell gets its turn when the event thread waits for an    *)
(* event, and when it sleeps a millisecond before each flash operation      *)
(* (go_72mhz_mode, flash.c:24).                                             *)
Waits == op[Events].pc = "idle"
Sleeps == op[Events].pc \in {"erase", "header", "inplace", "prefix", "patch", "suffix"}

RaceNext ==
  \/ Step(Events) /\ (Waits => NameStored /\ PatchesGenes(Events))
  \/ (Waits \/ Sleeps) /\ Step(Shell) /\ (op[Shell].pc = "idle" => PatchesGenes(Shell))

RaceSpec == BootedInit /\ [][RaceNext]_vars
=============================================================================
