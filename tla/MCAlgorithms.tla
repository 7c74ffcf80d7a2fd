---------------------------- MODULE MCAlgorithms ----------------------------
(***************************************************************************)
(* Small instances of the parts that run on their own: the random number      *)
(* generators, with registers of four numbers, as with AVX, and arrays from   *)
(* every offset up to beyond the second boundary; their steps with words as   *)
(* wide as in the code, from the states with a single bit; the arena; and the *)
(* reader of CSV files.  They share nothing, so a behaviour is one of any of  *)
(* them.                                                                     *)
(***************************************************************************)
EXTENDS XoroshiroRNG, XoroshiroAdvance, Xoroshiro128plus, Arena, CompileTimeCsv

VARIABLE part

allVars == <<part, vars, advanceVars, jumpVars, arenaVars, csvVars>>

SingleBit(n) == {<<{b}, {}>> : b \in 0 .. n - 1} \cup {<<{}, {b}>> : b \in 0 .. n - 1}
MCSeeded(I) == SingleBit(Bits(I))

(* Sizes and alignments of a byte, a short, a double, and a struct of three     *)
(* ints; the arena lies at an address that new gives out.                     *)
MCType == {[size |-> 1, align |-> 1], [size |-> 2, align |-> 2],
           [size |-> 8, align |-> 8], [size |-> 12, align |-> 4]}

-----------------------------------------------------------------------------
(* Tables of one or two columns and up to two rows.                           *)
MCNames == {"ID", "AGE"}
Numbers == {<<2, 5>>, <<3, 0, 5>>}
Tables == UNION {{[names |-> names, rows |-> rows] : rows \in SeqOf([DOMAIN names -> Numbers], 2)} :
                   names \in {<<"ID">>, <<"ID", "AGE">>}}
Layouts == [before : 0 .. 1, after : 0 .. 1, first : 0 .. 1, last : 0 .. 2,
            column : 1 .. 2, row : 1 .. 2]
NoDamage == [damage : {"none"}, layout : {l \in Layouts : l.column = 1 /\ l.row = 1}]
Damage == [damage : Damages, layout : Layouts]

MCFile ==
  {[table |-> table, layout |-> d.layout, damage |-> d.damage,
    text |-> Text(table, d.layout, d.damage)] :
     <<table, d>> \in {td \in Tables \X (NoDamage \cup Damage) :
                        Possible(td[1], td[2].layout, td[2].damage)}}

-----------------------------------------------------------------------------
NoJump == state = <<>> /\ local = <<>> /\ bit_idx = 0 /\ leap = <<>> /\ doublings = 0
NoFile == file = [damage |-> "", text |-> <<>>] /\ step = "" /\ specs = <<>> /\ data = <<>>

MCInit ==
  /\ part \in {"fills", "sequential", "advance", "jump", "arena", "csv"}
  /\ FillInit /\ AdvanceInit /\ ArenaInit
  /\ SequentialInit /\ (part # "sequential" => version = "Sequential")
  /\ IF part = "jump" THEN JumpInit ELSE NoJump
  /\ IF part = "csv" THEN CsvInit ELSE NoFile

(* The end of a part; that of the sequential generator is when nobody asks.    *)
Idle ==
  /\ AdvanceDone \/ JumpDone \/ step \in {"done", "refused"} \/ part = "sequential"
  /\ UNCHANGED allVars

MCNext ==
  \/ part = "fills" /\ FillNext /\ UNCHANGED <<part, advanceVars, jumpVars, arenaVars, csvVars>>
  \/ part = "sequential" /\ SequentialNext
       /\ UNCHANGED <<part, advanceVars, jumpVars, arenaVars, csvVars>>
  \/ part = "advance" /\ AdvanceNext /\ UNCHANGED <<part, vars, jumpVars, arenaVars, csvVars>>
  \/ part = "jump" /\ JumpNext /\ UNCHANGED <<part, vars, advanceVars, arenaVars, csvVars>>
  \/ part = "arena" /\ ArenaNext /\ UNCHANGED <<part, vars, advanceVars, jumpVars, csvVars>>
  \/ part = "csv" /\ CsvNext /\ UNCHANGED <<part, vars, advanceVars, jumpVars, arenaVars>>
  \/ Idle

MCSpec == MCInit /\ [][MCNext]_allVars
=============================================================================
