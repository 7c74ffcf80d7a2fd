------------------------------ MODULE CsvFiles ------------------------------
(***************************************************************************)
(* Not in the code: the files that the reader of compile_time_csv/example.cpp *)
(* is given, as their writer sees them.  A file is a record of a table, of    *)
(* how it is laid out, of what damage was done to it, and of its text, a      *)
(* sequence of characters; but a name or a type is one character.            *)
(***************************************************************************)
EXTENDS Integers, Sequences, SequencesExt

CONSTANTS
  Names,  \* what members may be called
  File    \* the files

(* Names are identifiers of C++. *)
ASSUME NamesAssumption == Names \cap {" ", ",", ".", "\n"} = {}

(* A number is a sequence of digits. *)
Digit(d) == <<"0", "1", "2", "3", "4", "5", "6", "7", "8", "9">>[d + 1]
Numeral(digits) == [k \in DOMAIN digits |-> Digit(digits[k])]
Value(digits) ==
  LET upto[k \in 0 .. Len(digits)] == IF k = 0 THEN 0 ELSE 10 * upto[k - 1] + digits[k]
  IN upto[Len(digits)]

IsTable(table) ==
  /\ table.names \in Seq(Names) /\ table.names # <<>>
  /\ \A m, n \in DOMAIN table.names : m # n => table.names[m] # table.names[n]
  /\ table.rows \in Seq([DOMAIN table.names -> Seq(0 .. 9) \ {<<>>}])

(* How many spaces stand before and after a cell, how many empty lines before  *)
(* and after the table, and which column or row is damaged, if one is.        *)
Layout == [before : Nat, after : Nat, first : Nat, last : Nat, column : Nat, row : Nat]
Damages == {"no_type", "unknown_type", "unparsed_type", "unassignable_type",
            "same_name", "short_row", "blank_line"}
Possible(table, layout, damage) ==
  /\ damage # "none" => layout.column \in DOMAIN table.names
  /\ damage = "same_name" => layout.column > 1
  /\ damage = "unparsed_type" => table.rows # <<>>
  /\ damage \in {"short_row", "blank_line"} =>
       Len(table.names) > 1 /\ layout.row \in DOMAIN table.rows

Repeated(c, n) == [k \in 1 .. n |-> c]
Padded(s, c, a, b) == Repeated(c, a) \o s \o Repeated(c, b)
Join(parts, c) ==
  LET upto[k \in 0 .. Len(parts)] ==
        IF k = 0 THEN <<>>
        ELSE IF k = 1 THEN parts[1] ELSE upto[k - 1] \o <<c>> \o parts[k]
  IN upto[Len(parts)]

HeaderCell(name, damage) ==
  CASE damage = "no_type" -> <<name>>
    [] damage = "unknown_type" -> <<name, ".", "char">>
    [] damage = "unparsed_type" -> <<name, ".", "int">>
    [] damage = "unassignable_type" -> <<name, ".", "std::string_view">>
    [] OTHER -> <<name, ".", "size_t">>

Headers(table, layout, damage) ==
  [n \in DOMAIN table.names |->
     IF n # layout.column THEN HeaderCell(table.names[n], "none")
     ELSE HeaderCell(table.names[IF damage = "same_name" THEN 1 ELSE n], damage)]

(* The numbers of a row; a short one lacks the last. *)
Cells(table, layout, damage, r) ==
  LET all == [n \in DOMAIN table.names |-> Numeral(table.rows[r][n])]
  IN IF damage = "short_row" /\ r = layout.row THEN Front(all) ELSE all

Line(cells, layout) ==
  Join([n \in DOMAIN cells |-> Padded(cells[n], " ", layout.before, layout.after)], ",")

Lines(table, layout, damage) ==
  LET all == <<Line(Headers(table, layout, damage), layout)>>
               \o [r \in DOMAIN table.rows |-> Line(Cells(table, layout, damage, r), layout)]
  IN IF damage = "blank_line" THEN InsertAt(all, layout.row + 1, <<>>) ELSE all

Text(table, layout, damage) ==
  Padded(Join(Lines(table, layout, damage), "\n"), "\n", layout.first, layout.last)

ASSUME FileAssumption ==
  \A f \in File :
    /\ IsTable(f.table) /\ f.layout \in Layout /\ f.damage \in Damages \cup {"none"}
    /\ Possible(f.table, f.layout, f.damage)
    /\ f.text = Text(f.table, f.layout, f.damage)
=============================================================================
