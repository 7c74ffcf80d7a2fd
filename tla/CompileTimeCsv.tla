--------------------------- MODULE CompileTimeCsv ---------------------------
(***************************************************************************)
(* The compile-time reader of compile_time_csv/example.cpp, as the compiler   *)
(* evaluates it: the header becomes the members of Row, every other line a    *)
(* Row.  What is thrown, or read out of bounds, in a constant expression      *)
(* stops the compiler: the file is refused.                                  *)
(***************************************************************************)
EXTENDS CsvFiles, FiniteSets

CONSTANT SizeLimit  \* 2^w of size_t

ASSUME CsvAssumption == SizeLimit \in Nat \ {0}

VARIABLES
  file,   \* the file that is read
  step,   \* "header", "rows", "done", or "refused"
  specs,  \* the members of Row: their names and types
  data    \* the rows read so far, each the values of its members

csvVars == <<file, step, specs, data>>

(* split(line, delimiter); after[i] is where its loop is after i characters.   *)
Split(line, delimiter) ==
  LET after[i \in 0 .. Len(line) + 1] ==
        IF i = 0 THEN [out |-> <<>>, start |-> 1]
        ELSE LET before == after[i - 1] IN
             IF i = Len(line) + 1 \/ line[i] = delimiter
             THEN [out |-> Append(before.out, SubSeq(line, before.start, i - 1)), start |-> i + 1]
             ELSE before
  IN after[Len(line) + 1].out

(* Mutant: only what leads is removed. *)
SanitizeFront(line, skip) ==
  LET kept == {k \in DOMAIN line : line[k] # skip}
  IN IF kept = {} THEN <<>> ELSE SubSeq(line, Min(kept), Len(line))

(* sanitize(line, skip): without what leads and trails. *)
Sanitize(line, skip) ==
  LET kept == {k \in DOMAIN line : line[k] # skip}
  IN IF kept = {} THEN <<>> ELSE SubSeq(line, Min(kept), Max(kept))

lines == Split(Sanitize(file.text, "\n"), "\n")
NUM_ROWS == Len(lines) - 1

-----------------------------------------------------------------------------
CsvInit ==
  /\ file \in File
  /\ step = "header" /\ specs = <<>> /\ data = <<>>

Refuse ==
  /\ step' = "refused"
  /\ UNCHANGED <<file, specs, data>>

(* What string_to_type knows. *)
Types == {"size_t", "int", "double", "float", "std::string_view"}

pairs == LET headers == Split(lines[1], ",") IN [n \in DOMAIN headers |-> Split(headers[n], ".")]
MemberName(pair) == Sanitize(pair[1], " ")
TypeName(pair) == Sanitize(pair[2], " ")

(* name.type everywhere, with known types and names a struct can have. *)
HeaderAccepted ==
  /\ \A n \in DOMAIN pairs :
       /\ Len(pairs[n]) = 2
       /\ TypeName(pairs[n]) \in {<<type>> : type \in Types}
       /\ MemberName(pairs[n]) \in {<<name>> : name \in Names}
  /\ \A m, n \in DOMAIN pairs : m # n => MemberName(pairs[m]) # MemberName(pairs[n])

(* The consteval block: define_aggregate(^^Row, specs). *)
DefineRow ==
  /\ step = "header" /\ HeaderAccepted
  /\ specs' = [n \in DOMAIN pairs |->
                 [name |-> MemberName(pairs[n])[1], type |-> TypeName(pairs[n])[1]]]
  /\ step' = "rows"
  /\ UNCHANGED <<file, data>>

RefuseHeader == step = "header" /\ ~HeaderAccepted /\ Refuse

-----------------------------------------------------------------------------
(* The code of a character. *)
Code(c) ==
  CASE c = "0" -> 48 [] c = "1" -> 49 [] c = "2" -> 50 [] c = "3" -> 51 [] c = "4" -> 52
    [] c = "5" -> 53 [] c = "6" -> 54 [] c = "7" -> 55 [] c = "8" -> 56 [] c = "9" -> 57
    [] c = "\r" -> 13 [] c = "\n" -> 10 [] c = " " -> 32

(* parse_size_t(s); result[k] is its result after k characters. *)
ParseSizeT(s) ==
  LET digits == Sanitize(s, " ")
      result[k \in 0 .. Len(digits)] ==
        IF k = 0 THEN 0
        ELSE (result[k - 1] * 10 + (Code(digits[k]) - Code("0"))) % SizeLimit
  IN result[Len(digits)]

(* The cells of the next line; more of them than members are not looked at.    *)
elements == Split(lines[Len(data) + 2], ",")

(* parse_field of every member; only size_t has a parser.                      *)
RowAccepted == Len(elements) >= Len(specs) /\ \A n \in DOMAIN specs : specs[n].type = "size_t"

(* Mutant: a cell that is not there is read as nothing. *)
ReadRowShort ==
  /\ step = "rows" /\ Len(data) < NUM_ROWS
  /\ \A n \in DOMAIN specs : specs[n].type = "size_t"
  /\ data' = Append(data, [n \in DOMAIN specs |->
                IF n \in DOMAIN elements THEN ParseSizeT(Sanitize(elements[n], " ")) ELSE 0])
  /\ UNCHANGED <<file, step, specs>>

ReadRow ==
  /\ step = "rows" /\ Len(data) < NUM_ROWS /\ RowAccepted
  /\ data' = Append(data, [n \in DOMAIN specs |-> ParseSizeT(Sanitize(elements[n], " "))])
  /\ UNCHANGED <<file, step, specs>>

(* A number cannot be assigned to a string_view, even if there is no row. *)
RefuseRow ==
  /\ step = "rows"
  /\ \/ Len(data) < NUM_ROWS /\ ~RowAccepted
     \/ \E n \in DOMAIN specs : specs[n].type = "std::string_view"
  /\ Refuse

Finish ==
  /\ step = "rows" /\ Len(data) = NUM_ROWS
  /\ \A n \in DOMAIN specs : specs[n].type # "std::string_view"
  /\ step' = "done"
  /\ UNCHANGED <<file, specs, data>>

CsvNext == DefineRow \/ RefuseHeader \/ ReadRow \/ RefuseRow \/ Finish

CsvSpec == CsvInit /\ [][CsvNext]_csvVars

(* get<name>(row). *)
Get(row, name) == row[CHOOSE n \in DOMAIN specs : specs[n].name = name]

-----------------------------------------------------------------------------
(***************************************************************************)
(* A well-formed file is read, however it is spaced and whatever empty lines  *)
(* surround it, and every value comes back under the name of its column, but *)
(* for what a size_t cannot hold.                                            *)
(***************************************************************************)
ReadsBack ==
  file.damage = "none" =>
    /\ step # "refused"
    /\ step = "done" =>
         /\ Len(data) = Len(file.table.rows)
         /\ \A r \in DOMAIN data : \A n \in DOMAIN file.table.names :
              Get(data[r], file.table.names[n]) = Value(file.table.rows[r][n]) % SizeLimit

(***************************************************************************)
(* A file whose header is not name.type with types that can be read, or with  *)
(* a line too short for it, gives no data: nothing is read into the wrong row *)
(* or made up.  (A longer line does give data, and so does an empty line      *)
(* where there is but one column: README, section 7.)                        *)
(***************************************************************************)
DamageRefused == file.damage \in Damages => step # "done"
=============================================================================
