------------------------------- MODULE Parsers -------------------------------
(***************************************************************************)
(* The response parsers (parsers/*.py) behind ReadOnlyPylontechClient      *)
(* (commands.py), with the cell count that polling checks behind bat, on   *)
(* answers that reach them damaged: the framing guarantees where an answer *)
(* begins and ends, not that every line between arrived.                   *)
(*                                                                         *)
(* An answer is a sequence of lines.  A line is what the parsers tell      *)
(* apart: its kind and the row or field it is for, its key; and what the   *)
(* module said with it, which stands for its values.                       *)
(*                                                                         *)
(* The specification is ParserSpec: Framing, the stage before, is read     *)
(* together with this module and has a Spec of its own.                    *)
(***************************************************************************)
EXTENDS Naturals, SequencesExt

CONSTANTS
  Positions,   \* rack positions
  CellCount,   \* cells of the module at each
  Required,    \* names of the fields every field answer must have
  Optional,    \* names of fields it may have besides
  MaxDamage    \* how often one answer is damaged

ASSUME PositionsAssumption == Positions \subseteq 1..16 /\ Positions # {}
ASSUME CellCountAssumption == CellCount \in [Positions -> Nat \ {0}]
ASSUME FieldsAssumption ==
  /\ IsFiniteSet(Required) /\ IsFiniteSet(Optional)
  /\ Required \cap Optional = {} /\ "address" \in Required
ASSUME DamageAssumption == MaxDamage \in Nat

VARIABLES
  command,   \* what was asked: [name, position]
  source,    \* the module that answered, Rack if no single one
  lines,     \* the answer as it arrives
  damage,    \* how often it was damaged
  parsed     \* of the parser: whether it is through, accepted, and what it read

parserVars == <<command, source, lines, damage, parsed>>

Rack == 0

Line(kind, key, module) == [kind |-> kind, key |-> key, said |-> <<module, key>>]

Header       == <<Line("header", "", Rack)>>
Heading(p)   == <<Line("heading", p, p)>>
Dashes       == <<Line("dashes", "", Rack)>>
State        == <<Line("state", "", Rack)>>
Confirmation == <<Line("confirmation", "", Rack)>>

Rows(keys, module) == [i \in DOMAIN keys |-> Line("row", keys[i], module)]

Fields(names, module) ==
  LET ordered == SetToSeq(names)
  IN  [i \in DOMAIN ordered |-> Line("field", ordered[i], module)]

Cells(p) == 0..CellCount[p] - 1

(***************************************************************************)
(* EXTERNAL.  The answers of the console; a module may leave out what is   *)
(* optional.                                                               *)
(***************************************************************************)
Answer(name, module, optional) ==
  CASE name = "pwr"    -> Header \o Rows(SetToSeq(Positions), Rack) \o Confirmation
    [] name = "bat"    -> Header \o Rows([i \in 1..CellCount[module] |-> i - 1], module)
                            \o Confirmation
    [] name = "info"   -> Fields(Required \cup optional, module) \o Confirmation
    [] name = "detail" -> Dashes \o Heading(module)
                            \o Fields(Required \cup optional, module)
                            \o Dashes \o Confirmation
    [] name = "pwrsys" -> Heading(Rack) \o Dashes \o State
                            \o Fields(Required, Rack) \o Confirmation

(***************************************************************************)
(* The parsers.                                                            *)
(***************************************************************************)
Pending == [done |-> FALSE, accepted |-> FALSE, values |-> <<>>]
Refused == [done |-> TRUE, accepted |-> FALSE, values |-> <<>>]

Accepted(values) == [done |-> TRUE, accepted |-> TRUE, values |-> values]

\* Line i is the only one of its kind.
OnlyAt(s, kind, i) == \A j \in DOMAIN s : s[j].kind = kind <=> j = i

\* payload_lines: one confirmation, as the last line.
Confirmed(s) == s # <<>> /\ OnlyAt(s, "confirmation", Len(s))

\* The lines that have the data: those between header and confirmation of a
\* table, and those of no skipped kind otherwise.
TableRows(s) == 2..Len(s) - 1

Without(s, kinds) == {i \in 1..Len(s) - 1 : s[i].kind \notin kinds}

AllOf(s, I, kind) == \A i \in I : s[i].kind = kind

Keys(s, I) == {s[i].key : i \in I}

\* Mutation of Distinct: of two lines for one key the last one counts.
LastWins(s, I) == I \subseteq DOMAIN s

Distinct(s, I) == \A i, j \in I : s[i].key = s[j].key => i = j

\* What the lines say, by key.
ByKey(s, I) ==
  [k \in Keys(s, I) |->
     s[CHOOSE i \in I : s[i].key = k /\ \A j \in I : s[j].key = k => j <= i].said]

\* A table: the header and then nothing but rows.
IsTable(s) ==
  /\ Confirmed(s)
  /\ Len(s) > 2
  /\ s[1].kind = "header"
  /\ AllOf(s, TableRows(s), "row")

\* parse_pwr: a position whose row is lost is one it says nothing of.
ParsePwr(s) ==
  IF IsTable(s) /\ Distinct(s, TableRows(s))
  THEN Accepted(ByKey(s, TableRows(s))) ELSE Refused

\* parse_bat: the indices from 0 on in order; then validate_cell_count.
ParseBat(s, position) ==
  IF /\ IsTable(s)
     /\ \A i \in TableRows(s) : s[i].key = i - 2
     /\ Len(s) - 2 = CellCount[position]
  THEN Accepted(ByKey(s, TableRows(s))) ELSE Refused

FieldsOk(s, I) == AllOf(s, I, "field") /\ Distinct(s, I) /\ Required \subseteq Keys(s, I)

\* parse_info: the field `Device address' has to be the position asked for.
ParseInfo(s, position) ==
  LET fields == Without(s, {})
  IN  IF Confirmed(s) /\ FieldsOk(s, fields) /\ ByKey(s, fields)["address"][1] = position
      THEN Accepted(ByKey(s, fields)) ELSE Refused

\* Mutation of Skipped: lines of dashes are taken for data.
SkippedHeadings == {"heading"}

Skipped == {"heading", "dashes"}

\* parse_pwr_detail: the position is in the heading.
ParseDetail(s, position) ==
  LET fields == Without(s, Skipped)
  IN  IF /\ Confirmed(s)
         /\ \E i \in DOMAIN s : OnlyAt(s, "heading", i) /\ s[i].key = position
         /\ FieldsOk(s, fields)
      THEN Accepted(ByKey(s, fields)) ELSE Refused

ParsePwrsys(s) ==
  LET fields == Without(s, Skipped \cup {"state"})
  IN  IF /\ Confirmed(s)
         /\ \E i \in DOMAIN s : OnlyAt(s, "state", i)
         /\ FieldsOk(s, fields)
      THEN Accepted(ByKey(s, fields)) ELSE Refused

\* ReadOnlyPylontechClient: the parser for each command.
Parse(s, name, position) ==
  CASE name = "pwr"    -> ParsePwr(s)
    [] name = "bat"    -> ParseBat(s, position)
    [] name = "info"   -> ParseInfo(s, position)
    [] name = "detail" -> ParseDetail(s, position)
    [] name = "pwrsys" -> ParsePwrsys(s)

(***************************************************************************)
(* One command and the way of its answer.                                  *)
(***************************************************************************)
Commands ==
  [name: {"pwr", "pwrsys"}, position: {Rack}]
    \cup [name: {"bat", "info", "detail"}, position: Positions]

\* The answer is of the module asked, or was meant for another request.
ParserInit ==
  /\ command \in Commands
  /\ source \in IF command.position = Rack THEN {Rack} ELSE Positions
  /\ \E optional \in SUBSET Optional :
       lines = Answer(command.name, source, optional)
  /\ damage = 0
  /\ parsed = Pending

Damaged(s) ==
  /\ ~parsed.done
  /\ damage < MaxDamage
  /\ damage' = damage + 1
  /\ lines' = s
  /\ UNCHANGED <<command, source, parsed>>

Lost == \E i \in DOMAIN lines : Damaged(RemoveAt(lines, i))

Repeated == \E i \in DOMAIN lines : Damaged(InsertAt(lines, i, lines[i]))

Exchanged ==
  \E i \in 1..Len(lines) - 1 :
    Damaged([lines EXCEPT ![i] = lines[i + 1], ![i + 1] = lines[i]])

Garbled == \E i \in DOMAIN lines : Damaged([lines EXCEPT ![i].kind = "garbled"])

KeysLike(line) ==
  CASE line.kind = "field"                     -> Required \cup Optional
    [] line.kind = "row" /\ source = Rack      -> Positions
    [] line.kind = "row" /\ source \in Positions -> Cells(source)
    [] OTHER                                   -> {}

\* A row or field arrives under the key of another.
Misread ==
  \E i \in DOMAIN lines :
    \E k \in KeysLike(lines[i]) \ {lines[i].key} :
      Damaged([lines EXCEPT ![i].key = k])

Parses ==
  /\ ~parsed.done
  /\ parsed' = Parse(lines, command.name, command.position)
  /\ UNCHANGED <<command, source, lines, damage>>

Parsed == parsed.done /\ UNCHANGED parserVars

ParserNext == Lost \/ Repeated \/ Exchanged \/ Garbled \/ Misread \/ Parses \/ Parsed

ParserSpec == ParserInit /\ [][ParserNext]_parserVars

(***************************************************************************)
(* Properties.                                                             *)
(***************************************************************************)
IsOneModules == command.name \in {"info", "detail"}

Says(keys) ==
  \A k \in keys : k \in DOMAIN parsed.values /\ parsed.values[k] = <<source, k>>

\* What a parser accepts of a damaged answer is what the module said.  `info'
\* and `pwr <n>' are of the module asked and, like `pwrsys', have everything
\* the program requires, and in its place if no more than one thing was damaged (two
\* fields that swap their names cannot be told).  `bat' has all cells, in
\* their places, whatever two things were damaged; it does not name the module, so
\* that it is the right one is left to the session.  `pwr' may lack
\* positions, and a row under a wrong one shows as long as none is lost.
DamageIsNoticed ==
  parsed.accepted =>
    /\ IsOneModules => source = command.position
    /\ IsOneModules \/ command.name = "pwrsys" =>
         Required \subseteq DOMAIN parsed.values /\ (damage <= 1 => Says(Required))
    /\ command.name = "bat" /\ source = command.position /\ damage <= 2 =>
         DOMAIN parsed.values = Cells(source) /\ Says(Cells(source))
    /\ command.name = "pwr" /\ damage <= 1 => Says(DOMAIN parsed.values)

\* What arrives as the module asked has sent it is accepted, whichever of the
\* optional fields it has.
IntactIsAccepted ==
  parsed.done /\ damage = 0 /\ source = command.position =>
    parsed.accepted /\ Says({lines[i].key : i \in {j \in DOMAIN lines : lines[j].kind \in {"row", "field"}}})
=============================================================================
