----------------------------- MODULE CsvReader -----------------------------
(***************************************************************************)
(* The reader of the game's data files (tools/csv.hpp), as                 *)
(* eorzean_weather_data.cpp uses it: a CSVReader of a stringstream with    *)
(* the default format, whose rows are visited in a range-for.              *)
(*                                                                         *)
(* The files are far below ITERATION_CHUNK_SIZE (10 MB), so the worker     *)
(* that initial_read starts and joins parses the whole text, and every row *)
(* is in records before the first is asked for: the second worker, the     *)
(* condition variable and MmapParser never come into play.                 *)
(* A character is a string; the three of the byte order mark are one.      *)
(***************************************************************************)
EXTENDS Integers, Sequences, SequencesExt

CONSTANTS
    Tables,     \* sequences of rows of fields; the first row is the header
    Styles,     \* [quotes, eol, last, bom]: which fields are quoted, the end of a line,
                \* whether the last line has one, whether there is a mark
    Capacity,   \* fields of a block of CSVFieldList
    IntMax      \* stands for INT_MAX

ASSUME CapacityAssumption == Capacity \in Nat \ {0}

Quote == "\""
Mark == "bom"
Uninitialized == -1   \* UNINITIALIZED_FIELD

VARIABLES
    written, style, in,   \* the text, and what it was written from
    reading,            \* "parse", "begin", "iterate", "end"
    data_pos, quote_escape,
    field,              \* field_start, field_length, field_has_double_quote
    buffers,            \* the blocks of CSVFieldList
    current_row, records, n_cols,
    given               \* history: the rows the range-for was given

parse_state == <<data_pos, quote_escape, field, buffers, current_row>>
source == <<written, style, in>>
csvVars == <<source, reading, parse_state, records, n_cols, given>>

-----------------------------------------------------------------------------
\* Who exports the files writes a field in quotes and doubles its own, always or when it
\* must; one that writes them "bare" leaves out what can be guessed.
Special(f) == \E i \in DOMAIN f : f[i] \in {Quote, ",", "\r", "\n"}
Guessed(f) == \A i \in DOMAIN f : f[i] = Quote =>
                  i < Len(f) /\ ~Special(<<f[i + 1]>>)
Quoted(f, doubled) == <<Quote>> \o
    FlattenSeq([i \in DOMAIN f |->
                  IF f[i] = Quote /\ doubled THEN <<Quote, Quote>> ELSE <<f[i]>>])
    \o <<Quote>>
Cell(f, quotes) ==
    IF quotes = "bare" /\ Guessed(f)
      THEN IF f # <<>> /\ f[1] # Quote /\ ~Special(SelectSeq(f, LAMBDA c : c # Quote))
             THEN f ELSE Quoted(f, FALSE)
    ELSE IF quotes = "always" \/ Special(f) THEN Quoted(f, TRUE) ELSE f
Joined(parts, sep) ==
    FlattenSeq([i \in DOMAIN parts |-> IF i = 1 THEN parts[i] ELSE sep \o parts[i]])
Line(r, s) == Joined([i \in DOMAIN r |-> Cell(r[i], s.quotes)], <<",">>)
Written(t, s) ==
    (IF s.bom THEN <<Mark>> ELSE <<>>)
    \o Joined([i \in DOMAIN t |-> Line(t[i], s)], s.eol)
    \o (IF s.last THEN s.eol ELSE <<>>)

\* A text is a sequence of characters, the mark one of them.
ASSUME TextAssumption == \A t \in Tables, s \in Styles :
    Written(t, s) \in Seq(STRING) /\ (s.bom => Written(t, s) # <<>>)

-----------------------------------------------------------------------------
(***************************************************************************)
(* CSVFieldList: blocks that stay where they are                           *)
(***************************************************************************)
emplace_back(f) ==
    IF Len(Last(buffers)) = Capacity THEN Append(buffers, <<f>>)
    ELSE [buffers EXCEPT ![Len(buffers)] = Append(@, f)]

FieldCount(b) == Len(Last(b)) + (Len(b) - 1) * Capacity
Field(n) == buffers[n \div Capacity + 1][(n % Capacity) + 1]

-----------------------------------------------------------------------------
(***************************************************************************)
(* IBasicCSVParser                                                         *)
(***************************************************************************)
NoField == [start |-> Uninitialized, length |-> 0, has_double_quote |-> FALSE]
RowAt(pos, n) == [data_start |-> pos, fields_start |-> n, row_length |-> 0]

\* make_parse_flags for ',' and '"'
parse_flag(c) ==
    IF c = "," THEN "DELIMITER" ELSE IF c \in {"\r", "\n"} THEN "NEWLINE"
    ELSE IF c = Quote THEN "QUOTE" ELSE "NOT_SPECIAL"

\* quote_escape_flag: between quotes only a quote is special.
compound_parse_flag(c) ==
    IF ~quote_escape THEN parse_flag(c)
    ELSE IF parse_flag(c) = "QUOTE" THEN "QUOTE_ESCAPE_QUOTE" ELSE "NOT_SPECIAL"

\* Positions count from 0.
At(pos) == in[pos + 1]
Within(pos) == pos < Len(in)
Parsing(flag) ==
    reading = "parse" /\ Within(data_pos) /\ compound_parse_flag(At(data_pos)) = flag

PushedField == emplace_back([field EXCEPT !.start = IF @ = Uninitialized THEN 0 ELSE @])
PushedRow(b) ==
    Append(records, [current_row EXCEPT
                       !.row_length = FieldCount(b) - current_row.fields_start])

Delimiter ==
    /\ Parsing("DELIMITER")
    /\ buffers' = PushedField /\ field' = NoField
    /\ current_row' = [current_row EXCEPT !.row_length = @ + 1]
    /\ data_pos' = data_pos + 1
    /\ UNCHANGED <<source, reading, quote_escape, records, n_cols, given>>

\* Of two line ends in a row the second is skipped (CRLF, or a blank line).
Newline ==
    /\ Parsing("NEWLINE")
    /\ data_pos' = IF Within(data_pos + 1) /\ parse_flag(At(data_pos + 1)) = "NEWLINE"
                   THEN data_pos + 2 ELSE data_pos + 1
    /\ buffers' = PushedField /\ field' = NoField
    /\ records' = PushedRow(buffers')
    /\ current_row' = RowAt(data_pos', FieldCount(buffers'))
    /\ UNCHANGED <<source, reading, quote_escape, n_cols, given>>

\* Mutant: the length of a field is counted from the beginning of its row.
NotSpecial_FromRow ==
    /\ Parsing("NOT_SPECIAL")
    /\ LET start == IF field.start = Uninitialized
                      THEN data_pos - current_row.data_start ELSE field.start
       IN  /\ data_pos' = CHOOSE p \in data_pos + 1 .. Len(in) :
                  /\ Within(p) => compound_parse_flag(At(p)) # "NOT_SPECIAL"
                  /\ \A q \in data_pos .. p - 1 :
                        compound_parse_flag(At(q)) = "NOT_SPECIAL"
           /\ field' = [field EXCEPT !.start = start,
                            !.length = data_pos' - current_row.data_start]
    /\ UNCHANGED <<source, reading, quote_escape, buffers, current_row>>
    /\ UNCHANGED <<records, n_cols, given>>

\* parse_field: to the next special character.  No character is trimmed by default.
NotSpecial ==
    /\ Parsing("NOT_SPECIAL")
    /\ LET start == IF field.start = Uninitialized
                      THEN data_pos - current_row.data_start ELSE field.start
       IN  /\ data_pos' = CHOOSE p \in data_pos + 1 .. Len(in) :
                  /\ Within(p) => compound_parse_flag(At(p)) # "NOT_SPECIAL"
                  /\ \A q \in data_pos .. p - 1 :
                        compound_parse_flag(At(q)) = "NOT_SPECIAL"
           /\ field' = [field EXCEPT !.start = start,
                            !.length = data_pos' - (start + current_row.data_start)]
    /\ UNCHANGED <<source, reading, quote_escape, buffers, current_row>>
    /\ UNCHANGED <<records, n_cols, given>>

\* Mutant: a doubled quote counts for one character of the field.
QuoteEscapeQuote_CountsOne ==
    /\ Parsing("QUOTE_ESCAPE_QUOTE") /\ Within(data_pos + 1)
    /\ LET next == parse_flag(At(data_pos + 1))
       IN  \/ /\ next \in {"DELIMITER", "NEWLINE"} /\ quote_escape' = FALSE
              /\ data_pos' = data_pos + 1 /\ UNCHANGED field
           \/ /\ next = "QUOTE" /\ data_pos' = data_pos + 2
              /\ field' = [field EXCEPT !.length = @ + 1, !.has_double_quote = TRUE]
              /\ UNCHANGED quote_escape
    /\ UNCHANGED <<source, reading, buffers, current_row, records, n_cols, given>>

\* A quote between quotes ends the field, or is the first of two that stand for one, or
\* is kept.  As the last character it ends the parse.
QuoteEscapeQuote ==
    /\ Parsing("QUOTE_ESCAPE_QUOTE") /\ Within(data_pos + 1)
    /\ LET next == parse_flag(At(data_pos + 1))
       IN  \/ /\ next \in {"DELIMITER", "NEWLINE"} /\ quote_escape' = FALSE
              /\ data_pos' = data_pos + 1 /\ UNCHANGED field
           \/ /\ next = "QUOTE" /\ data_pos' = data_pos + 2
              /\ field' = [field EXCEPT !.length = @ + 2, !.has_double_quote = TRUE]
              /\ UNCHANGED quote_escape
           \/ /\ next = "NOT_SPECIAL" /\ data_pos' = data_pos + 1
              /\ field' = [field EXCEPT !.length = @ + 1] /\ UNCHANGED quote_escape
    /\ UNCHANGED <<source, reading, buffers, current_row, records, n_cols, given>>

\* A quote outside quotes opens a field, or is kept within one.
OpeningQuote ==
    /\ Parsing("QUOTE") /\ data_pos' = data_pos + 1
    /\ \/ /\ field.length = 0 /\ quote_escape' = TRUE
          /\ field' = IF field.start = Uninitialized /\ Within(data_pos')
                        THEN [field EXCEPT !.start = data_pos' - current_row.data_start]
                        ELSE field
       \/ /\ field.length > 0 /\ field' = [field EXCEPT !.length = @ + 1]
          /\ UNCHANGED quote_escape
    /\ UNCHANGED <<source, reading, buffers, current_row, records, n_cols, given>>

\* The parse is over: end_feed pushes what is left, and trim_header takes the first row
\* for the names of the columns.
EndFeed ==
    /\ reading = "parse" /\ reading' = "begin"
    /\ \/ ~Within(data_pos)
       \/ Parsing("QUOTE_ESCAPE_QUOTE") /\ ~Within(data_pos + 1)
    /\ LET pushes == field.length > 0 \/ (in # <<>> /\ parse_flag(Last(in)) = "DELIMITER")
           length == current_row.row_length + (IF pushes THEN 1 ELSE 0)
           rows == IF length > 0 THEN PushedRow(buffers') ELSE records
       IN  /\ buffers' = IF pushes THEN PushedField ELSE buffers
           /\ field' = IF pushes THEN NoField ELSE field
           /\ current_row' = [current_row EXCEPT !.row_length = length]
           /\ records' = IF rows = <<>> THEN rows ELSE Tail(rows)
           /\ n_cols' = IF rows = <<>> THEN 0 ELSE Head(rows).row_length
    /\ UNCHANGED <<source, data_pos, quote_escape, given>>

-----------------------------------------------------------------------------
(***************************************************************************)
(* What the range-for sees                                                 *)
(***************************************************************************)
\* get_field: of two quotes the second is dropped.
Unescaped(text) ==
    FoldLeft(LAMBDA got, c :
                 IF c = Quote /\ got.prev_ch_quote
                   THEN [got EXCEPT !.prev_ch_quote = FALSE]
                 ELSE [value |-> Append(got.value, c),
                       prev_ch_quote |-> got.prev_ch_quote \/ c = Quote],
             [value |-> <<>>, prev_ch_quote |-> FALSE], text).value

get_field(r, i) ==
    LET f == Field(r.fields_start + i - 1)
        text == SubSeq(in, r.data_start + f.start + 1, r.data_start + f.start + f.length)
    IN  IF f.has_double_quote THEN Unescaped(text) ELSE text

Digits == <<"0", "1", "2", "3", "4", "5", "6", "7", "8", "9">>
IsDigit(c) == \E d \in DOMAIN Digits : Digits[d] = c
DigitOf(c) == CHOOSE d \in 0 .. 9 : Digits[d + 1] = c
NoInt == "throws"

\* data_type, one character at a time.  "bad" is CSV_STRING; a number with an exponent,
\* which is a CSV_DOUBLE at best, is bad as well: get<int> throws for both.
ScanStart == [ws |-> TRUE, neg |-> TRUE, dot |-> TRUE, digit |-> TRUE, seen |-> FALSE,
              prob_float |-> FALSE, last |-> " ", value |-> 0, bad |-> FALSE]

Scan(s, c) ==
    LET t == [s EXCEPT !.last = c]
        bad == [t EXCEPT !.bad = TRUE]
    IN  IF s.bad THEN s
        ELSE IF c = " " THEN
               IF s.ws THEN t
               ELSE IF IsDigit(s.last)
                 THEN [t EXCEPT !.digit = FALSE, !.ws = TRUE] ELSE bad
        ELSE IF c = "-" THEN IF s.neg THEN [t EXCEPT !.neg = FALSE] ELSE bad
        ELSE IF c = "." THEN
               IF s.dot THEN [t EXCEPT !.dot = FALSE, !.prob_float = TRUE] ELSE bad
        ELSE IF IsDigit(c) /\ s.digit THEN
               [t EXCEPT !.seen = TRUE, !.ws = FALSE,
                         !.value = IF s.prob_float THEN @ ELSE 10 * @ + DigitOf(c)]
        ELSE bad

\* CSVField::get<int>: the sign is that of a minus anywhere.
get_int(text) ==
    LET s == FoldLeft(Scan, ScanStart, text)
    IN  IF s.bad \/ ~s.seen \/ s.prob_float \/ s.value > IntMax THEN NoInt
        ELSE IF s.neg THEN s.value ELSE -s.value

Give(r) ==
    given' = Append(given, [i \in 1 .. r.row_length |->
                [text |-> get_field(r, i), int |-> get_int(get_field(r, i))]])

\* begin() gives the first row whatever its length ...
FirstRow ==
    /\ reading = "begin"
    /\ \/ records = <<>> /\ reading' = "end" /\ UNCHANGED <<records, given>>
       \/ /\ records # <<>> /\ reading' = "iterate"
          /\ Give(Head(records)) /\ records' = Tail(records)
    /\ UNCHANGED <<source, parse_state, n_cols>>

\* ... and read_row drops a row that is not as long as the header.
ReadRow ==
    /\ reading = "iterate"
    /\ \/ records = <<>> /\ reading' = "end" /\ UNCHANGED <<records, given>>
       \/ /\ records # <<>> /\ records' = Tail(records)
          /\ IF Head(records).row_length = n_cols THEN Give(Head(records))
                                                  ELSE UNCHANGED given
          /\ UNCHANGED reading
    /\ UNCHANGED <<source, parse_state, n_cols>>

\* trim_utf8_bom leaves the mark out of the first field.
CsvInit ==
    /\ written \in Tables /\ style \in Styles /\ in = Written(written, style)
    /\ reading = "parse" /\ data_pos = IF style.bom THEN 1 ELSE 0
    /\ quote_escape = FALSE /\ field = NoField /\ buffers = <<<<>>>>
    /\ current_row = RowAt(0, 0) /\ records = <<>> /\ n_cols = 0 /\ given = <<>>

CsvNext ==
    \/ Delimiter \/ Newline \/ NotSpecial \/ QuoteEscapeQuote \/ OpeningQuote
    \/ EndFeed \/ FirstRow \/ ReadRow

CsvSpec == CsvInit /\ [][CsvNext]_csvVars

-----------------------------------------------------------------------------
(***************************************************************************)
(* Properties                                                              *)
(***************************************************************************)
\* The text of the i-th field of a row: its first position, and the one behind its last
First(r, i) == r.data_start + Field(r.fields_start + i - 1).start
Past(r, i) == First(r, i) + Field(r.fields_start + i - 1).length

\* get_field cuts every field out of the text, beyond neither end of it, and no character
\* is in two fields, of one row or of two (parse, push_field, push_row).
FieldsApart ==
    \A n \in DOMAIN records : \A i \in 1 .. records[n].row_length :
        /\ 0 <= First(records[n], i) /\ Past(records[n], i) <= Len(in)
        /\ \A m \in 1 .. n : \A j \in 1 .. records[m].row_length :
             \/ m = n /\ i <= j
             \/ Past(records[m], j) <= First(records[n], i)
             \/ First(records[m], j) = Past(records[m], j)
             \/ First(records[n], i) = Past(records[n], i)

\* The fields of a row are in the list, right behind those of the row before (push_row).
RowsAdjoin ==
    \A n \in DOMAIN records :
        LET r == records[n]
        IN  /\ r.fields_start + r.row_length <= FieldCount(buffers)
            /\ n > 1 => r.fields_start = records[n - 1].fields_start + records[n - 1].row_length

\* A number as it is written: a minus right in front of its digits, spaces around.
ReadableInt(f) == \A i \in DOMAIN f : f[i] = "-" =>
    /\ i < Len(f) /\ IsDigit(f[i + 1])
    /\ \A j \in 1 .. i - 1 : ~IsDigit(f[j])
IsInt(f) == \E i, j \in DOMAIN f :
    /\ \A k \in DOMAIN f : k < i \/ k > j => f[k] = " "
    /\ IsDigit(f[j]) /\ (f[i] = "-" \/ IsDigit(f[i]))
    /\ \A k \in i + 1 .. j : IsDigit(f[k])
IntOf(f) ==
    LET n == FoldLeft(LAMBDA v, c : IF IsDigit(c) THEN 10 * v + DigitOf(c) ELSE v, 0, f)
    IN  IF ~IsInt(f) \/ n > IntMax THEN NoInt ELSE IF Contains(f, "-") THEN -n ELSE n

\* The rows behind the header, those of another length left out but for the first.
Expected ==
    LET rows == Tail(written)
    IN  IF Len(written) < 2 THEN <<>>
        ELSE <<Head(rows)>> \o SelectSeq(Tail(rows), LAMBDA r : Len(r) = Len(written[1]))

\* At its end the text loses a last field that is empty and in quotes.
LosesField ==
    written # <<>> /\ ~style.last /\ Last(Last(written)) = <<>> /\ Last(in) = Quote

\* The range-for is given the fields that were written, however they were quoted and the
\* lines were ended, in their order, and get<int> throws or returns the number written
\* (parse, end_feed, get_field, read_row, data_type).
ReadsAsWritten ==
    reading = "end" /\ ~LosesField =>
        /\ Len(given) = Len(Expected)
        /\ \A i \in DOMAIN given :
             /\ [k \in DOMAIN given[i] |-> given[i][k].text] = Expected[i]
             /\ \A k \in DOMAIN given[i] :
                  ReadableInt(given[i][k].text) => given[i][k].int = IntOf(given[i][k].text)
=============================================================================
