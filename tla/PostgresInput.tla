---------------------------- MODULE PostgresInput ----------------------------
(***************************************************************************)
(* What PostgreSQL takes as the text of a value of a type: the judgement   *)
(* that the REST API anticipates (ValuePreflight).  External code.         *)
(*                                                                         *)
(* A type is what format_type prints, taken apart: [base, array, mods],    *)
(* with mods <<>>, <<precision>> or <<precision, scale>>.  A value is      *)
(*   form   "decimal": mantissa * 10^exp, written without a point or an    *)
(*          exponent if plain; "respelled": a hexadecimal or underscored   *)
(*          integer; "uuid": mantissa hex digits; "word": anything else    *)
(*   tidy   nothing in it that only some readers take (hyphens of a uuid   *)
(*          in odd places)                                                 *)
(* The widths of the numeric types are parameters, which the runs choose   *)
(* smaller than PostgreSQL's: the arithmetic is the same.                  *)
(***************************************************************************)
EXTENDS Catalog

CONSTANTS IntegerBits,   \* integer type -> its width
          FloatFormat    \* float type -> [tiny, huge, next]: 2^-tiny is its least
                         \* value, huge its largest and next the power of two above
ASSUME WidthsAssumption ==
    /\ \A type \in DOMAIN IntegerBits : IntegerBits[type] \in Nat \ {0}
    /\ \A type \in DOMAIN FloatFormat :
          LET f == FloatFormat[type] IN {f.tiny, f.huge, f.next} \subseteq Nat /\ f.huge < f.next

Infinite == {"inf", "-inf", "infinity"}
TrueFalse == {"true", "t", "yes", "on", "false", "f", "no", "off"}
\* parse_bool takes any unique beginning of these words.
Abbreviations == {"tr", "of"}

Up(e) == IF e >= 0 THEN 10^e ELSE 1
Down(e) == IF e < 0 THEN 10^(-e) ELSE 1

IntegerTakes(bits, v) ==
    LET n == IF v.neg THEN -v.mantissa ELSE v.mantissa
    IN v.form = "decimal" /\ v.plain /\ -(2^(bits - 1)) <= n /\ n <= 2^(bits - 1) - 1

\* Rounded to the nearest, ties to even, and refused if that is infinity, or
\* zero for a value that is not.
FloatRounds(f, v) ==
    \/ v.mantissa = 0
    \/ /\ 2 * v.mantissa * Up(v.exp) * 2^f.tiny > Down(v.exp)
       /\ 2 * v.mantissa * Up(v.exp) < (f.huge + f.next) * Down(v.exp)
FloatTakes(f, v) ==
    (v.form = "decimal" /\ FloatRounds(f, v)) \/ v.word \in Infinite \cup {"nan"}

\* numeric(p, s): rounded to s places, half away from zero, and refused from
\* 10^(p - s) on.
Rounded(v, scale) ==
    LET j == v.exp + scale
    IN (2 * v.mantissa * Up(j) + Down(j)) \div (2 * Down(j))
NumericTakes(mods, v) ==
    IF mods = <<>> THEN v.form = "decimal" \/ v.word \in Infinite \cup {"nan"}
    ELSE \/ v.word = "nan"
         \/ /\ v.form = "decimal"
            /\ Rounded(v, IF Len(mods) = 2 THEN mods[2] ELSE 0) < 10^mods[1]

BooleanTakes(v) ==
    \/ v.word \in TrueFalse \cup Abbreviations
    \/ v.form = "decimal" /\ v.plain /\ v.tidy /\ ~v.neg /\ v.mantissa \in {0, 1}

\* Other types are not compared: all goes.
Takes(type, v) ==
    CASE type.base \in DOMAIN IntegerBits -> IntegerTakes(IntegerBits[type.base], v)
      [] type.base \in DOMAIN FloatFormat -> FloatTakes(FloatFormat[type.base], v)
      [] type.base = "numeric" -> NumericTakes(type.mods, v)
      [] type.base = "boolean" -> BooleanTakes(v)
      [] type.base = "uuid" -> v.form = "uuid" /\ v.tidy /\ v.mantissa = 32
      [] OTHER -> TRUE

\* The types with a LIKE operator.
TextTypes == {"text", "character varying", "character", "citext", "name"}

\* The type of a column: column.types is its declared type and, if that is a
\* DOMAIN, the types it stands for, down to one that is none.
BaseType(column) == Last(column.types)
=============================================================================
