---------------------------- MODULE ValuePreflight ----------------------------
(***************************************************************************)
(* What query-builder.ts makes of the values of a request before a query   *)
(* runs, so that a client's mistake is answered with 400 and not with the  *)
(* 500 of a data exception: filters, keys of items and fields of bodies.   *)
(***************************************************************************)
EXTENDS PostgresInput

\* baseScalarType
NoScalar == "array"
BaseScalarType(type) == IF type.array THEN NoScalar ELSE type.base

TextLikeBaseTypes == {"text", "character varying", "character", "citext", "name"}
IsTextLikeType(type) == BaseScalarType(type) \in TextLikeBaseTypes
IsBooleanType(type) == BaseScalarType(type) = "boolean"

FloatTypes == {"real", "double precision"}
DecimalBaseTypes == FloatTypes \cup {"numeric"}

\* INTEGER_BOUNDS
IntegerBounds(base) == LET half == 2^(IntegerBits[base] - 1) IN <<-half, half - 1>>

-----------------------------------------------------------------------------
(* Decimals. *)

\* bigIntDigits
BigIntDigits(n) == CHOOSE k \in 1..10 : n < 10^k /\ (k = 1 \/ n >= 10^(k - 1))

\* Mutant: dropped digits are cut off, not rounded.
FitsCutOff(v, precision, scale) ==
    LET j == v.exp + scale
    IN v.mantissa = 0 \/ BigIntDigits(v.mantissa) + j <= precision

\* numericFitsTypmod: no power is computed but of a number of digits dropped.
NumericFitsTypmod(v, precision, scale) ==
    LET digits == BigIntDigits(v.mantissa)
        j == v.exp + scale
        r == LET pow == 10^(-j)
             IN (v.mantissa \div pow) + (IF (v.mantissa % pow) * 2 >= pow THEN 1 ELSE 0)
    IN \/ v.mantissa = 0
       \/ j >= 0 /\ digits + j <= precision
       \/ j < 0 /\ (-j > digits \/ BigIntDigits(r) <= precision)

\* aboveFloat32Underflow: more than half of the least value.  The comparison of
\* lengths comes first and bounds the powers.
AboveFloat32Underflow(v, f) ==
    LET half == f.tiny + 1
    IN /\ v.mantissa # 0
       /\ \/ v.exp >= 0
          \/ /\ -v.exp < BigIntDigits(v.mantissa) + BigIntDigits(2^half)
             /\ v.mantissa * 2^half > 10^(-v.exp)

\* belowFloat32Overflow: less than the middle between the largest value and the
\* power of two above.
BelowFloat32Overflow(v, f) ==
    LET threshold == (f.huge + f.next) \div 2
        length == BigIntDigits(threshold)
        digits == BigIntDigits(v.mantissa) + v.exp
    IN \/ v.mantissa = 0
       \/ digits < length
       \/ /\ digits = length
          /\ IF v.exp >= 0 THEN v.mantissa * 10^v.exp < threshold
             ELSE v.mantissa < threshold * 10^(-v.exp)

\* floatFits; Number() of JavaScript rounds as double precision does.
FloatFits(base, v) ==
    LET f == FloatFormat[base]
    IN IF base = "real"
       THEN v.mantissa = 0 \/ (AboveFloat32Underflow(v, f) /\ BelowFloat32Overflow(v, f))
       ELSE FloatRounds(f, v)

\* decimalFitsRange, with numericTypmod: a scale that is not given is 0.
DecimalFitsRange(type, v) ==
    IF type.base \in FloatTypes THEN FloatFits(type.base, v)
    ELSE type.mods # <<>> =>
           NumericFitsTypmod(v, type.mods[1], IF Len(type.mods) > 1 THEN type.mods[2] ELSE 0)

-----------------------------------------------------------------------------
(* Values. *)

BooleanLiterals == TrueFalse
\* The words "0" and "1" among the literals are plain decimals here.
IsBooleanLiteral(v) ==
    \/ v.word \in BooleanLiterals
    \/ v.form = "decimal" /\ v.plain /\ v.tidy /\ ~v.neg /\ v.mantissa \in {0, 1}

IsPreflightableScalar(base) ==
    base \in DOMAIN IntegerBits \cup DecimalBaseTypes \cup {"boolean", "uuid"}

\* valueFitsType
ValueFitsType(type, v) ==
    LET base == type.base
    IN CASE base \in DOMAIN IntegerBits ->
              /\ v.form = "decimal" /\ v.plain
              /\ LET n == IF v.neg THEN -v.mantissa ELSE v.mantissa
                 IN IntegerBounds(base)[1] <= n /\ n <= IntegerBounds(base)[2]
         [] base \in DecimalBaseTypes ->
              \/ v.word = "nan"
              \/ v.word \in Infinite /\ (base = "numeric" => type.mods = <<>>)
              \/ v.form = "decimal" /\ DecimalFitsRange(type, v)
         [] base = "boolean" -> IsBooleanLiteral(v)
         [] base = "uuid" -> v.form = "uuid" /\ v.mantissa = 32

\* Mutant: the values of a CHECK taken for all that a filter may ask for.
AcceptsListed(column, v) ==
    /\ IsPreflightableScalar(BaseScalarType(column.type)) => ValueFitsType(column.type, v)
    /\ column.enumValues # <<>> => v.word \in Range(column.enumValues)

\* assertScalarValueParsable: a checked scalar by its form, whatever a CHECK
\* lists; else the labels of an enumerated type; else anything.
AcceptsValue(column, v) ==
    LET base == BaseScalarType(column.type)
    IN CASE base = NoScalar -> TRUE
         [] IsPreflightableScalar(base) -> ValueFitsType(column.type, v)
         [] OTHER -> column.nativeEnum => v.word \in Range(column.enumValues)

\* A filter of one operator: assertFilterTypeCompatible, assertFilterValueParsable.
AcceptsFilter(column, op, v) ==
    /\ op = "like" => IsTextLikeType(column.type)
    /\ op = "is true" => IsBooleanType(column.type)
    /\ op \notin {"is null", "is true"} => AcceptsValue(column, v)

\* Where a value may stand: a filter's operators, an item's key
\* (assertKeyValuesParsable) and a field of a body (assertWriteValuesParsable).
Uses == {"eq", "like", "is null", "is true", "key", "body"}
Accepts(column, use, v) ==
    IF use \in {"key", "body"} THEN AcceptsValue(column, v) ELSE AcceptsFilter(column, use, v)
=============================================================================
