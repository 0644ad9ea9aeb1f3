------------------------------ MODULE XfccHeader ------------------------------
(***************************************************************************)
(* The parser of the X-Forwarded-Client-Cert header a frontend passes the  *)
(* certificate of a client in (xfccParser and extractField of              *)
(* server/https/client_certificate.go), one character at a time.  Headers  *)
(* are the ones a frontend writes for a list of fields (Envoy's rules); a  *)
(* key is one letter.                                                      *)
(***************************************************************************)
EXTENDS Integers, Sequences, SequencesExt

CONSTANTS
    Keys, fieldName,   \* keys, and the one extractField looks for
    Letters,           \* characters of a value, separators and quotes among them
    MaxFields, MaxLen  \* bounds: fields of a header, characters of a value

VARIABLES
    fields,    \* the fields the frontend has written
    whole,     \* the header arrived without being cut short
    header,    \* xfccParser.header
    i, state,  \* of Next: the position, and what is expected there
    keyStr, valueStr,
    result     \* of extractField, "none" until it returns

vars == <<fields, whole, header, i, state, keyStr, valueStr, result>>

Equals == "="
Quote == "q"
Escape == "b"
Separators == {";", ","}

\* How the frontend writes a field: a value with a separator or an equals sign
\* is quoted, and a quote inside a value is escaped.
Quoted(v) == \E n \in DOMAIN v : v[n] \in Separators \cup {Equals}
Escaped(v) == FlattenSeq([n \in DOMAIN v |-> IF v[n] = Quote THEN <<Escape, Quote>> ELSE <<v[n]>>])
Field(f) ==
    <<f.key, Equals>> \o (IF Quoted(f.value) THEN <<Quote>> \o Escaped(f.value) \o <<Quote>>
                          ELSE Escaped(f.value))

\* Fields are followed by a semicolon, the next element of the list by a comma.
Written(fs) ==
    FlattenSeq([n \in DOMAIN fs |-> IF n = Len(fs) THEN Field(fs[n])
                                    ELSE Field(fs[n]) \o <<fs[n].sep>>])

Inputs == [key : Keys, value : UNION {[1..n -> Letters] : n \in 0..MaxLen}, sep : Separators]

Start == i' = 1 /\ state' = "key" /\ keyStr' = <<>> /\ valueStr' = <<>>

Init ==
    /\ fields \in UNION {[1..n -> Inputs] : n \in 0..MaxFields}
    /\ whole \in BOOLEAN
    /\ header = IF whole THEN Written(fields) ELSE SubSeq(Written(fields), 1, Len(Written(fields)) - 1)
    /\ i = 1 /\ state = "key" /\ keyStr = <<>> /\ valueStr = <<>>
    /\ result = <<"none">>

Here == header[i]
More == result = <<"none">> /\ i <= Len(header)
Advance(n) == i' = i + n /\ UNCHANGED <<fields, whole, header, result>>

KeyChar ==
    /\ More /\ state = "key"
    /\ IF Here = Equals THEN state' = "valueStart" /\ UNCHANGED keyStr
       ELSE keyStr' = Append(keyStr, Here) /\ UNCHANGED state
    /\ UNCHANGED valueStr /\ Advance(1)

\* An opening quote, or a closing one.
QuoteChar ==
    /\ More /\ Here = Quote /\ state \in {"valueStart", "quotedValue"}
    /\ state' = IF state = "valueStart" THEN "quotedValue" ELSE "value"
    /\ UNCHANGED <<keyStr, valueStr>> /\ Advance(1)

\* Variant: a separator ends a value, quoted or not.
BreaksAnywhere == i <= Len(header) /\ state # "key" /\ Here \in Separators

\* A separator outside quotes ends the value.
Breaks == i <= Len(header) /\ state \in {"valueStart", "value"} /\ Here \in Separators

\* Any other character of a value; after a backslash the next one is taken as it is.
ValueChar ==
    /\ More /\ state # "key" /\ ~Breaks
    /\ ~(Here = Quote /\ state \in {"valueStart", "quotedValue"})
    /\ state' = IF state = "valueStart" THEN "value" ELSE state
    /\ IF Here = Escape
       THEN i < Len(header) /\ valueStr' = Append(valueStr, header[i + 1]) /\ Advance(2)
       ELSE valueStr' = Append(valueStr, Here) /\ Advance(1)
    /\ UNCHANGED keyStr

\* Next returns a key and a value, at a separator or at the end of the header, and
\* extractField returns or goes on with the rest.
Returns ==
    /\ result = <<"none">>
    /\ i > Len(header) \/ Breaks
    /\ header' = SubSeq(header, i + 1, Len(header))
    /\ IF keyStr = <<>> THEN result' = <<>> /\ UNCHANGED <<i, state, keyStr, valueStr>>
       ELSE IF keyStr = <<fieldName>>
       THEN result' = valueStr /\ UNCHANGED <<i, state, keyStr, valueStr>>
       ELSE Start /\ UNCHANGED result
    /\ UNCHANGED <<fields, whole>>

\* A header that ends in a backslash counts as empty.
Dangling ==
    /\ More /\ state # "key" /\ Here = Escape /\ i = Len(header)
    /\ result' = <<>>
    /\ UNCHANGED <<fields, whole, header, i, state, keyStr, valueStr>>

Next == KeyChar \/ QuoteChar \/ ValueChar \/ Returns \/ Dangling

Spec == Init /\ [][Next]_vars /\ WF_vars(Next)

-----------------------------------------------------------------------------

\* The value of the first field with the name that is looked for.
FirstValue ==
    LET hits == {n \in DOMAIN fields : fields[n].key = fieldName} IN
    IF hits = {} THEN <<>> ELSE fields[CHOOSE n \in hits : \A m \in hits : n <= m].value

\* Whatever characters the values of a header hold, quoted or escaped as the
\* frontend does it, extractField returns the value of the first field of that
\* name unchanged.
ExtractsFirst == whole /\ result # <<"none">> => result = FirstValue
=============================================================================
