-------------------------- MODULE MCResponseDecode ---------------------------
(* Instances of ResponseDecode.                                            *)
EXTENDS ResponseDecode

MCLower == [n \in {"Response", "DomainList", "RecordList", "CountInfo", "Total", "Error",
                   "Code", "Name", "name", "Type", "Value", "RecordId", "DomainId",
                   "Grade", "Line"} |-> IF n = "Name" THEN "name" ELSE n]

(* Texts a cut can make of another text; "A" of "AAAA" is one.             *)
MCShorter == [s \in DOMAIN MCLower \cup {"", "@", "www", "dearl.top", "A", "AAAA", "TXT",
                                         "v1", "v2", "Free", "AuthFailure"} |->
                CASE s = ""     -> {}
                  [] s = "AAAA" -> {"A", ""}
                  [] OTHER      -> {""}]

Row(name, type, value, id) ==
    << <<"Name", name>>, <<"Line", Str("")>>, <<"Type", type>>, <<"Value", value>>,
       <<"RecordId", id>> >>

Without(row, k) == SubSeq(row, 1, k - 1) \o SubSeq(row, k + 1, Len(row))

A1   == Row(Str("@"), Str("A"), Str("v1"), Num(1))
A9   == Row(Str("@"), Str("A"), Str("v2"), Num(9))       \* above IntMax
AAAA == Row(Str("@"), Str("AAAA"), Str("v1"), Num(2))
Txt  == Row(Str("@"), Str("TXT"), Punct("null"), Num(3))
Www  == Row(Str("www"), Str("A"), Str("v2"), Num(4))

(* Rows with a member missing, of another type or in other letters.        *)
Odd == {Without(A1, k) : k \in {1, 3, 4, 5}}
       \cup {[A1 EXCEPT ![k] = <<@[1], t>>] : k \in {1, 3, 4}, t \in {Num(5), Punct("null")}}
       \cup {[A1 EXCEPT ![5] = <<"RecordId", Str("v1")>>], [A1 EXCEPT ![1] = <<"name", @[2]>>]}
       \cup {Without(Www, 3), [Www EXCEPT ![3] = <<"Type", Punct("true")>>]}

Plain == {A1, A9, AAAA, Txt, Www}

Records(shape, rows) == [api |-> "records", shape |-> shape, rows |-> rows]

RecordAnswers ==
    {Records("list", rows) : rows \in UNION {[1 .. n -> Plain] : n \in 0 .. 2}}
    \cup {Records("list", rows) : rows \in {<<p, o, AAAA>> : p \in {A1, Www}, o \in Odd}}
    \cup {Records(shape, <<>>) : shape \in {"null", "error"}}

Dom(name, id, grade) == << <<"Name", name>>, <<"DomainId", id>>, <<"Grade", grade>> >>

Dom5 == Dom(Str("dearl.top"), Num(5), Str("Free"))
Dom9 == Dom(Str("dearl.top"), Num(9), Str("Free"))

Domains(shape, rows) == [api |-> "domains", shape |-> shape, rows |-> rows]

DomainAnswers ==
    {Domains("list", rows) : rows \in UNION {{<<Dom(n, Num(4), g), d>>, <<d, Dom(n, Num(4), g)>>} :
        n \in {Str("www"), Punct("false")}, g \in {Str("Free"), Punct("null")},
        d \in {Dom5, Dom9, Without(Dom5, 1), Without(Dom5, 2), Without(Dom5, 3),
               Dom(Str("dearl.top"), Num(5), Punct("null")),
               Dom(Str("dearl.top"), Punct("true"), Str("Free"))}}}
    \cup {Domains(shape, <<>>) : shape \in {"list", "null", "error"}}

AllAnswers == RecordAnswers \cup DomainAnswers
=============================================================================
