--------------------------- MODULE ResponseDecode ----------------------------
(***************************************************************************)
(* tencentcloud_decode_record_list_filter and                              *)
(* tencentcloud_decode_domain_list on an answer of DNSPod, from the text   *)
(* curl_request returned (the whole of it or, since the result of          *)
(* curl_easy_perform is not looked at, what had arrived when the transfer  *)
(* broke off) to the members of the object they fill.                      *)
(***************************************************************************)
EXTENDS CJson, SequencesExt

CONSTANTS
    Lower,         \* tolower, on the member names that occur
    ServedName,    \* domain_subname, or "@"
    domain_name,
    Word64,        \* 2^64, the modulus of uint64_t
    Answers,       \* what the service may answer, see Document
    Shorter,       \* what a text may be cut off to: text -> set of texts
    Whole          \* {TRUE}, or BOOLEAN if an answer may be cut off

(* The strings of the texts, none of which is the null pointer, and what   *)
(* an answer is made of: rows are sequences of members, each a name and a  *)
(* scalar token.  Numbers are far below 2^64: no id is what a negative int *)
(* becomes.  "CountInfo" is no other spelling of the name of a list.       *)
Strings == DOMAIN Shorter

Kinds == {"[", "]", "{", "}", ",", ":", "str", "num", "null", "true", "false", "bad", "cutesc"}

Tokens == [kind : Kinds, text : Strings \cup {Null}, num : Nat]

Scalars == {Str(s) : s \in Strings} \cup {Num(n) : n \in 0 .. Word64 - IntMax - 2}
           \cup {Punct(kind) : kind \in {"null", "true", "false"}}

Answer == {a \in [api : {"records", "domains"}, shape : {"list", "null", "error"},
                  rows : Seq(Seq(Strings \X Scalars))] : a.shape # "list" => a.rows = <<>>}

ASSUME DecodeAssumption ==
    /\ Whole \subseteq BOOLEAN
    /\ Word64 \in Nat /\ Word64 > IntMax
    /\ Null \notin Strings
    /\ {"Response", "CountInfo", "Total", "Error", "Code", "AuthFailure",
        "RecordList", "DomainList"} \subseteq Strings
    /\ \A s \in Strings : Shorter[s] \subseteq Strings
    /\ Lower["CountInfo"] \notin {Lower["RecordList"], Lower["DomainList"]}
    /\ Answers \subseteq Answer

VARIABLES
    answer, whole,   \* what the service sent, and whether all of it arrived
    list,            \* the item third of the code
    i,               \* loop variable
    record,          \* record_ipv4 and record_ipv6
    domain,          \* domain_id and domain_grade
    ret              \* "true", "false" or "crash"

decoder == <<answer, whole, list, i, record, domain, ret>>
vars == <<doc, pos, heap, strings, stack, pc, answer, whole, list, i, record, domain, ret>>

-----------------------------------------------------------------------------
(* The answer as text.  Instead of a list there may be an error, or null.  *)
Joined(parts) ==
    FlattenSeq([k \in DOMAIN parts |->
                  IF k = 1 THEN parts[k] ELSE <<Punct(",")>> \o parts[k]])

Array(parts) == <<Punct("[")>> \o Joined(parts) \o <<Punct("]")>>

Object(members) ==
    <<Punct("{")>>
    \o Joined([k \in DOMAIN members |-> <<Str(members[k][1]), Punct(":")>> \o members[k][2]])
    \o <<Punct("}")>>

ListName(api) == IF api = "domains" THEN "DomainList" ELSE "RecordList"

RowText(row) == Object([k \in DOMAIN row |-> <<row[k][1], <<row[k][2]>>>>])

Document(a) ==
    LET count == <<"CountInfo", Object(<< <<"Total", <<Num(Len(a.rows))>>>> >>)>>
        rows  == <<ListName(a.api), Array([k \in DOMAIN a.rows |-> RowText(a.rows[k])])>>
        null  == <<ListName(a.api), <<Punct("null")>>>>
        error == <<"Error", Object(<< <<"Code", <<Str("AuthFailure")>>>> >>)>>
    IN  Object(<< <<"Response", Object(CASE a.shape = "list"  -> <<count, rows>>
                                         [] a.shape = "null"  -> <<count, null>>
                                         [] a.shape = "error" -> <<error>>)>> >>)

(* What can be left of a token the text ends in.                           *)
Stump(t) ==
    CASE t.kind = "str" -> {Str(s) : s \in Shorter[t.text]} \cup {Punct("cutesc")}
      [] t.kind = "num" -> {Num(t.num \div 2)}
      [] t.kind \in {"null", "true", "false"} -> {Punct("bad")}
      [] OTHER -> {}

(* Every proper beginning of a text.                                       *)
CutTexts(text) ==
    {SubSeq(text, 1, n) : n \in 0 .. Len(text) - 1}
    \cup UNION {{Append(SubSeq(text, 1, n - 1), t) : t \in Stump(text[n])} : n \in DOMAIN text}

Texts(a, w) == IF w THEN {Document(a)} ELSE CutTexts(Document(a))

Init ==
    /\ answer \in Answers
    /\ whole \in Whole
    /\ doc \in {Append(text, Punct("end")) : text \in Texts(answer, whole)}
    /\ pos = 1
    /\ heap = <<>>
    /\ strings = 0
    /\ stack = <<>>
    /\ pc = "parse"
    /\ list = NoNode
    /\ i = 1
    /\ record = [f \in {"A", "AAAA"} |-> <<>>]
    /\ domain = [id |-> 0, grade |-> ""]
    /\ ret = "none"

-----------------------------------------------------------------------------
Get(c, name) == GetObjectItem(c, name, Lower)

Returns(value) == ret' = value /\ pc' = "done"

(* FUNC_JSON_CHECK returns at once; the tree stays allocated.              *)
CheckFails ==
    /\ Returns("false")
    /\ UNCHANGED <<heap, strings>>

(* A function of the C library is handed a null pointer.                   *)
Crash ==
    /\ Returns("crash")
    /\ UNCHANGED <<heap, strings>>

NoTree ==
    /\ pc = "no_tree"
    /\ CheckFails
    /\ UNCHANGED <<doc, pos, stack, answer, whole, list, i, record, domain>>

Release == Delete(heap, Root) /\ Returns("true")

(* The two look-ups and the test for an array.                             *)
FindList ==
    /\ pc = "tree"
    /\ LET second == Get(Root, "Response")
           third  == IF second = NoNode THEN NoNode ELSE Get(second, ListName(answer.api))
       IN  CASE third = NoNode -> CheckFails /\ UNCHANGED list
             [] third # NoNode /\ heap[third].type # "Array" -> Release /\ UNCHANGED list
             [] third # NoNode /\ heap[third].type = "Array" ->
                  list' = third /\ pc' = "loop" /\ UNCHANGED <<heap, strings, ret>>
    /\ UNCHANGED <<doc, pos, stack, answer, whole, i, record, domain>>

InLoop(api) == pc = "loop" /\ answer.api = api /\ i <= Len(Children(list))
Element == Children(list)[i]

(* Mutated form: the name is not compared.                                 *)
NamedAnyText(c, name) == heap[c].type = "String"

(* The Name of the element is a string and the one wanted.                 *)
Named(c, name) == heap[c].type = "String" /\ heap[c].valuestring = name

(* Mutated form: the type is looked at before the name is compared.        *)
RecordStepTypeFirst(item) ==
    LET name == Get(item, "Name")  type == Get(item, "Type")
        value == Get(item, "Value")  id == Get(item, "RecordId")
    IN  IF name = NoNode \/ type = NoNode THEN "fail"
        ELSE IF heap[type].valuestring = Null THEN "crash"
        ELSE IF ~Named(name, ServedName) THEN "skip"
        ELSE IF heap[type].valuestring \notin {"A", "AAAA"} THEN "skip"
        ELSE IF value = NoNode THEN "fail"
        ELSE IF heap[value].valuestring = Null THEN "crash"
        ELSE IF id = NoNode THEN "fail" ELSE "push"

(* How the body of the loop over RecordList ends, in the order in which    *)
(* the code looks at the members of an element.                            *)
RecordStep(item) ==
    LET name == Get(item, "Name")  type == Get(item, "Type")
        value == Get(item, "Value")  id == Get(item, "RecordId")
    IN  IF name = NoNode THEN "fail"
        ELSE IF ~Named(name, ServedName) THEN "skip"
        ELSE IF type = NoNode THEN "fail"
        ELSE IF heap[type].valuestring = Null THEN "crash"
        ELSE IF heap[type].valuestring \notin {"A", "AAAA"} THEN "skip"
        ELSE IF value = NoNode THEN "fail"
        ELSE IF heap[value].valuestring = Null THEN "crash"
        ELSE IF id = NoNode THEN "fail" ELSE "push"

(* Mutated form: the id goes through valueint, as DomainId does.           *)
IdOfInt(item) == heap[Get(item, "RecordId")].valueint

(* The id, from a double; ids are below 2^53, where doubles are exact.     *)
IdOf(item) == heap[Get(item, "RecordId")].valuedouble

Continue == i' = i + 1 /\ UNCHANGED <<heap, strings, pc, ret>>

DecodeRecord ==
    /\ InLoop("records")
    /\ LET step == RecordStep(Element)
       IN  /\ CASE step = "fail"  -> CheckFails /\ UNCHANGED i
                [] step = "crash" -> Crash /\ UNCHANGED i
                [] step \in {"skip", "push"} -> Continue
           /\ record' = IF step # "push" THEN record
                        ELSE [record EXCEPT ![heap[Get(Element, "Type")].valuestring] =
                                Append(@, [id    |-> IdOf(Element),
                                           value |-> heap[Get(Element, "Value")].valuestring])]
    /\ UNCHANGED <<doc, pos, stack, answer, whole, list, domain>>

(* static_cast<uint64_t> of an int.                                        *)
Uint64(n) == n % Word64

(* The body of the loop over DomainList.                                   *)
DecodeDomain ==
    /\ InLoop("domains")
    /\ LET name == Get(Element, "Name")
           id == Get(Element, "DomainId")  grade == Get(Element, "Grade")
       IN  IF name = NoNode THEN CheckFails /\ UNCHANGED <<i, domain>>
           ELSE IF ~Named(name, domain_name) THEN Continue /\ UNCHANGED domain
           ELSE IF id = NoNode THEN CheckFails /\ UNCHANGED <<i, domain>>
           ELSE LET new == Uint64(heap[id].valueint)
                IN  IF grade = NoNode
                      THEN CheckFails /\ domain' = [domain EXCEPT !.id = new] /\ UNCHANGED i
                    ELSE IF heap[grade].valuestring = Null
                      THEN Crash /\ domain' = [domain EXCEPT !.id = new] /\ UNCHANGED i
                    ELSE /\ Continue
                         /\ domain' = [id |-> new, grade |-> heap[grade].valuestring]
    /\ UNCHANGED <<doc, pos, stack, answer, whole, list, record>>

EndLoop ==
    /\ pc = "loop"
    /\ i > Len(Children(list))
    /\ Release
    /\ UNCHANGED <<doc, pos, stack, answer, whole, list, i, record, domain>>

(* Nothing follows a return, or behaviour the language leaves undefined.   *)
Terminated ==
    /\ pc \in {"done", "undefined"}
    /\ UNCHANGED vars

Next ==
    \/ ParseNext /\ UNCHANGED decoder
    \/ NoTree \/ FindList \/ DecodeRecord \/ DecodeDomain \/ EndLoop
    \/ Terminated

Spec == Init /\ [][Next]_vars

-----------------------------------------------------------------------------
(* What the rows say, read off the answer itself.                          *)
Has(row, name) == \E k \in DOMAIN row : Lower[row[k][1]] = Lower[name]
Field(row, name) ==
    row[CHOOSE k \in DOMAIN row : /\ Lower[row[k][1]] = Lower[name]
                                  /\ \A j \in 1 .. k - 1 : Lower[row[j][1]] # Lower[name]][2]

IsText(row, name) == Has(row, name) /\ Field(row, name).kind = "str"

NamedRow(row, name) == IsText(row, "Name") /\ Field(row, "Name").text = name

(* A row the decoder for records cannot get past.                          *)
Defective(row) ==
    \/ ~Has(row, "Name")
    \/ NamedRow(row, ServedName) /\ ~IsText(row, "Type")
    \/ /\ NamedRow(row, ServedName)
       /\ Field(row, "Type").text \in {"A", "AAAA"}
       /\ ~IsText(row, "Value") \/ ~Has(row, "RecordId")

Defects == {k \in DOMAIN answer.rows : Defective(answer.rows[k])}

(* The rows that make up a vector: those of its type in front of the first *)
(* defective one.                                                          *)
Wanted(f) == {k \in DOMAIN answer.rows : /\ \A j \in Defects : k < j
                                         /\ NamedRow(answer.rows[k], ServedName)
                                         /\ Field(answer.rows[k], "Type").text = f}

Sent(row) == [id |-> Field(row, "RecordId").num, value |-> Field(row, "Value").text]

(* An answer that did not arrive completely is never used, wherever it     *)
(* ends (inside a text, a number, between two rows): the parse fails as a  *)
(* whole, also when all rows are there and only the closing brackets are   *)
(* not.  curl_request returns such a text as if nothing had happened.      *)
CutNeverDecoded ==
    ~whole => /\ ret \in {"none", "false"}
              /\ record = [f \in {"A", "AAAA"} |-> <<>>]
              /\ domain = [id |-> 0, grade |-> ""]

(* record_ipv4 and record_ipv6 hold exactly the served A and AAAA records, *)
(* in the order of the answer, up to the first row that lacks something    *)
(* the decoder needs; TRUE is returned exactly if there is no such row.    *)
DecodedAsSent ==
    pc = "done" /\ list # NoNode /\ answer.api = "records" =>
        /\ \A f \in {"A", "AAAA"} :
              /\ Len(record[f]) = Cardinality(Wanted(f))
              /\ \A k \in Wanted(f) :
                    record[f][Cardinality({j \in Wanted(f) : j <= k})] = Sent(answer.rows[k])
        /\ ret = "true" <=> Defects = {}

(* Only rows of the served name can stop the decoder, a missing Name       *)
(* apart: what the zone holds under other names (types without a value,    *)
(* null members) does not keep the tool from its own records.              *)
OtherNamesHarmless ==
    pc = "done" /\ list # NoNode /\ ret # "true" =>
        LET row == answer.rows[i]
        IN  \/ ~Has(row, "Name")
            \/ NamedRow(row, IF answer.api = "records" THEN ServedName ELSE domain_name)

(* domain_id and domain_grade are those of the last row of the domain, or  *)
(* untouched without one, whatever other rows hold; an id that is a number *)
(* survives the way through the 32-bit valueint exactly if it fits.        *)
DomainDecodedAsSent ==
    ret = "true" /\ answer.api = "domains" =>
        LET own == {k \in DOMAIN answer.rows : NamedRow(answer.rows[k], domain_name)}
        IN  IF own = {} THEN domain = [id |-> 0, grade |-> ""]
            ELSE \E k \in own :
                   LET id == Field(answer.rows[k], "DomainId")
                   IN  /\ \A j \in own : j <= k
                       /\ id.kind = "num" => (domain.id = id.num <=> id.num <= IntMax)
                       /\ domain.grade = Field(answer.rows[k], "Grade").text

=============================================================================
