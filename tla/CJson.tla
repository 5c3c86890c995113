-------------------------------- MODULE CJson --------------------------------
(***************************************************************************)
(* tretap_CJson_Parse on the heap: a document is turned into nodes that    *)
(* are linked by child, next and prev, and a failure anywhere hands the    *)
(* tree built so far to tretap_CJson_Delete.                               *)
(*                                                                         *)
(* The document is a sequence of tokens; skip() drops the blanks between   *)
(* them and "end" is the terminating NUL.  A document cut off inside a     *)
(* string still holds a (shorter) string, since parse_string takes the NUL *)
(* for a closing quote; inside a number, a shorter number; inside a        *)
(* literal, "bad".  Inside an escape sequence ("cutesc") the scan steps    *)
(* over the NUL, and what follows in memory decides: undefined behaviour.  *)
(***************************************************************************)
EXTENDS Integers, Sequences, FiniteSets

CONSTANTS
    Alloc,    \* what malloc may do: {TRUE}, or BOOLEAN if it may fail
    IntMax    \* INT_MAX, for valueint

ASSUME CJsonAssumption == /\ Alloc \subseteq BOOLEAN
                          /\ IntMax \in Nat

Null == "(null)"     \* a char pointer that is 0
NoNode == 0          \* a node pointer that is 0

Token(kind, text, num) == [kind |-> kind, text |-> text, num |-> num]
Punct(kind) == Token(kind, Null, 0)
Str(text)   == Token("str", text, 0)
Num(n)      == Token("num", Null, n)

VARIABLES
    doc,      \* the document, ending in "end"
    pos,      \* the token the parser looks at
    heap,     \* the nodes allocated so far; a pointer is an index
    strings,  \* string buffers allocated and not freed
    stack,    \* items of the parse_value calls under way, innermost last
    pc

parser == <<doc, pos, heap, strings, stack>>

(* tretap_CJson_New_Item: a node of zeros.                                 *)
New_Item ==
    [live |-> TRUE, type |-> "False", child |-> NoNode, next |-> NoNode,
     prev |-> NoNode, string |-> Null, valuestring |-> Null,
     valueint |-> 0, valuedouble |-> 0]

Root == 1
Fresh == Len(heap) + 1
Top == stack[Len(stack)]
Parent == stack[Len(stack) - 1]
Tok == doc[pos].kind

-----------------------------------------------------------------------------
(* What tretap_CJson_Delete visits: the node, everything behind it and     *)
(* everything below these.                                                 *)
Visited(h, c) ==
    LET v[n \in 0 .. Len(h)] ==
          IF n = 0 THEN {c} \ {NoNode}
          ELSE LET seen == v[n - 1]
               IN  (seen \cup {h[k].child : k \in seen} \cup {h[k].next : k \in seen})
                   \ {NoNode}
    IN  v[Len(h)]

BuffersOf(h, S) == Cardinality({k \in S : h[k].valuestring # Null})
                   + Cardinality({k \in S : h[k].string # Null})

(* tretap_CJson_Delete(c).                                                 *)
Delete(h, c) ==
    /\ heap' = [k \in DOMAIN h |->
                  IF k \in Visited(h, c) THEN [h[k] EXCEPT !.live = FALSE] ELSE h[k]]
    /\ strings' = strings - BuffersOf(h, Visited(h, c))

(* parse_value or one of its callers returns 0, and so do all callers up   *)
(* to tretap_CJson_ParseWithOpts.                                          *)
ParseFails ==
    /\ Delete(heap, Root)
    /\ pc' = "no_tree"
    /\ stack' = <<>>
    /\ UNCHANGED <<doc, pos>>

(* ParseWithOpts allocates the root before it looks at the text.           *)
ParseWithOpts ==
    /\ pc = "parse"
    /\ \E ok \in Alloc :
          IF ok THEN heap' = <<New_Item>> /\ stack' = <<Root>> /\ pc' = "value"
                ELSE heap' = <<>> /\ stack' = <<>> /\ pc' = "no_tree"
    /\ UNCHANGED <<doc, pos, strings>>

(* (int)n of a double that does not fit is INT_MIN on this machine.        *)
ToInt(n) == IF n <= IntMax THEN n ELSE -IntMax - 1

(* parse_value on a literal or a number.                                   *)
ParseScalar ==
    /\ pc = "value"
    /\ Tok \in {"null", "false", "true", "num"}
    /\ heap' = [heap EXCEPT ![Top] =
          CASE Tok = "null"  -> [@ EXCEPT !.type = "NULL"]
            [] Tok = "false" -> [@ EXCEPT !.type = "False"]
            [] Tok = "true"  -> [@ EXCEPT !.type = "True", !.valueint = 1]
            [] Tok = "num"   -> [@ EXCEPT !.type = "Number",
                                          !.valueint = ToInt(doc[pos].num),
                                          !.valuedouble = doc[pos].num]]
    /\ pos' = pos + 1
    /\ pc' = "return"
    /\ UNCHANGED <<doc, strings, stack>>

(* parse_string on the value of an item.                                   *)
ParseString ==
    /\ pc = "value"
    /\ Tok = "str"
    /\ \E ok \in Alloc :
          IF ok THEN /\ heap' = [heap EXCEPT ![Top] =
                            [@ EXCEPT !.type = "String", !.valuestring = doc[pos].text]]
                     /\ strings' = strings + 1
                     /\ pos' = pos + 1
                     /\ pc' = "return"
                     /\ UNCHANGED <<doc, stack>>
                ELSE ParseFails

(* The branches of parse_array and parse_object up to their first child.   *)
Closer == [t \in {"Array", "Object"} |-> IF t = "Array" THEN "]" ELSE "}"]

Open(bracket, type, next_pc) ==
    /\ pc = "value"
    /\ Tok = bracket
    /\ IF doc[pos + 1].kind = Closer[type]
         THEN /\ heap' = [heap EXCEPT ![Top] = [@ EXCEPT !.type = type]]
              /\ pos' = pos + 2
              /\ pc' = "return"
              /\ UNCHANGED <<doc, strings, stack>>
         ELSE \E ok \in Alloc :
                IF ok THEN /\ heap' = Append([heap EXCEPT ![Top] =
                                   [@ EXCEPT !.type = type, !.child = Fresh]], New_Item)
                           /\ stack' = Append(stack, Fresh)
                           /\ pos' = pos + 1
                           /\ pc' = next_pc
                           /\ UNCHANGED <<doc, strings>>
                      ELSE ParseFails

OpenArray  == Open("[", "Array", "value")
OpenObject == Open("{", "Object", "name")

ParseBad ==
    /\ pc = "value"
    /\ Tok \in {"]", "}", ":", ",", "bad", "end"}
    /\ ParseFails

(* Mutated form: the buffer stays in valuestring, too.                     *)
ParseNameShared ==
    /\ pc = "name"
    /\ Tok # "cutesc"
    /\ \E ok \in Alloc :
          IF ok /\ Tok = "str" /\ doc[pos + 1].kind = ":"
            THEN /\ heap' = [heap EXCEPT ![Top] = [@ EXCEPT !.string = doc[pos].text,
                                                            !.valuestring = doc[pos].text]]
                 /\ strings' = strings + 1
                 /\ pos' = pos + 2
                 /\ pc' = "value"
                 /\ UNCHANGED <<doc, stack>>
            ELSE ParseFails

(* The name of a member: parse_string, then the buffer moves from          *)
(* valuestring to string, then a colon.  (Without a colon the buffer is in *)
(* string when the tree is deleted: allocated and freed in one step here.) *)
ParseName ==
    /\ pc = "name"
    /\ Tok # "cutesc"
    /\ \E ok \in Alloc :
          IF ok /\ Tok = "str" /\ doc[pos + 1].kind = ":"
            THEN /\ heap' = [heap EXCEPT ![Top] = [@ EXCEPT !.string = doc[pos].text]]
                 /\ strings' = strings + 1
                 /\ pos' = pos + 2
                 /\ pc' = "value"
                 /\ UNCHANGED <<doc, stack>>
            ELSE ParseFails

(* Mutated form: the new item is linked only one way.                      *)
NextItemUnlinked ==
    /\ pc = "return"
    /\ Len(stack) > 1
    /\ Tok = ","
    /\ \E ok \in Alloc :
          IF ok THEN /\ heap' = Append(heap, [New_Item EXCEPT !.prev = Top])
                     /\ stack' = [stack EXCEPT ![Len(stack)] = Fresh]
                     /\ pos' = pos + 1
                     /\ pc' = IF heap[Parent].type = "Array" THEN "value" ELSE "name"
                     /\ UNCHANGED <<doc, strings>>
                ELSE ParseFails

(* A comma behind an item: the next one is linked before it is parsed.     *)
NextItem ==
    /\ pc = "return"
    /\ Len(stack) > 1
    /\ Tok = ","
    /\ \E ok \in Alloc :
          IF ok THEN /\ heap' = Append([heap EXCEPT ![Top] = [@ EXCEPT !.next = Fresh]],
                                       [New_Item EXCEPT !.prev = Top])
                     /\ stack' = [stack EXCEPT ![Len(stack)] = Fresh]
                     /\ pos' = pos + 1
                     /\ pc' = IF heap[Parent].type = "Array" THEN "value" ELSE "name"
                     /\ UNCHANGED <<doc, strings>>
                ELSE ParseFails

(* Mutated form: the end of the text ends the array or object, too.        *)
CloseAtEnd ==
    /\ pc = "return"
    /\ Len(stack) > 1
    /\ Tok # ","
    /\ IF Tok \in {Closer[heap[Parent].type], "end"}
         THEN /\ stack' = SubSeq(stack, 1, Len(stack) - 1)
              /\ pos' = IF Tok = "end" THEN pos ELSE pos + 1
              /\ UNCHANGED <<doc, heap, strings, pc>>
         ELSE ParseFails

(* Behind an item without a comma: the bracket of the parent, or nothing.  *)
Close ==
    /\ pc = "return"
    /\ Len(stack) > 1
    /\ Tok # ","
    /\ IF Tok = Closer[heap[Parent].type]
         THEN /\ stack' = SubSeq(stack, 1, Len(stack) - 1)
              /\ pos' = pos + 1
              /\ UNCHANGED <<doc, heap, strings, pc>>
         ELSE ParseFails

(* The root is complete; what follows it in the text is not looked at.     *)
ParseReturns ==
    /\ pc = "return"
    /\ Len(stack) = 1
    /\ pc' = "tree"
    /\ stack' = <<>>
    /\ UNCHANGED <<doc, pos, heap, strings>>

(* parse_string on a text that ends inside an escape sequence.             *)
ReadPastEnd ==
    /\ pc \in {"value", "name"}
    /\ Tok = "cutesc"
    /\ pc' = "undefined"
    /\ UNCHANGED parser

ParseNext ==
    \/ ParseWithOpts \/ ParseScalar \/ ParseString \/ OpenArray \/ OpenObject
    \/ ParseBad \/ ParseName \/ NextItem \/ Close \/ ParseReturns \/ ReadPastEnd

-----------------------------------------------------------------------------
(* The chain of children of a node, as tretap_CJson_GetArraySize and       *)
(* tretap_CJson_GetArrayItem walk it.                                      *)
Children(c) ==
    LET chain[n \in 0 .. Len(heap)] ==
          IF n = 0 THEN IF heap[c].child = NoNode THEN <<>> ELSE <<heap[c].child>>
          ELSE LET s == chain[n - 1]
               IN  IF s = <<>> THEN s
                   ELSE IF heap[s[Len(s)]].next = NoNode THEN s
                   ELSE Append(s, heap[s[Len(s)]].next)
    IN  chain[Len(heap)]

(* tretap_CJson_GetObjectItem: the first child of that name (names are     *)
(* compared in lower case; elements of an array have none).                *)
GetObjectItem(c, name, lower) ==
    LET kids == Children(c)
        Hits == {k \in DOMAIN kids : /\ heap[kids[k]].string # Null
                                     /\ lower[heap[kids[k]].string] = lower[name]}
    IN  IF Hits = {} THEN NoNode
        ELSE kids[CHOOSE k \in Hits : \A j \in Hits : k <= j]

-----------------------------------------------------------------------------
LiveNodes == {k \in DOMAIN heap : heap[k].live}

(* The parser never loses a node or a buffer, so that a failure anywhere   *)
(* (a cut document, a malformed one, malloc) can release all of it: every  *)
(* live node is reached from the root, every buffer belongs to exactly one *)
(* field of a live node, and prev undoes next.                             *)
NothingLost ==
    /\ LiveNodes # {} => LiveNodes = Visited(heap, Root)
    /\ strings = BuffersOf(heap, LiveNodes)
    /\ \A k \in LiveNodes : heap[k].next # NoNode => heap[heap[k].next].prev = k

=============================================================================
