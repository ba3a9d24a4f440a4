------------------------------ MODULE JsonParse ------------------------------
(***************************************************************************)
(* json_decode and json_validate of src/json.c: the recursive descent over *)
(* a text and what it owns on the way.  The C stack is explicit: a frame   *)
(* for each active parse_array or parse_object, with its locals.  Nodes    *)
(* live in the forest of JsonForest, which JsonTree implements, so that    *)
(* appending a node and json_delete are single steps.                      *)
(*                                                                         *)
(* A text is a sequence of the symbols of JsonGrammar; "bad" is anything   *)
(* no value begins with, or a string or a word that breaks off.  A node    *)
(* and a key are named by the place in the text they were made from.       *)
(***************************************************************************)
EXTENDS JsonGrammar, FiniteSets

CONSTANTS
  Texts,     \* the texts to be parsed
  MaxLen     \* the length of the longest

Symbols == NumberSigns \cup Strings \cup Words
             \cup {"[", "]", "{", "}", ",", ":", "sp", "bad"}

ASSUME JsonParseAssumption ==
  MaxLen \in Nat /\ \A t \in Texts : t \in Seq(Symbols) /\ Len(t) <= MaxLen

NULL   == 0
Places == 1..MaxLen

VARIABLES
  text,      \* the text
  out,       \* FALSE for json_validate, which passes NULL for the result
  pc,        \* what is about to be parsed, or how parse_value returned
  at,        \* *sp: the place of the next symbol
  frames,    \* active parse_array and parse_object, innermost last
  val,       \* the node parse_value returned last
  keys,      \* key strings that are allocated
  fault,     \* something was freed that is not allocated
  alive, tags, kids, names   \* the forest of nodes

forest == <<alive, tags, kids, names>>
vars   == <<text, out, pc, at, frames, val, keys, fault, forest>>

F == INSTANCE JsonForest WITH Nodes <- Places, Names <- Places

-----------------------------------------------------------------------------
(* Reading.                                                                *)

Ch(i) == IF i <= Len(text) THEN text[i] ELSE "end"

(* The first place from i on whose symbol is not in S.                     *)
SkipAll(S, i) == CHOOSE j \in i..(Len(text) + 1) :
                   Ch(j) \notin S /\ \A m \in i..(j - 1) : Ch(m) \in S

SkipSpace(i) == SkipAll({"sp"}, i)

(* [0-9]+ from i on: the place behind it, 0 if there is no digit.          *)
DigitsEnd(i) == IF Ch(i) \in Digits THEN SkipAll(Digits, i) ELSE 0

(* Slip: a number may begin with any digits, as strtod has it.             *)
NumberEnd_IdleZeros(i) == DigitsEnd(IF Ch(i) = "-" THEN i + 1 ELSE i)

(* parse_number: the place behind the number at i, 0 if there is none.     *)
NumberEnd(i) ==
  LET first    == IF Ch(i) = "-" THEN i + 1 ELSE i
      integer  == IF Ch(first) = "0" THEN first + 1 ELSE DigitsEnd(first)
      fraction == IF integer = 0 \/ Ch(integer) # "." THEN integer
                  ELSE DigitsEnd(integer + 1)
      sign     == IF Ch(fraction + 1) \in {"+", "-"} THEN fraction + 2 ELSE fraction + 1
  IN  IF fraction = 0 \/ Ch(fraction) \notin {"e", "E"} THEN fraction ELSE DigitsEnd(sign)

(* The place behind the scalar at i, 0 if there is none.                   *)
ScalarEnd(i) == IF Ch(i) \in Strings \cup Words THEN i + 1 ELSE NumberEnd(i)

Init ==
  /\ text \in Texts
  /\ out \in BOOLEAN
  /\ pc = "value"
  /\ at = SkipSpace(1)
  /\ frames = <<>>
  /\ val = NULL
  /\ keys = {}
  /\ fault = FALSE
  /\ F!Init

-----------------------------------------------------------------------------
(* Parsing.                                                                *)

Top    == frames[Len(frames)]
Pop    == SubSeq(frames, 1, Len(frames) - 1)
Closer == IF Top.fn = "array" THEN "]" ELSE "}"

(* What the loop of parse_array or of parse_object begins with.            *)
LoopStart == IF Top.fn = "array" THEN "value" ELSE "key"

MakeNode(n, t) == IF out THEN F!Make(n, t) ELSE UNCHANGED forest

(* parse_value, not at a bracket: a string, a word or a number.            *)
ParseScalar ==
  /\ pc = "value" /\ Ch(at) \notin {"[", "{"} /\ ScalarEnd(at) # 0
  /\ MakeNode(at, "leaf")
  /\ val' = (IF out THEN at ELSE NULL)
  /\ at' = ScalarEnd(at)
  /\ pc' = "returned"
  /\ UNCHANGED <<text, out, frames, keys, fault>>

(* parse_value finds nothing and returns false.                            *)
NoValue ==
  /\ pc = "value" /\ Ch(at) \notin {"[", "{"} /\ ScalarEnd(at) = 0
  /\ pc' = "failed"
  /\ UNCHANGED <<text, out, at, frames, val, keys, fault, forest>>

(* parse_array or parse_object is called; its key is not set yet.          *)
OpenContainer ==
  /\ pc = "value" /\ Ch(at) \in {"[", "{"}
  /\ LET t == IF Ch(at) = "[" THEN "array" ELSE "object" IN
       /\ MakeNode(at, t)
       /\ frames' = Append(frames, [fn  |-> t, ret |-> IF out THEN at ELSE NULL,
                                    key |-> NULL])
  /\ at' = SkipSpace(at + 1)
  /\ pc' = "first"
  /\ UNCHANGED <<text, out, val, keys, fault>>

(* Before the loop: the container may be empty.                            *)
NotEmpty ==
  /\ pc = "first" /\ Ch(at) # Closer
  /\ pc' = LoopStart
  /\ UNCHANGED <<text, out, at, frames, val, keys, fault, forest>>

(* The container ends, before the loop or behind one of its values.        *)
Close ==
  /\ pc \in {"first", "separator"} /\ Ch(at) = Closer
  /\ at' = at + 1
  /\ val' = Top.ret
  /\ frames' = Pop
  /\ pc' = "returned"
  /\ UNCHANGED <<text, out, keys, fault, forest>>

ParseKey ==
  /\ pc = "key" /\ Ch(at) \in Strings
  /\ IF out THEN /\ keys' = keys \cup {at}
                 /\ frames' = [frames EXCEPT ![Len(frames)].key = at]
     ELSE UNCHANGED <<keys, frames>>
  /\ at' = SkipSpace(at + 1)
  /\ pc' = "colon"
  /\ UNCHANGED <<text, out, val, fault, forest>>

Colon ==
  /\ pc = "colon" /\ Ch(at) = ":"
  /\ at' = SkipSpace(at + 1)
  /\ pc' = "value"
  /\ UNCHANGED <<text, out, frames, val, keys, fault, forest>>

(* Slip: a member goes to the front of its object.                         *)
AppendValue_AtFront ==
  /\ pc = "returned" /\ frames # <<>>
  /\ IF out THEN F!AddFirst(Top.ret, val, Top.key) ELSE UNCHANGED forest
  /\ at' = SkipSpace(at)
  /\ pc' = "separator"
  /\ UNCHANGED <<text, out, frames, val, keys, fault>>

(* Behind parse_value in the loop: json_append_element or append_member,   *)
(* which takes the key over.  The local variable keeps its address.        *)
AppendValue ==
  /\ pc = "returned" /\ frames # <<>>
  /\ IF out THEN F!AddLast(Top.ret, val, Top.key) ELSE UNCHANGED forest
  /\ at' = SkipSpace(at)
  /\ pc' = "separator"
  /\ UNCHANGED <<text, out, frames, val, keys, fault>>

Comma ==
  /\ pc = "separator" /\ Ch(at) = ","
  /\ at' = SkipSpace(at + 1)
  /\ pc' = LoopStart
  /\ UNCHANGED <<text, out, frames, val, keys, fault, forest>>

-----------------------------------------------------------------------------
(* Giving up.                                                              *)

(* free of the given keys, then json_delete(n), which frees the keys that  *)
(* are attached below n.                                                   *)
FreeAndDelete(freed, n) ==
  LET attached == {names[m] : m \in F!Subtree(n)} \ {NULL} IN
  IF out
  THEN /\ F!Delete(n)
       /\ keys' = keys \ (freed \cup attached)
       /\ fault' = (fault \/ ~ freed \subseteq keys \/ ~ attached \subseteq keys \ freed)
  ELSE UNCHANGED <<keys, fault, forest>>

(* The labels failure (no key to free) and failure_free_key.               *)
GiveUp(freed) ==
  /\ FreeAndDelete(freed, Top.ret)
  /\ frames' = Pop
  /\ pc' = "failed"
  /\ UNCHANGED <<text, out, at, val>>

(* parse_string finds no key: goto failure.                                *)
NoKey == pc = "key" /\ Ch(at) \notin Strings /\ GiveUp({})

(* No colon: goto failure_free_key.                                        *)
NoColon == pc = "colon" /\ Ch(at) # ":" /\ GiveUp({Top.key})

(* Slip: the key that was handed over is freed too.                        *)
NoComma_FreesKey ==
  /\ pc = "separator" /\ Ch(at) \notin {Closer, ","}
  /\ GiveUp(IF Top.fn = "object" THEN {Top.key} ELSE {})

(* Neither a comma nor the end: goto failure.                              *)
NoComma == pc = "separator" /\ Ch(at) \notin {Closer, ","} /\ GiveUp({})

(* Slip: parse_object goes to failure, as parse_array does.                *)
ValueFailed_KeepsKey == pc = "failed" /\ frames # <<>> /\ GiveUp({})

(* Slip: parse_array goes on with the loop.                                *)
ValueFailed_GoesOn ==
  /\ pc = "failed" /\ frames # <<>>
  /\ IF Top.fn = "object" THEN GiveUp({Top.key})
     ELSE pc' = "value" /\ UNCHANGED <<text, out, at, frames, val, keys, fault, forest>>

(* parse_value has failed in the loop: goto failure in parse_array,        *)
(* failure_free_key in parse_object.                                       *)
ValueFailed ==
  /\ pc = "failed" /\ frames # <<>>
  /\ GiveUp(IF Top.fn = "object" THEN {Top.key} ELSE {})

-----------------------------------------------------------------------------
(* json_decode and json_validate behind parse_value.                       *)

Return(result) ==
  /\ pc' = result
  /\ UNCHANGED <<text, out, frames, val>>

(* The text ends here, blanks apart.                                       *)
Accept ==
  /\ pc = "returned" /\ frames = <<>> /\ Ch(SkipSpace(at)) = "end"
  /\ at' = SkipSpace(at)
  /\ Return("accepted")
  /\ UNCHANGED <<keys, fault, forest>>

(* Something follows the value: it is deleted.                             *)
RejectRest ==
  /\ pc = "returned" /\ frames = <<>> /\ Ch(SkipSpace(at)) # "end"
  /\ FreeAndDelete({}, val)
  /\ at' = SkipSpace(at)
  /\ Return("rejected")

Reject ==
  /\ pc = "failed" /\ frames = <<>>
  /\ Return("rejected")
  /\ UNCHANGED <<at, keys, fault, forest>>

Done == pc \in {"accepted", "rejected"}

Next ==
  \/ ParseScalar \/ NoValue \/ OpenContainer \/ NotEmpty \/ Close
  \/ ParseKey \/ Colon \/ AppendValue \/ Comma
  \/ NoKey \/ NoColon \/ NoComma \/ ValueFailed
  \/ Accept \/ RejectRest \/ Reject

(* Nothing waits for anything: the calls run on until they return.         *)
Spec == Init /\ [][Next]_vars /\ WF_vars(Next)

-----------------------------------------------------------------------------

(* Nothing is freed that is not allocated: on every way out of every       *)
(* level the key is freed by exactly one of the local variable's owner and *)
(* the object it was handed over to.                                       *)
NoFault == ~ fault

(* The key of a frame is its own from parse_string until append_member.    *)
OwnsKey(i) ==
  /\ frames[i].fn = "object"
  /\ \/ i < Len(frames)
     \/ pc \in {"colon", "value", "returned", "failed"}

(* At every step each node is below exactly one node that some frame or    *)
(* the caller is responsible for, and each key is attached to a node or    *)
(* the local variable of one frame.  So a rejected text leaves nothing     *)
(* behind, and an accepted one a single tree; json_validate allocates      *)
(* nothing.                                                                *)
NothingLost ==
  LET held  == {frames[i].ret : i \in 1..Len(frames)}
                 \cup (IF pc \in {"returned", "accepted"} THEN {val} ELSE {})
      local == {frames[i].key : i \in {j \in 1..Len(frames) : OwnsKey(j)}}
      attached == {names[n] : n \in alive} \ {NULL}
  IN  IF out
      THEN /\ {n \in alive : F!IsRoot(n)} = held
           /\ keys = local \cup attached
           /\ local \cap attached = {}
      ELSE alive = {} /\ keys = {}

(* Decoding and validating accept the same texts, those that are JSON.     *)
AcceptsJson == Done => (pc = "accepted" <=> IsJson(text))

(* Every call returns, whatever the text.                                  *)
Returns == <>Done
=============================================================================
