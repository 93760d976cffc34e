------------------------------- MODULE Elements -------------------------------
(***************************************************************************)
(* The conversions between Python values and Kea's JSON elements of        *)
(* keamodule/utils.cc, with their cut strings, their overflows and their   *)
(* error returns.                                                          *)
(*                                                                         *)
(* A string is a sequence of characters: "a", its upper case "A", the      *)
(* digit "1", "nul" (U+0000), "lone" (a lone surrogate, which has no       *)
(* UTF-8 form) and "bad" (bytes of Kea that are not UTF-8).  A dict that   *)
(* Python passes is the sequence of its items in insertion order.          *)
(*                                                                         *)
(* The conversions call themselves, so they are recursive functions.       *)
(***************************************************************************)
EXTENDS Integers, SequencesExt

CONSTANTS Base,     \* values of a byte: 256 in the code
          Objects,  \* Python values, with all they contain
          JSON,     \* elements, with all they contain
          Depth,    \* how deep a value or an element is nested
          MaxDepth  \* the nesting that the C stack bears

ASSUME BaseAssumption == Base \in Nat /\ Base > 0 /\ Base % 2 = 0

\* The values of n bytes, for the widths and parts of widths in the code.
Values(n) ==
  LET word == Base * Base * Base * Base
  IN CASE n = 0 -> 1
       [] n = 1 -> Base
       [] n = 2 -> Base * Base
       [] n = 3 -> Base * Base * Base
       [] n = 4 -> word
       [] n = 8 -> word * word

\* An unsigned number of n bytes, and a signed one.
Unsigned(n) == 0 .. Values(n) - 1
Signed(n) == LET half == Values(n) \div 2 IN -half .. half - 1

\* What a C conversion to n bytes makes of a number.
ToUnsigned(x, n) == x % Values(n)
ToSigned(x, n) == LET half == Values(n) \div 2
                  IN ((x + half) % Values(n)) - half

Long == Signed(8)

\* A std::string made from a char pointer ends at the first NUL.
Cut(s) == LET nul == SelectInSeq(s, LAMBDA c : c = "nul")
          IN IF nul = 0 THEN s ELSE SubSeq(s, 1, nul - 1)

\* PyUnicode_AsUTF8 gives no NULL, PyUnicode_FromString no error.
Encodable(s) == "lone" \notin ToSet(s)
Decodable(s) == "bad" \notin ToSet(s)

-----------------------------------------------------------------------------
(* Python values and Kea's elements.                                       *)
None == [t |-> "None"]
Float == [t |-> "float"]
Object == [t |-> "object"]
PyBool(b) == [t |-> "bool", bool |-> b]
PyInt(n) == [t |-> "int", int |-> n]
PyStr(s) == [t |-> "str", str |-> s]
PyList(l) == [t |-> "list", list |-> l]
PyDict(items) == [t |-> "dict", items |-> items]
ReadDict(f) == [t |-> "dict", of |-> f]

Null == [t |-> "null"]
Real == [t |-> "real"]
Boolean(b) == [t |-> "boolean", bool |-> b]
Integer(n) == [t |-> "integer", int |-> n]
String(s) == [t |-> "string", str |-> s]
List(l) == [t |-> "list", list |-> l]
Map(f) == [t |-> "map", of |-> f]

\* Neither is an element: the null pointer, a C++ exception on its way to
\* the caller; NoObject is the NULL of a failed conversion to Python.
NullPtr == [t |-> "nullptr"]
Thrown == [t |-> "thrown"]
NoObject == [t |-> "NULL"]

\* What a list, a dict or a map contains.
Parts(v) == CASE v.t = "list" -> ToSet(v.list)
              [] v.t = "dict" -> UNION {{v.items[i][1], v.items[i][2]} : i \in DOMAIN v.items}
              [] v.t = "map"  -> {v.of[k] : k \in DOMAIN v.of}
              [] OTHER -> {}

Characters == {"a", "A", "1", "nul", "lone", "bad"}
PythonText == Seq(Characters \ {"bad"})
KeaText == Seq(Characters \ {"lone"})

IsObject(v) ==
  /\ v.t \in {"None", "bool", "int", "float", "str", "list", "dict", "object"}
  /\ v.t = "bool" => v.bool \in BOOLEAN
  /\ v.t = "int" => v.int \in Int
  /\ v.t = "str" => v.str \in PythonText
  /\ v.t = "list" => v.list \in Seq(Objects)
  /\ v.t = "dict" => v.items \in Seq(Objects \X Objects)

\* Kea's maps have no NUL in a key; Kea has more types than the ones converted.
IsElement(e) ==
  /\ e.t \notin {"dict", "thrown", "NULL"}
  /\ e.t = "string" => e.str \in KeaText
  /\ e.t = "list" => e.list \in Seq(JSON)
  /\ e.t = "map" => \A k \in DOMAIN e.of :
       k \in KeaText /\ "nul" \notin ToSet(k) /\ e.of[k] \in JSON

ASSUME ValuesAssumption ==
  /\ \A v \in Objects : IsObject(v)
  /\ \A e \in JSON : IsElement(e)

\* Nothing contains itself: the conversions would overflow the stack.
ASSUME DepthAssumption ==
  /\ MaxDepth \in Nat
  /\ \A v \in Objects \cup JSON :
       Depth[v] \in 0 .. MaxDepth /\ \A p \in Parts(v) : Depth[p] < Depth[v]

-----------------------------------------------------------------------------
(* object_to_element: the element, and whether a Python error is pending.  *)
Made(e) == [element |-> e, error |-> FALSE]
Failed(e) == [element |-> e, error |-> TRUE]

Fails(r) == r.element.t \in {"nullptr", "thrown"}

\* A container of converted items: the first one that fails ends the
\* conversion; the error of a number that did not fit does not.
Collect(items, whole) ==
  LET failing == SelectInSeq(items, Fails)
  IN IF failing # 0 THEN Failed(items[failing].element)
     ELSE [element |-> whole,
           error |-> \E i \in DOMAIN items : items[i].error]

\* Mutation: of keys that are equal up to a NUL the first one wins.
MapOfFirst(keys, items) ==
  Map([k \in {Cut(keys[i]) : i \in DOMAIN keys} |->
        items[SelectInSeq(keys, LAMBDA key : Cut(key) = k)].element])

\* MapElement::set for each key, cut at a NUL.
MapOf(keys, items) ==
  Map([k \in {Cut(keys[i]) : i \in DOMAIN keys} |->
        items[SelectLastInSeq(keys, LAMBDA key : Cut(key) = k)].element])

\* One item of a dict, whose value converts to r: the key is looked at first
\* and encoded last.
DictItem(key, r) ==
  IF key.t # "str" THEN Failed(NullPtr)
  ELSE IF ~Fails(r) /\ ~Encodable(key.str) THEN Failed(Thrown)
  ELSE r

\* The element of v, when "convert" has those of its parts.
ElementOf(v, convert) ==
  CASE v.t = "None"  -> Made(Null)
    [] v.t = "bool"  -> Made(Boolean(v.bool))
    [] v.t = "int"   -> IF v.int \in Long THEN Made(Integer(v.int))
                        ELSE Failed(Integer(-1))
    [] v.t = "float" -> Made(Real)
    [] v.t = "str"   -> IF Encodable(v.str) THEN Made(String(Cut(v.str)))
                        ELSE Failed(Thrown)
    [] v.t = "list"  ->
         LET items == [i \in DOMAIN v.list |-> convert[v.list[i]]]
         IN Collect(items, List([i \in DOMAIN items |-> items[i].element]))
    [] v.t = "dict"  ->
         LET items == [i \in DOMAIN v.items |->
                         DictItem(v.items[i][1], convert[v.items[i][2]])]
             keys == [i \in DOMAIN v.items |-> v.items[i][1].str]
         IN Collect(items, MapOf(keys, items))
    [] OTHER -> Failed(NullPtr)

object_to_element[v \in Objects] == ElementOf(v, object_to_element)

\* JSON is large enough.
ASSUME ConvertedAssumption ==
  \A v \in Objects : ~Fails(object_to_element[v]) => object_to_element[v].element \in JSON

-----------------------------------------------------------------------------
(* element_to_object.                                                      *)
FromString(s) == IF Decodable(Cut(s)) THEN PyStr(Cut(s)) ELSE NoObject

Scalar(e) ==
  CASE e.t = "integer" -> PyInt(e.int)
    [] e.t = "real"    -> Float
    [] e.t = "boolean" -> PyBool(e.bool)
    [] e.t = "string"  -> FromString(e.str)
    [] OTHER -> None     \* a null pointer, null, and types of later versions

\* The object of e, when "convert" has those of its parts.
ObjectOf(e, convert) ==
  CASE e.t = "list" ->
         LET items == [i \in DOMAIN e.list |-> convert[e.list[i]]]
         IN IF \E i \in DOMAIN items : items[i] = NoObject
            THEN NoObject ELSE PyList(items)
    [] e.t = "map" ->
         LET items == [k \in DOMAIN e.of |-> convert[e.of[k]]]
         IN IF \E k \in DOMAIN items : items[k] = NoObject \/ ~Decodable(k)
            THEN NoObject ELSE ReadDict(items)
    [] OTHER -> Scalar(e)

element_to_object[e \in JSON] == ObjectOf(e, element_to_object)

-----------------------------------------------------------------------------
(* The reference: what value w a reader gets to see for a value v that was *)
(* given, without a conversion in between.                                 *)
CutsTo(s, r) == /\ IsPrefix(r, s)
                /\ "nul" \notin ToSet(r)
                /\ Len(r) < Len(s) => s[Len(r) + 1] = "nul"

\* The index of the last item whose key reads as k.
Named(v, k) == {i \in DOMAIN v.items : CutsTo(v.items[i][1].str, k)}
Latest(v, k) == CHOOSE i \in Named(v, k) : \A j \in Named(v, k) : j <= i

\* Whether v reads as w, when "reads" has what its parts read as.
ReadsAs(v, w, reads) ==
  /\ v.t = w.t
  /\ v.t = "bool" => v.bool = w.bool
  /\ v.t = "int" => v.int = w.int
  /\ v.t = "str" => CutsTo(v.str, w.str)
  /\ v.t = "list" => /\ Len(v.list) = Len(w.list)
                     /\ \A i \in DOMAIN v.list : w.list[i] \in reads[v.list[i]]
  /\ v.t = "dict" =>
       /\ \A i \in DOMAIN v.items : \E k \in DOMAIN w.of : i \in Named(v, k)
       /\ \A k \in DOMAIN w.of : /\ Named(v, k) # {}
                                 /\ w.of[k] \in reads[v.items[Latest(v, k)][2]]

Shown == {element_to_object[e] : e \in JSON}
Readings[v \in Objects] == {w \in Shown : ReadsAs(v, w, Readings)}
===============================================================================
