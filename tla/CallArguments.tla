---------------------------- MODULE CallArguments ----------------------------
(***************************************************************************)
(* What Python code in a callout hands to the extension module and what    *)
(* becomes of it: the setters and getters of CalloutHandle, Lease4, Pkt4   *)
(* and Option, LeaseMgr.wipeLeases4 and the configuration parsers, with    *)
(* CPython's error indicator, which a call can leave set although it       *)
(* returned, and the status that Kea gets from the callout in the end.     *)
(*                                                                         *)
(* A behaviour is about one field: no call of the module touches two.  The *)
(* error indicator is there for all of them, and an attribute of another   *)
(* object can leave it set.                                                *)
(***************************************************************************)
EXTENDS Elements

CONSTANTS Numbers,      \* ints given where a number is wanted
          Strings,      \* strings given where a text is wanted
          Blobs,        \* contents of bytes objects
          KeaElements,  \* elements that Kea passes
          KeaStrings    \* texts that Kea stores

ASSUME ArgumentsAssumption ==
  /\ Numbers \subseteq Int
  /\ Strings \subseteq PythonText
  /\ Blobs \subseteq Seq(Unsigned(1))
  /\ KeaElements \subseteq JSON /\ NullPtr \in JSON
  /\ KeaStrings \subseteq KeaText
  /\ {PyDict(<<>>), Object} \subseteq Objects

VARIABLES
  field,     \* what the calls of this behaviour are about
  phase,     \* who runs: "kea" or "python"; "dead" after an abort
  stored,    \* the value of the field in Kea
  pending,   \* PyErr_Occurred()
  exc,       \* the exception Python code is to handle: "none", "plain", or
             \* "lone" when its text has a lone surrogate
  wrong,     \* a call returned, but the field, or another attribute, does not
             \* read as what it was given, and no exception has been raised since
  last,      \* the last set call of this callout
  heard      \* how the last callout ended for Kea

vars == <<field, phase, stored, pending, exc, wrong, last, heard>>

\* Attributes are set through tp_setattro, whose result 0 is not checked
\* against the error indicator; the others are calls, whose result is.
Attributes == {"valid_lft", "cltt", "fqdn_fwd", "addr", "hostname", "hwaddr", "client_id"}
Methods == {"response", "lease4", "context", "status", "type", "flags", "ciaddr",
            "chaddr", "option", "text", "wiped", "class", "subnet4", "host"}
Fields == Attributes \cup Methods

\* What the configuration parsers make: a class of a dictionary, or an object
\* that the caller gets and that is lost when the call raises.
Results == {"subnet4", "host"}
Parsed == {"class"} \cup Results

\* setUintN and getUintN of an option, by the bytes of the number.
Width == [Uint8 |-> 1, Uint16 |-> 2, Uint32 |-> 4]

\* The setters and the getters of a field.
Setters(f) == IF f = "option" THEN DOMAIN Width \cup {"Bytes"} ELSE {"value"}
Getters(f) == CASE f = "hwaddr" -> {"value", "toElement"}
                [] f \in Parsed -> {}
                [] OTHER -> Setters(f)

Deleted == [t |-> "deleted"]               \* del lease.attribute
Bytes(b) == [t |-> "bytes", bytes |-> b]
Lease4(l) == [t |-> "Lease4", lease |-> l]

HostOf(id, config) == [t |-> "host", id |-> id, config |-> config]

Nothing == [call |-> "none", given |-> None, raised |-> FALSE,
            clean |-> TRUE, error |-> FALSE, changed |-> FALSE]
Unheard == [how |-> "nothing", status |-> 0, gave |-> None]

-----------------------------------------------------------------------------
(* How a C function ends: the value of the field, whether it leaves the    *)
(* error indicator set, and whether it returns, raises or aborts.          *)
Returns(x, error) == [stored |-> x, error |-> error, end |-> "returns"]
Raises(s) == [stored |-> s, error |-> TRUE, end |-> "raises"]
Dies(s) == [stored |-> s, error |-> TRUE, end |-> "dies"]

\* A caller of object_to_element whose try block catches what it throws;
\* each does something else with a null pointer.
Convert(v, s, null) == LET r == object_to_element[v]
                       IN CASE r.element = Thrown  -> Raises(s)
                            [] r.element = NullPtr -> null
                            [] OTHER -> Returns(r.element, r.error)

\* Mutation: setArgument does not look at the pointer.
SetArgumentUnchecked(v, s) == Convert(v, s, Returns(NullPtr, TRUE))

\* CalloutHandle.setArgument("response", v) and ("lease4", v).
SetArgument(v, s) == Convert(v, s, Raises(s))
SetLease(v, s) == IF v.t = "Lease4" THEN Returns(v, FALSE) ELSE Raises(s)

\* Lease4.setContext stores the null pointer and returns.
SetContext(v, s) == Convert(v, s, Returns(NullPtr, TRUE))

\* The parsers give the null pointer to Kea, which uses it.  Kea refuses
\* what is no map, and maps that do not say what they should.
Parse(v, s) == LET r == Convert(v, s, Dies(s))
               IN IF r.end # "returns" THEN {r}
                  ELSE {Raises(s)} \cup {o \in {r} : o.stored.t = "map"}

\* A host is parsed with the number of its subnet.
ParseHost(v, s) ==
  LET id == ToUnsigned(v.id, 4)
  IN {IF o.end = "returns" THEN [o EXCEPT !.stored = HostOf(id, @)] ELSE o :
        o \in Parse(v.config, s)}

\* Numbers.  A bool is an int; PyLong_AsLong answers -1 beyond a C long.
IsNumber(v) == v.t \in {"int", "bool"}
Number(v) == CASE v.t = "int" -> v.int [] v.t = "bool" -> IF v.bool THEN 1 ELSE 0
AsLong(n) == IF n \in Long THEN n ELSE -1

\* Mutation: the attribute is as wide as what Python passes.
SetNumberWide(v, s) ==
  IF ~IsNumber(v) THEN Raises(s)
  ELSE Returns(Integer(AsLong(Number(v))), Number(v) \notin Long)

\* Lease4.valid_lft, subnet_id and state are 32 bits wide, cltt is 64.
SetNumber(v, s) ==
  IF ~IsNumber(v) THEN Raises(s)
  ELSE Returns(Integer(ToUnsigned(AsLong(Number(v)), 4)), Number(v) \notin Long)
SetCltt(v, s) ==
  IF ~IsNumber(v) THEN Raises(s)
  ELSE Returns(Integer(AsLong(Number(v))), Number(v) \notin Long)

SetFlag(v, s) == IF v.t = "bool" THEN Returns(Boolean(v.bool), FALSE) ELSE Raises(s)

\* The formats of PyArg_ParseTuple: "i" and "b" refuse what does not fit,
\* "H" and "k" mask it; a subnet id is then narrowed to 32 bits.
InRange(v, s, range) == IF IsNumber(v) /\ Number(v) \in range
                        THEN Returns(Integer(Number(v)), FALSE) ELSE Raises(s)
Masked(v, s, bytes) == IF IsNumber(v)
                       THEN Returns(Integer(ToUnsigned(Number(v), bytes)), FALSE)
                       ELSE Raises(s)
SetStatus(v, s) == InRange(v, s, Signed(4))
SetType(v, s) == InRange(v, s, Unsigned(1))
SetFlags(v, s) == Masked(v, s, 2)
WipeLeases4(v, s) == Masked(v, s, 4)

\* Texts.  Kea stores an address as it is written and hexadecimal digits in
\* lower case; it throws for any other text.
Lower(s) == [i \in DOMAIN s |-> IF s[i] = "A" THEN "a" ELSE s[i]]
Over(s, chars) == s # <<>> /\ ToSet(s) \subseteq chars
StoreAddress(s, old) == IF Over(s, {"1"}) THEN Returns(String(s), FALSE)
                        ELSE Raises(old)
StoreHex(s, old) == IF Over(s, {"1", "a", "A"}) THEN Returns(String(Lower(s)), FALSE)
                    ELSE Raises(old)

\* An attribute takes the text up to a NUL, and std::string of the NULL of a
\* lone surrogate throws; assigning that NULL to a std::string does not.
IsText(v) == v.t = "str" /\ Encodable(v.str)
SetAddr(v, s) == IF IsText(v) THEN StoreAddress(Cut(v.str), s) ELSE Raises(s)
SetHWAddr(v, s) == IF IsText(v) THEN StoreHex(Cut(v.str), s) ELSE Raises(s)
SetClientId(v, s) == IF v = None THEN Returns(NullPtr, FALSE)
                     ELSE IF IsText(v) THEN StoreHex(Cut(v.str), s) ELSE Raises(s)
SetHostname(v, s) ==
  CASE v = None -> Returns(String(<<>>), FALSE)
    [] v.t = "str" -> IF Encodable(v.str)
                      THEN Returns(String(Lower(Cut(v.str))), FALSE) ELSE Dies(s)
    [] OTHER -> Raises(s)

\* The format "s" refuses a NUL, "s#" does not.
IsCString(v) == IsText(v) /\ "nul" \notin ToSet(v.str)
SetPktAddr(v, s) == IF IsCString(v) THEN StoreAddress(v.str, s) ELSE Raises(s)
SetPktHWAddr(v, s) == IF IsCString(v) THEN StoreHex(v.str, s) ELSE Raises(s)
SetString(v, s) == IF IsText(v) THEN Returns(String(v.str), FALSE) ELSE Raises(s)

\* The data of an option.  A number is stored in network order.
BigEndian(n, bytes) == [i \in 1 .. bytes |-> (n \div Values(bytes - i)) % Base]
FromBytes(b, bytes) ==
  CASE bytes = 1 -> b[1]
    [] bytes = 2 -> b[1] * Base + b[2]
    [] bytes = 4 -> ((b[1] * Base + b[2]) * Base + b[3]) * Base + b[4]
SetUint(call, v, s) ==
  LET r == IF call = "Uint8" THEN InRange(v, s, Unsigned(1)) ELSE Masked(v, s, Width[call])
  IN IF r.end = "raises" THEN r
     ELSE Returns(Bytes(BigEndian(r.stored.int, Width[call])), FALSE)
SetBytes(v, s) == IF v.t = "bytes" THEN Returns(Bytes(v.bytes), FALSE) ELSE Raises(s)

\* What a call may make of value v when field f is s.
Outcomes(f, call, v, s) ==
  CASE f = "response"             -> {SetArgument(v, s)}
    [] f = "lease4"               -> {SetLease(v, s)}
    [] f = "context"              -> {SetContext(v, s)}
    [] f \in {"class", "subnet4"} -> Parse(v, s)
    [] f = "host"                 -> ParseHost(v, s)
    [] f = "status"               -> {SetStatus(v, s)}
    [] f = "type"                 -> {SetType(v, s)}
    [] f = "flags"                -> {SetFlags(v, s)}
    [] f = "wiped"                -> {WipeLeases4(v, s)}
    [] f = "valid_lft"            -> {SetNumber(v, s)}
    [] f = "cltt"                 -> {SetCltt(v, s)}
    [] f = "fqdn_fwd"             -> {SetFlag(v, s)}
    [] f = "addr"                 -> {SetAddr(v, s)}
    [] f = "hostname"             -> {SetHostname(v, s)}
    [] f = "hwaddr"               -> {SetHWAddr(v, s)}
    [] f = "client_id"            -> {SetClientId(v, s)}
    [] f = "ciaddr"               -> {SetPktAddr(v, s)}
    [] f = "chaddr"               -> {SetPktHWAddr(v, s)}
    [] f = "text"                 -> {SetString(v, s)}
    [] f = "option"               -> {IF call = "Bytes" THEN SetBytes(v, s) ELSE SetUint(call, v, s)}

-----------------------------------------------------------------------------
(* The getters: the Python value, or NoObject and an exception.            *)
GetUint(s, bytes) == IF Len(s.bytes) < bytes THEN NoObject
                     ELSE PyInt(FromBytes(s.bytes, bytes))
GetString(s) == IF Decodable(s.str) THEN PyStr(s.str) ELSE NoObject
GetHostname(s) == IF s.str = <<>> THEN None ELSE FromString(s.str)
ToElement(s) == IF s = NullPtr THEN NoObject ELSE Scalar(s)

\* The other getters show a null pointer as None and cut a text at a NUL.
Read(f, getter, s) ==
  CASE f \in {"response", "context"} -> element_to_object[s]
    [] f = "lease4"     -> s
    [] f = "option"     -> IF getter = "Bytes" THEN s ELSE GetUint(s, Width[getter])
    [] f = "text"       -> GetString(s)
    [] f = "hostname"   -> GetHostname(s)
    [] getter = "toElement" -> ToElement(s)
    [] OTHER                -> Scalar(s)

-----------------------------------------------------------------------------
\* What Kea may have put into field f before Python sees it.
KeaGives(f) ==
  CASE f = "response" -> KeaElements
    [] f = "context" -> KeaElements \cup {NullPtr}
    [] f = "lease4" -> {Lease4("kea")}
    [] f \in Parsed -> {NullPtr}
    [] f = "fqdn_fwd" -> {Boolean(FALSE)}
    [] f = "option" -> {Bytes(b) : b \in Blobs}
    [] f \in {"hostname", "text"} -> {String(s) : s \in KeaStrings}
    [] f \in {"addr", "ciaddr", "chaddr"} -> {String(<<"1">>)}
    [] f \in {"hwaddr", "client_id"} -> {String(<<"1">>), NullPtr}
    [] OTHER -> {Integer(0)}

\* What a program may pass for f; values of a wrong type among them.
Offered(f, call) ==
  CASE f \in {"response", "context", "class", "subnet4"} -> Objects
    [] f = "host" -> {HostOf(n, PyDict(<<>>)) : n \in Numbers}
                     \cup {HostOf(n, Object) : n \in Numbers}
    [] f = "lease4" -> {Lease4("kea"), Lease4("hook"), None}
    [] f = "fqdn_fwd" -> {PyBool(TRUE), PyBool(FALSE), PyInt(1), Deleted}
    [] call = "Bytes" -> {Bytes(b) : b \in Blobs} \cup {PyStr(s) : s \in Strings}
    [] f \in {"hostname", "addr", "hwaddr", "client_id", "ciaddr", "chaddr", "text"} ->
         {PyStr(s) : s \in Strings} \cup {None, PyInt(1)}
         \cup (IF f \in Attributes THEN {Deleted} ELSE {})
    [] OTHER -> {PyInt(n) : n \in Numbers} \cup {PyBool(TRUE), None}
                \cup (IF f \in Attributes THEN {Deleted} ELSE {})

Init ==
  /\ field \in Fields
  /\ phase = "kea"
  /\ stored \in KeaGives(field)
  /\ pending = FALSE
  /\ exc = "none"
  /\ wrong = FALSE
  /\ last = Nothing
  /\ heard = Unheard

\* The binding calls the Python callout, for the same packet or a new one.
Enter ==
  /\ phase = "kea"
  /\ phase' = "python"
  /\ stored' \in {stored} \cup KeaGives(field)
  /\ wrong' = FALSE
  /\ last' = Nothing
  /\ heard' = Unheard
  /\ UNCHANGED <<field, pending, exc>>

Running == phase = "python" /\ exc = "none"

\* An exception starts: the error indicator becomes Python's exception.
Throw(text) == exc' = text /\ pending' = FALSE /\ wrong' = FALSE

-----------------------------------------------------------------------------
(* The reference: what a getter shows after v was set.  The bytes of a     *)
(* number are the leading ones when fewer are read than were set.          *)
Wraps(n, bytes, w) == /\ w.t = "int" /\ w.int \in Unsigned(bytes)
                      /\ (n - w.int) % Values(bytes) = 0

ShowsOption(call, v, getter, w) ==
  IF call = "Bytes"
  THEN CASE getter = "Bytes" -> w = v
         [] getter # "Bytes" /\ Width[getter] > Len(v.bytes) -> w = NoObject
         [] OTHER -> w.t = "int" /\ BigEndian(w.int, Width[getter])
                                    = SubSeq(v.bytes, 1, Width[getter])
  ELSE CASE getter = "Bytes" ->
              /\ Len(w.bytes) = Width[call]
              /\ Wraps(Number(v), Width[call], PyInt(FromBytes(w.bytes, Width[call])))
         [] getter # "Bytes" /\ Width[getter] > Width[call] -> w = NoObject
         [] OTHER -> \E n \in Unsigned(Width[call]) :
                       /\ Wraps(Number(v), Width[call], PyInt(n))
                       /\ w = PyInt(n \div Values(Width[call] - Width[getter]))

Shows(f, call, v, getter, w) ==
  CASE f \in {"response", "context"} -> w \in Readings[v]
    [] f \in {"valid_lft", "wiped"} -> Wraps(Number(v), 4, w)
    [] f = "flags" -> Wraps(Number(v), 2, w)
    [] f \in {"status", "type", "cltt"} -> w = PyInt(Number(v))
    [] f = "option" -> ShowsOption(call, v, getter, w)
    [] f \in {"addr", "ciaddr"} -> w.t = "str" /\ CutsTo(v.str, w.str)
    [] f \in {"hostname", "hwaddr", "chaddr", "client_id"} ->
         IF v = None THEN w = None
         ELSE LET s == IF w = None THEN <<>> ELSE w.str
              IN "A" \notin ToSet(s) /\ CutsTo(Lower(v.str), s)
    [] OTHER -> w = v

Faithful(f, call, v, s) == \A getter \in Getters(f) : Shows(f, call, v, getter, Read(f, getter, s))

-----------------------------------------------------------------------------
\* With an error pending, PyArg_ParseTuple may take a number that reads as -1 for
\* one that it could not convert.
Mistaken(v) == IF pending /\ field \in Methods /\ IsNumber(v) THEN {Raises(stored)} ELSE {}

\* A setter, a setArgument or setContext, a wipeLeases4 or a parse.
Set(call, v) ==
  /\ Running
  /\ v \in Offered(field, call)
  /\ \E o \in Outcomes(field, call, v, stored) \cup Mistaken(v) :
       LET failed == pending \/ o.error
           raised == o.end = "raises"
                     \/ (o.end = "returns" /\ failed /\ field \in Methods)
       IN /\ stored' = IF raised /\ field \in Results THEN stored ELSE o.stored
          /\ phase' = IF o.end = "dies" THEN "dead" ELSE "python"
          /\ last' = [call |-> call, given |-> v, raised |-> raised,
                      clean |-> ~pending, error |-> o.error,
                      changed |-> stored' # stored]
          /\ IF raised THEN Throw("plain")
             ELSE /\ pending' = failed
                  /\ wrong' = (wrong \/ (o.end = "returns" /\ ~Faithful(field, call, v, o.stored)))
                  /\ UNCHANGED exc
  /\ UNCHANGED <<field, heard>>

\* An attribute of another object is given an int beyond a C long: the setter
\* stores -1 and returns 0.
SetElsewhere ==
  /\ Running
  /\ pending' = TRUE
  /\ wrong' = TRUE
  /\ UNCHANGED <<field, phase, stored, exc, last, heard>>

\* A getter shows a value, or fails with an exception of its own.
Get(getter) ==
  /\ Running
  /\ IF Read(field, getter, stored) = NoObject THEN Throw("plain")
     ELSE UNCHANGED <<pending, exc, wrong>>
  /\ UNCHANGED <<field, phase, stored, last, heard>>

\* A pending error surfaces in some later operation of the interpreter.
Surface ==
  /\ Running
  /\ pending
  /\ Throw("plain")
  /\ UNCHANGED <<field, phase, stored, last, heard>>

\* Python code raises an exception of its own, replacing what is pending.
Raise(text) ==
  /\ Running
  /\ Throw(text)
  /\ UNCHANGED <<field, phase, stored, last, heard>>

\* An except clause.
Handle ==
  /\ phase = "python"
  /\ exc # "none"
  /\ exc' = "none"
  /\ UNCHANGED <<field, phase, stored, pending, wrong, last, heard>>

Ends(how, status, v, error) ==
  /\ phase' = "kea"
  /\ exc' = "none"
  /\ pending' = error
  /\ heard' = [how |-> how, status |-> status, gave |-> v]
  /\ UNCHANGED <<field, stored, wrong, last>>

\* Mutation: the error indicator is cleared before the result is looked at.
ReturnClears(v) ==
  /\ Running
  /\ IF v.t # "int" THEN Ends("result", 1, v, FALSE)
     ELSE Ends("result", ToSigned(AsLong(v.int), 4), v, v.int \notin Long)

\* The callout returns.  The call machinery turns a result with a pending
\* error into SystemError; the binding wants an exact int.
Return(v) ==
  /\ Running
  /\ IF pending \/ v.t # "int" THEN Ends("result", 1, v, FALSE)
     ELSE Ends("result", ToSigned(AsLong(v.int), 4), v, v.int \notin Long)

\* The callout lets an exception out, and log_python_traceback logs and
\* clears it; it throws through the binding when the text has no UTF-8 form.
Propagate ==
  /\ phase = "python"
  /\ exc # "none"
  /\ IF exc = "lone" THEN Ends("threw", 0, None, TRUE) ELSE Ends("result", 1, None, FALSE)

\* Kea was aborted and is started again.
Restart ==
  /\ phase = "dead"
  /\ phase' = "kea"
  /\ stored' \in KeaGives(field)
  /\ pending' = FALSE
  /\ wrong' = FALSE
  /\ last' = Nothing
  /\ UNCHANGED <<field, exc, heard>>

Next ==
  \/ Enter
  \/ \E call \in Setters(field) : \E v \in Offered(field, call) : Set(call, v)
  \/ SetElsewhere
  \/ \E getter \in Getters(field) : Get(getter)
  \/ Surface
  \/ \E text \in {"plain", "lone"} : Raise(text)
  \/ Handle
  \/ \E n \in Numbers : Return(PyInt(n))
  \/ \E v \in {None, PyBool(TRUE)} : Return(v)
  \/ Propagate
  \/ Restart

Spec == Init /\ [][Next]_vars

-----------------------------------------------------------------------------
\* Each field keeps what its C++ type can hold.
InType(f, x) ==
  CASE f \in {"valid_lft", "wiped"} -> x.int \in Unsigned(4)
    [] f = "cltt" -> x.int \in Long
    [] f = "status" -> x.int \in Signed(4)
    [] f = "type" -> x.int \in Unsigned(1)
    [] f = "flags" -> x.int \in Unsigned(2)
    [] f = "option" -> x.bytes \in Seq(Unsigned(1))
    [] f = "fqdn_fwd" -> x.bool \in BOOLEAN
    [] f \in {"addr", "hostname", "ciaddr", "chaddr", "text"} -> x.t = "string"
    [] f \in {"hwaddr", "client_id"} -> x = NullPtr \/ "A" \notin ToSet(x.str)
    [] f = "host" -> x = NullPtr \/ x.id \in Unsigned(4)
    [] OTHER -> x.t \notin {"thrown", "NULL"}

TypeOK ==
  /\ field \in Fields
  /\ phase \in {"kea", "python", "dead"}
  /\ pending \in BOOLEAN /\ wrong \in BOOLEAN
  /\ exc \in {"none", "plain", "lone"}
  /\ exc # "none" => phase = "python" /\ ~pending
  /\ heard.status \in Signed(4)
  /\ InType(field, stored)

\* What a call of the module took without an error is what every getter of
\* the field shows: a list, dict or string up to its NULs, a number modulo
\* the width the code masks it to (utils.cc, lease4.cc, option.cc, pkt4.cc).
ReadsBack ==
  phase = "python" /\ last.call # "none" /\ ~last.raised /\ ~last.error
    => Faithful(field, last.call, last.given, stored)

\* A call that raises changes nothing, with three exceptions: setContext has
\* removed the context for a value with no element (lease4.cc:21); -1 is stored
\* for an int beyond a C long (utils.cc:168); and a method that is called with
\* an error pending, left by an attribute (lease4.cc:126) or by the result of an
\* earlier callout (callout_closure.cc:38), may do all that it was asked before
\* it raises, though never a part of it.  No call aborts the server but the setter of a
\* hostname (lease4.cc:215) and a parser (subnet4_config_parser.cc:19).
RefusedChangesNothing ==
  /\ last.raised /\ last.changed =>
       \/ /\ field \in {"response", "context", "class"}
          /\ LET r == object_to_element[last.given]
             IN r.error /\ (Fails(r) => field = "context" /\ stored = NullPtr)
       \/ /\ ~last.clean
          /\ field \in Methods \ Results
          /\ Faithful(field, last.call, last.given, stored)
  /\ phase = "dead" =>
       \/ field = "hostname" /\ ~Encodable(last.given.str)
       \/ field \in Parsed /\
            LET config == IF field = "host" THEN last.given.config ELSE last.given
            IN object_to_element[config].element = NullPtr

\* A call that stored something else than it was given, and that no exception
\* told Python of, makes the callout fail: Kea hears success only of a
\* callout without such a call that returned 0, or a multiple of the width of
\* an int.  The next callout finds an error pending only after a result
\* beyond a C long or a traceback that threw (callout_closure.cc:38, errors.cc:93).
ErrorsReachKea ==
  /\ heard.how = "result" /\ heard.status = 0 =>
       /\ ~wrong
       /\ heard.gave.t = "int" /\ ToUnsigned(heard.gave.int, 4) = 0
  /\ phase = "kea" /\ pending =>
       heard.how = "threw" \/ (heard.gave.t = "int" /\ heard.gave.int \notin Long)
===============================================================================
