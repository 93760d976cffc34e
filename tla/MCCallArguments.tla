--------------------------- MODULE MCCallArguments ---------------------------
(***************************************************************************)
(* An instance of CallArguments whose bytes have two values, so that 32    *)
(* bits become 4 and 64 bits become 8 and every width has numbers beyond.  *)
(***************************************************************************)
EXTENDS CallArguments

MCNumbers == {-129, -16, -1, 0, 1, 2, 5, 16, 21, 128, 256}

MCStrings == {<<>>, <<"1">>, <<"A">>, <<"A", "nul", "1">>, <<"nul", "a">>, <<"lone">>}

MCKeaStrings == {<<>>, <<"a">>, <<"bad">>, <<"a", "nul", "bad">>}

MCBlobs == {<<>>, <<1>>, <<1, 0>>, <<0, 1, 1, 0, 1>>}

Plain == {None, PyBool(TRUE), PyInt(1), PyInt(-1), PyInt(128), Float, Object}
         \cup {PyStr(s) : s \in MCStrings}

Items == {<<PyStr(<<"a">>), PyInt(1)>>, <<PyStr(<<"a", "nul", "1">>), PyInt(5)>>,
          <<PyStr(<<"lone">>), None>>, <<PyInt(1), None>>, <<PyStr(<<>>), Object>>,
          <<PyStr(<<"A">>), PyInt(128)>>,
          <<PyStr(<<"1">>), PyList(<<PyBool(TRUE), PyStr(<<"A", "nul">>)>>)>>}

\* The second of two items: its key may equal the first one's once cut, or its
\* value may fail.
Seconds == {<<PyStr(<<"a">>), PyInt(1)>>, <<PyStr(<<"a", "nul", "1">>), PyInt(5)>>,
            <<PyStr(<<>>), Object>>}

Offers ==
  Plain
  \cup {PyList(l) : l \in {<<>>} \cup
          (({PyInt(1), PyInt(128), Object, PyStr(<<"lone">>)}) \X {None, PyInt(-129), Object})}
  \cup {PyDict(d) : d \in {<<>>} \cup {<<i>> : i \in Items}
                          \cup {d \in Items \X Seconds : d[1] # d[2]}}

MCKeaElements ==
  {NullPtr, Null, Integer(1), String(<<"bad">>), List(<<Real, [t |-> "bigint"]>>),
   Map(<<"a">> :> List(<<String(<<"bad">>)>>)), Map(<<"bad">> :> Null)}

\* Objects and elements with their parts, nested at most twice.
WithParts(vs) == vs \cup UNION {Parts(v) : v \in vs}
MCObjects == WithParts(WithParts(Offers))
MCJSON ==
  WithParts(WithParts(MCKeaElements))
  \cup {r.element : r \in {c \in {object_to_element[v] : v \in MCObjects} : ~Fails(c)}}
MCDepth == [v \in MCObjects \cup MCJSON |->
             CASE Parts(v) = {} -> 0
               [] Parts(v) # {} /\ \A p \in Parts(v) : Parts(p) = {} -> 1
               [] OTHER -> 2]
===============================================================================
