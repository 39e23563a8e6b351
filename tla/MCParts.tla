------------------------------ MODULE MCParts ------------------------------
(***************************************************************************)
(* The parts of the system that share no state, for TLC: a behaviour picks *)
(* one part at the start and runs the operations of that part alone.       *)
(***************************************************************************)
EXTENDS List, Index, Heap, Signals, Dispatch, Serial, Ecc, Flash, Events, Text, Streams, Unwind,
        Objects, XmlNode

VARIABLE part           \* the part this behaviour runs

GroupSizes == [k \in {"list", "index"} |-> IF k = "list" THEN 3 ELSE 2]
Places == {<<50, 10>>, <<91, 10>>}
SomeTexts == {[i \in 1..n |-> (77 * i + n) % 256] : n \in {2, 7}}

(* A, bä, 1e, -1, a and the first point of three bytes, .A *)
SomeWords == {<<65>>, <<98, 228>>, <<49, 101>>, <<45, 49>>, <<97, 2048>>, <<46, 65>>}
SomeFinds == {<<97>>, <<65, 98>>, <<228>>}
Num(n) == [kind |-> "int", value |-> n]
Str(s) == [kind |-> "str", value |-> s]
SomeFormats ==
  {[format |-> <<37, 117, 59, 37, 105>>, args |-> <<Num(0), Num(305)>>],                \* %u;%i
   [format |-> <<37, 48, 52, 117, 58, 37, 51, 117>>, args |-> <<Num(7), Num(12)>>],       \* %04u:%3u
   [format |-> <<37, 115, 59, 37, 45, 54, 117>>, args |-> <<Str(<<195, 164>>), Num(12)>>], \* %s;%-6u
   [format |-> <<37, 35, 48, 54, 120, 44, 37, 99, 37, 37>>, args |-> <<Num(24), Num(65)>>], \* %#06x,%c%%
   [format |-> <<37, 104, 115, 59, 37, 108, 99>>, args |-> <<Str(<<66>>), Num(98)>>]}    \* %hs;%lc

(* Numbers, texts and what a compiler encoded; 16384 does not fit in two groups. *)
SomeItems ==
  {[kind |-> "unsigned", size |-> 1, value |-> 127], [kind |-> "unsigned", size |-> 4, value |-> 300],
   [kind |-> "unsigned", size |-> 2, value |-> 16384],
   [kind |-> "signed", size |-> 4, value |-> 200], [kind |-> "signed", size |-> 4, value |-> -5],
   [kind |-> "text", points |-> <<32, 228, 32, 66>>, end |-> 44], [kind |-> "text", points |-> <<65>>, end |-> 0],
   [kind |-> "encoded", type |-> "signed", mode |-> "pointer", value |-> -130],
   [kind |-> "encoded", type |-> "short", mode |-> "data", value |-> -3]}
SomeFragments == {<<65>>, <<228, 66>>}

(* Classes as in Exception.h and some with several bases; TaskProc, and     *)
(* functions with locals, with handlers, with both, with a local in a try   *)
(* block, and with one word of locals.                                     *)
Base(class, offset, public) == [class |-> class, offset |-> offset, public |-> public]
SomeClasses ==
  [Exception |-> [kind |-> "class", bases |-> <<>>],
   Abort |-> [kind |-> "si", bases |-> <<Base("Exception", 0, TRUE)>>],
   Status |-> [kind |-> "class", bases |-> <<>>],
   Stream |-> [kind |-> "class", bases |-> <<>>],
   Device |-> [kind |-> "vmi",
               bases |-> <<Base("Status", 4, FALSE), Base("Abort", 0, TRUE), Base("Stream", 2, TRUE)>>],
   Port |-> [kind |-> "si", bases |-> <<Base("Device", 0, TRUE)>>],
   Sheet |-> [kind |-> "vmi", bases |-> <<Base("Stream", 0, TRUE), Base("Abort", 2, TRUE)>>]]
Site(outer, inner, catches) == [outer |-> outer, inner |-> inner, catches |-> catches]
Handler(type, to) == [type |-> type, to |-> to]
SomeFunctions ==
  <<[push |-> {4}, words |-> 0, sites |-> <<Site(<<>>, <<>>, <<>>)>>],
    [push |-> {4, 5}, words |-> 2,
     sites |-> <<Site(<<"task">>, <<>>, <<Handler("Exception", 2), Handler("Status", 2), Handler(ANY, 2)>>),
                 Site(<<"task">>, <<>>, <<>>)>>],
    [push |-> {4, 5, 6}, words |-> 3, sites |-> <<Site(<<>>, <<>>, <<>>), Site(<<"lock", "item">>, <<>>, <<>>)>>],
    [push |-> {4, 6}, words |-> 0,
     sites |-> <<Site(<<>>, <<>>, <<Handler("Abort", 2)>>), Site(<<"copy">>, <<>>, <<>>),
                 Site(<<"x">>, <<"temp">>, <<Handler("Exception", 1), Handler(ANY, 2)>>)>>],
    [push |-> {}, words |-> 4, sites |-> <<Site(<<>>, <<"a">>, <<Handler("Exception", 2)>>), Site(<<>>, <<>>, <<>>)>>],
    [push |-> {4, 5}, words |-> 1, sites |-> <<Site(<<>>, <<>>, <<>>)>>]>>

Parts == {"list", "index", "heap", "signals", "dispatch", "serial", "ecc", "flash", "events", "text", "streams", "unwind",
          "objects", "xml"}
vars == <<part, listVars, indexVars, heapVars, sig, loop, serialVars, ecc, flashVars, ev, text, streamVars, unwind, obj, xml>>

(* The parts a step of one part leaves alone. *)
Others(p) ==
  /\ part = p /\ UNCHANGED part
  /\ p # "list" => UNCHANGED listVars
  /\ p # "index" => UNCHANGED indexVars
  /\ p # "heap" => UNCHANGED heapVars
  /\ p # "signals" => UNCHANGED sig
  /\ p # "dispatch" => UNCHANGED loop
  /\ p # "serial" => UNCHANGED serialVars
  /\ p # "ecc" => UNCHANGED ecc
  /\ p # "flash" => UNCHANGED flashVars
  /\ p # "events" => UNCHANGED ev
  /\ p # "text" => UNCHANGED text
  /\ p # "streams" => UNCHANGED streamVars
  /\ p # "unwind" => UNCHANGED unwind
  /\ p # "objects" => UNCHANGED obj
  /\ p # "xml" => UNCHANGED xml

Init == /\ part \in Parts
        /\ ListInit /\ IndexInit /\ HeapInit /\ SignalsInit /\ DispatchInit
        /\ SerialInit /\ EccInit /\ FlashInit /\ EventsInit /\ TextInit /\ StreamsInit /\ UnwindInit /\ ObjectsInit /\ XmlInit

Next ==
  \/ Others("list") /\ ListNext
  \/ Others("index") /\ IndexNext
  \/ Others("heap") /\ HeapNext
  \/ Others("signals") /\ SignalsNext
  \/ Others("dispatch") /\ DispatchNext
  \/ Others("serial") /\ SerialNext
  \/ Others("ecc") /\ EccNext
  \/ Others("flash") /\ FlashNext
  \/ Others("events") /\ EventsNext
  \/ Others("text") /\ TextNext
  \/ Others("streams") /\ StreamsNext
  \/ Others("unwind") /\ UnwindNext
  \/ Others("objects") /\ ObjectsNext
  \/ Others("xml") /\ XmlNext

Spec == Init /\ [][Next]_vars
=============================================================================
