----------------------------- MODULE MCDataStore -----------------------------
(***************************************************************************)
(* One emulator that sends lines for every tab: in range, at the last      *)
(* index, past it, without the address, more keys than the tables have     *)
(* room for, values longer than the parser keeps, and lines that are no    *)
(* messages.                                                               *)
(***************************************************************************)
EXTENDS Tabs

CONSTANTS v1, v2, v3, b1, b2

Str(x) == [type |-> "string", of |-> x]
Num(n) == [type |-> "number", of |-> n]

(* A line with the members that are always there and the optional ones;    *)
(* width is that of the bytes in its value.                                *)
Line(cat, sec, fld, val, bytes, width, opt) ==
  [emu |-> Str(v1), cat |-> Str(cat), sec |-> Str(sec), fld |-> Str(fld),
   val |-> Str([text |-> val, bytes |-> bytes, width |-> width])] @@ opt
Text(cat, sec, fld, val, opt) == Line(cat, sec, fld, val, <<>>, 2, opt)

None == <<>>
Idx(i) == [idx |-> Num(i)]
IdxText(i) == [idx |-> Str(i)]
Addr(a) == [addr |-> Str(a)]

CpuLines ==
  {Text("cpu", "reg", "pc", v, None) : v \in {v1, v2}}
    \union {[Text("cpu", "reg", "af", v1, None) EXCEPT !["emu"] = Str(v2)],
            Text("cpu", "state", "type", v1, None),
            Text("cpu", "stack", "sp", v1, None),
            Text("cpu", "stack", "sp", v3, None),
            Text("cpu", "stack", "val", v1, IdxText(1)),
            Text("cpu", "stack", "val", v1, IdxText(2)),
            Text("cpu", "stack", "val", v1, Idx(3))}

IoLines ==
  {Text("io", "ann", "state", v, IdxText(1)) : v \in {v1, v2}}
    \union {Text("io", "ann", "state", v1, Idx(2)),
            Text("io", "port", "read", v1, Addr(2))}

(* The last dump has a byte more than the parser keeps; an address that is *)
(* not a string is no address.                                             *)
MemLines ==
  {Line("mem", "zp", "data", v1, <<b1, b2>>, 3, Addr(a)) : a \in {1, 2}}
    \union {Line("mem", "stackpage", "data", v1, <<b1>>, 3, Addr(2)),
            Text("mem", "flag", "f1", v1, None),
            Text("mem", "flag", "f1", v2, None),
            Text("mem", "flag", "f2", v1, None),
            Text("mem", "text", "row", v1, IdxText(0)),
            Text("mem", "text", "row", v1, Idx(1)),
            Line("mem", "dump", "data", v1, <<b1, b2, b2>>, 2, Addr(1)),
            Line("mem", "dump", "data", v1, <<b1>>, 2, [addr |-> Num(1)]),
            Line("mem", "read", "byte", v1, <<b1>>, 2, Addr(1))}

OtherLines ==
  {Text("sys", "conn", "hello", v1, [ver |-> Str(v1)]),
   Text("sys", "conn", "goodbye", v1, None),
   Text("mach", "video", "mode", v1, None),
   Text("dbg", "disasm", "line", v1, Addr(1) @@ IdxText(1)),
   Text("dbg", "disasm", "line", v1, IdxText(1)),
   Text("dbg", "disasm", "line", v1, IdxText(2)),
   Text("ext", "conn", "hello", v1, None)}

(* Not JSON, a member too few, a value that is no string.                  *)
BadLines ==
  {None, [emu |-> Str(v1), cat |-> Str("sys")],
   [Text("cpu", "reg", "pc", v1, None) EXCEPT !["val"] = Num(1)]}

MCJsonLines == CpuLines \union IoLines \union MemLines \union OtherLines \union BadLines
MCVals == {v1, v2, v3}
(* v3 is too long for the fields of the stack; the numbers are 1, 256 and  *)
(* none.                                                                   *)
MCCut ==
  [n \in FieldSizes |-> [v \in MCVals |-> IF v = v3 /\ n = 8 THEN v1 ELSE v]]
MCAtoi == (v1 :> 1) @@ (v2 :> 256) @@ (v3 :> 0)
MCBytes == {b1, b2}
MCStarts == {1}
MCLocs == 0..2
(* One and five rows of the IO list, one of them with annunciators; the    *)
(* rest around the sizes at which stack, disassembly and flags appear.     *)
MCTabHeights == {4, 8, 16, 21, 22, 23, 25, 26, 27, 28, 31}
MCSecs == {<<l.sec.of, l.fld.of>> : l \in IoLines}
==============================================================================
