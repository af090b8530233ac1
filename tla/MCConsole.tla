------------------------------ MODULE MCConsole ------------------------------
(* Console with short buffers and every format of up to two items.        *)
EXTENDS Console

MCItems ==
    {Text("literal", <<"a">>), Text("literal", <<"\n">>), Text("%", <<"%">>),
     Text("s", <<>>), Text("s", <<"b", "\n", "c", "\n">>), Text("s", <<"b", "c", "d", "e", "f">>),
     Text("unknown", <<"%", "q">>),
     Number("d", -7, 0, FALSE), Number("d", 120, 0, FALSE), Number("u", 0, 2, TRUE),
     Number("x", 2748, 3, FALSE), Number("x", 31, 3, TRUE), Number("u", 5, 6, FALSE)}
MCFormats == UNION {[1 .. n -> MCItems] : n \in 0 .. 2}
==============================================================================
