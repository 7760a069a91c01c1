--------------------------- MODULE MCPublishing ---------------------------
(***************************************************************************)
(* Every class of the repository, and every generated class of up to three *)
(* members of these kinds; lengths around the sizes of the two buffers.    *)
(***************************************************************************)
EXTENDS Publishing

Names == <<"a", "b", "c">>

Members(name) ==
  {Plain(type, name) : type \in {"uint8", "uint16", "float32", "float64", "string"}}
    \cup {MsgDef("uint16", FALSE, 3, name), MsgDef("float64", FALSE, 2, name),
          MsgDef("uint8", TRUE, 0, name), MsgDef("uint16", TRUE, 0, name),
          MsgDef("float64", TRUE, 0, name), MsgDef("string", TRUE, 0, name)}

GeneratedClasses ==
  {Generated("Generated", m) : m \in
     {<<x, y, z>> : x \in Members("a"), y \in Members("b"), z \in Members("c")}
       \cup {<<x, Plain("header", "frame_id"), z>> : x \in Members("a"), z \in Members("c")}}

AllClasses ==
  FixedClasses \cup GeneratedClasses \cup {StringClass, HeaderClass, Image}

\* The members take lengths one apart, so that one choice reaches every residue.
GeneratedValue(members, n) ==
  [name \in {f.name : f \in Range(members)} |->
     LET i == CHOOSE k \in DOMAIN members : members[k].name = name
     IN  IF members[i].kind = "strings" THEN [k \in 1 .. (n + i) % 3 |-> n + k]
         ELSE (n + i) % 4]

StringLengths == {0, 1, 55, 56, 57, 91, 92, 93, 119, 120, 121, 184, 185}

AllValues(c) ==
  CASE c = StringClass -> {[data |-> n] : n \in StringLengths}
    [] c = HeaderClass -> {[frame_id |-> n] : n \in {0, 3, 4, 84}}
    [] c = Image -> [frame_id : {3, 20, 45}, encoding : {3, 4}, data : {2, 61, 130}]
    [] c \in GeneratedClasses -> {GeneratedValue(c.writes, n) : n \in 0 .. 1}
    [] OTHER -> {<<>>}

\* The theorem about the fragments assumes this of the classes and their values.
ASSUME GrowthAssumption == OnlyStringsAndImagesGrow
=============================================================================
