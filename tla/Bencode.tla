------------------------------ MODULE Bencode ------------------------------
(***************************************************************************)
(* bencode/object.rs.  Encoded data is a sequence of tokens rather than of *)
(* bytes: an integer <<"i", n>>, a string <<"s", content>>, and "l", "d"   *)
(* and "e".  The content of a string is a sequence of cells, see Messages. *)
(*                                                                         *)
(* What is encoded is put together of the encodings of its parts.  What is *)
(* decoded is a record with its type t and its value v; the value of a     *)
(* dictionary is a function on the contents of its keys.  An Option is the *)
(* set of what it holds.                                                   *)
(***************************************************************************)
EXTENDS Integers, Sequences

Open(c) == <<c, << >>>>
Close == <<"e", << >>>>

-----------------------------------------------------------------------------
(* encode_to.  The entries of a dictionary are one after the other in the  *)
(* order of their keys, as a BTreeMap has them.                            *)

Num(n) == << <<"i", n>> >>
Str(s) == << <<"s", s>> >>
List(items) == <<Open("l")>> \o items \o <<Close>>
Dict(entries) == <<Open("d")>> \o entries \o <<Close>>

-----------------------------------------------------------------------------
(* decode, a token at a time.  A state is what is being read, in `outer`   *)
(* what that is part of: the calls under way of the recursive functions.   *)

Obj(type, v) == [t |-> type, v |-> v]

Start == [t |-> "start"]
Failed == [t |-> "failed"]
Begun(type, st) == [t |-> type, v |-> << >>, outer |-> st]

\* In a dictionary, a key has been read.
Keyed(st, key) == [t |-> "entry", v |-> st.v, outer |-> st.outer, key |-> key]

\* BTreeMap::insert: the last of two entries with one key stays.
Insert(map, key, o) == [k \in DOMAIN map \cup {key} |-> IF k = key THEN o ELSE map[k]]

\* An object is complete, and goes to what it is part of.
Put(st, o) ==
    CASE st.t = "start" -> [t |-> "done", v |-> o]
      [] st.t = "list"  -> [t |-> "list", v |-> Append(st.v, o), outer |-> st.outer]
      [] st.t = "entry" -> [t |-> "dict", v |-> Insert(st.v, st.key, o), outer |-> st.outer]

\* Nothing is read after the object, or after what is none; keys are strings.
Read(st, token) ==
    CASE st.t \in {"done", "failed"} -> st
      [] token[1] = "e" /\ st.t \in {"list", "dict"} -> Put(st.outer, Obj(st.t, st.v))
      [] token[1] = "s" /\ st.t = "dict" -> Keyed(st, token[2])
      [] token[1] = "i" /\ st.t \in {"start", "list", "entry"} -> Put(st, Obj("int", token[2]))
      [] token[1] = "s" /\ st.t \in {"start", "list", "entry"} -> Put(st, Obj("str", token[2]))
      [] token[1] = "l" /\ st.t \in {"start", "list", "entry"} -> Begun("list", st)
      [] token[1] = "d" /\ st.t \in {"start", "list", "entry"} -> Begun("dict", st)
      [] OTHER -> Failed

ReadAll(st, tokens) ==
    LET after[n \in 0..Len(tokens)] == IF n = 0 THEN st ELSE Read(after[n - 1], tokens[n])
    IN  after[Len(tokens)]

\* parse: what is left of the input does not matter.
Decode(tokens) ==
    LET st == ReadAll(Start, tokens)
    IN  IF st.t = "done" THEN {st.v} ELSE {}

-----------------------------------------------------------------------------
(* Access: nothing unless the object is of the type and has the key.       *)

As(type, objs) == {o.v : o \in {x \in objs : x.t = type}}

Get(objs, key) == {o.v[key] : o \in {x \in objs : x.t = "dict" /\ key \in DOMAIN x.v}}
=============================================================================
