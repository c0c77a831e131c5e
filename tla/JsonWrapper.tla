----------------------------- MODULE JsonWrapper -----------------------------
(***************************************************************************)
(* The JSON helpers of lib/definition.h that read a server response:      *)
(* json_find_key, json_get_string, json_split_version and                 *)
(* acvp_req_strip_version, json_get_uint/_bool, acvp_req_add_version and  *)
(* json_read_data.  A JSON value is a record of its json-c type, for an  *)
(* object its members, for an array its elements, for an int or boolean *)
(* its value (an int as json_object_get_int sees it: json-c saturates    *)
(* larger numbers to INT32_MIN/INT32_MAX, which the samples include).     *)
(* Return values are the C ints; "out" parameters are fields of the      *)
(* result.  Allocation failures are outcomes where the code tests them.   *)
(***************************************************************************)
EXTENDS Integers, Sequences, TLC

CONSTANTS
    None,          \* a NULL struct json_object *
    Unparsable     \* response text json_tokener_parse cannot parse

ENOENT == 2
ENOMEM == 12
EINVAL == 22
EFAULT == 14
INT_MAX == 2147483647

JObj(members) == [type |-> "object", members |-> members, items |-> <<>>]
JArr(items)   == [type |-> "array", members |-> <<>>, items |-> items]
JScalar(type) == [type |-> type, members |-> <<>>, items |-> <<>>]
JInt(v)       == [type |-> "int", members |-> <<>>, items |-> <<>>, val |-> v]
JBool(b)      == [type |-> "boolean", members |-> <<>>, items |-> <<>>, val |-> b]

\* (uint32_t) of an int32: bit 31 and the low 31 bits (2^32 exceeds TLC's
\* integers, so the value is kept as the pair)
U32(v) == IF v >= 0 THEN <<0, v>> ELSE <<1, v + INT_MAX + 1>>

\* json_object_object_get_ex: FALSE unless obj is an object with the key
ObjectGetEx(obj, name) == obj.type = "object" /\ name \in DOMAIN obj.members

json_find_key(obj, name, type) ==
    IF ~ObjectGetEx(obj, name) THEN [ret |-> -ENOENT, out |-> None]
    ELSE IF obj.members[name].type # type
    THEN [ret |-> -EINVAL, out |-> obj.members[name]]
    ELSE [ret |-> 0, out |-> obj.members[name]]

\* fault variant: only a missing key is an error, a null reads as a string
json_get_string_NullOk(obj, name) ==
    LET f == json_find_key(obj, name, "string")
    IN  IF f.ret = -ENOENT THEN [ret |-> f.ret, outbuf |-> None]
        ELSE [ret |-> 0, outbuf |-> f.out]

json_get_string(obj, name) ==
    LET f == json_find_key(obj, name, "string")
    IN  IF f.ret # 0 THEN [ret |-> f.ret, outbuf |-> None]
        ELSE [ret |-> 0, outbuf |-> f.out]

\* json_object_get_int / json_object_get_boolean on any value: a boolean
\* is 0 or 1, an int its value, a (non-numeric) string or any other value
\* 0; an int is TRUE when not 0, a string when not empty (every string of
\* the model), null, objects and arrays are FALSE
GetInt(o)     == CASE o.type = "int" -> o.val [] o.type = "boolean" -> IF o.val THEN 1 ELSE 0
                   [] OTHER -> 0
GetBoolean(o) == CASE o.type = "boolean" -> o.val [] o.type = "int" -> o.val # 0
                   [] OTHER -> o.type = "string"

\* fault variant: the INT_MAX bound checked with > instead of >=
json_get_uint_GT(obj, name) ==
    LET f == json_find_key(obj, name, "int")
    IN  IF f.ret # 0 THEN [ret |-> f.ret, integer |-> None]
        ELSE IF GetInt(f.out) > INT_MAX THEN [ret |-> -EINVAL, integer |-> None]
        ELSE [ret |-> 0, integer |-> U32(GetInt(f.out))]

json_get_uint(obj, name) ==
    LET f == json_find_key(obj, name, "int")
    IN  IF f.ret # 0 THEN [ret |-> f.ret, integer |-> None]
        ELSE IF GetInt(f.out) >= INT_MAX THEN [ret |-> -EINVAL, integer |-> None]
        ELSE [ret |-> 0, integer |-> U32(GetInt(f.out))]

json_get_bool(obj, name) ==
    LET f == json_find_key(obj, name, "boolean")
    IN  IF f.ret # 0 THEN [ret |-> f.ret, val |-> None]
        ELSE [ret |-> 0, val |-> GetBoolean(f.out)]

(***************************************************************************)
(* acvp_req_add_version: append {"acvVersion": ACVP_VERSION} to the       *)
(* request array.  A failed allocation returns ENOMEM, positive (CKNULL  *)
(* with ENOMEM, not -ENOMEM, at definition.h:620), a failed               *)
(* json_object_object_add or json_object_array_add its -1; the array is   *)
(* then left as it was.                                                   *)
(***************************************************************************)
\* fault variant: the version member under the key "version"
acvp_req_add_version_Key(array) ==
    { [ret |-> ENOMEM, array |-> array], [ret |-> -1, array |-> array],
      [ret |-> 0, array |-> JArr(Append(array.items, JObj("version" :> JScalar("string"))))] }

acvp_req_add_version(array) ==
    { [ret |-> ENOMEM, array |-> array], [ret |-> -1, array |-> array],
      [ret |-> 0, array |-> JArr(Append(array.items, JObj("acvVersion" :> JScalar("string"))))] }

(***************************************************************************)
(* json_split_version: the loop over the response array; an element with  *)
(* "acvVersion" becomes versionobj, any other one inobj (the last wins).  *)
(***************************************************************************)
RECURSIVE SplitLoop(_, _, _)
SplitLoop(items, i, acc) ==
    IF i > Len(items) THEN acc
    ELSE SplitLoop(items, i + 1,
                   IF ObjectGetEx(items[i], "acvVersion")
                   THEN [acc EXCEPT !.versionobj = items[i]]
                   ELSE [acc EXCEPT !.inobj = items[i]])

\* fault variant: the element types are not checked after the loop
json_split_version_NoTypeCheck(full) ==
    IF full = None THEN [ret |-> -EINVAL, inobj |-> None, versionobj |-> None]
    ELSE IF full.type = "array"
    THEN LET s == SplitLoop(full.items, 1, [inobj |-> None, versionobj |-> None])
         IN  IF s.inobj = None \/ s.versionobj = None THEN [ret |-> -EINVAL] @@ s
             ELSE [ret |-> 0] @@ s
    ELSE IF full.type = "object" THEN [ret |-> 0, inobj |-> full, versionobj |-> None]
    ELSE [ret |-> EINVAL, inobj |-> None, versionobj |-> None]

json_split_version(full) ==
    IF full = None THEN [ret |-> -EINVAL, inobj |-> None, versionobj |-> None]
    ELSE IF full.type = "array"
    THEN LET s == SplitLoop(full.items, 1, [inobj |-> None, versionobj |-> None])
         IN  IF s.inobj = None \/ s.versionobj = None
             THEN [ret |-> -EINVAL] @@ s
             ELSE IF s.inobj.type # "object" \/ s.versionobj.type # "object"
             THEN [ret |-> EINVAL] @@ s           \* positive, as written
             ELSE [ret |-> 0] @@ s
    ELSE IF full.type = "object" THEN [ret |-> 0, inobj |-> full, versionobj |-> None]
    ELSE [ret |-> EINVAL, inobj |-> None, versionobj |-> None]

(***************************************************************************)
(* acvp_req_strip_version: a NULL buffer returns 0 and leaves *parsed as   *)
(* the caller set it (NULL in every caller); text json_tokener_parse      *)
(* rejects gives -EINVAL; otherwise the response is split.                *)
(***************************************************************************)
acvp_req_strip_version(buf) ==
    IF buf = None THEN [ret |-> 0, parsed |-> None]
    ELSE IF buf = Unparsable THEN [ret |-> -EINVAL, parsed |-> None]
    ELSE LET s == json_split_version(buf)
         IN  [ret |-> s.ret, parsed |-> s.inobj]

(***************************************************************************)
(* json_read_data: a file json_object_from_file cannot parse gives        *)
(* -EFAULT, a value that is not an array -EINVAL, else 0 and the array.  *)
(***************************************************************************)
json_read_data(file) ==
    IF file \in {None, Unparsable} THEN [ret |-> -EFAULT, inobj |-> None]
    ELSE IF file.type # "array" THEN [ret |-> -EINVAL, inobj |-> None]
    ELSE [ret |-> 0, inobj |-> file]

=============================================================================
