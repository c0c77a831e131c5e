---------------------------- MODULE MC_Definition ----------------------------
(***************************************************************************)
(* The pure helpers of lib/definition.h over bounded inputs, each against *)
(* a reference definition.  Every server response built from a few kinds  *)
(* of JSON values, arrays of up to three elements included, run through   *)
(* acvp_req_strip_version and the accessors; and the ID codec over values *)
(* around every flag boundary.  One response and one ID are drawn per     *)
(* behaviour and kept.                                                    *)
(***************************************************************************)
EXTENDS JsonWrapper, IdCodec, Naturals, FiniteSets

CONSTANTS CNull, JNull

Dep == INSTANCE OEDepCodec

Str     == JScalar("string")
Nul     == JScalar("null")
Num     == JInt(5)
VerObj  == JObj("acvVersion" :> Str)
DataObj == JObj("name" :> Str)
NullObj == JObj("name" :> Nul)
NumObj  == JObj("name" :> Num)

Elements  == {VerObj, DataObj, NullObj, JArr(<<>>), Str}
Arrays    == { JArr(s) : s \in UNION { [1..n -> Elements] : n \in 0..3 } }
\* int members around 0 and INT_MAX, a boolean member
IntObjs   == { JObj("id" :> JInt(v)) : v \in {-1, 0, 7, INT_MAX - 1, INT_MAX} }
BoolObj   == JObj("flag" :> JBool(TRUE))
Responses == Arrays \cup IntObjs \cup {VerObj, DataObj, NullObj, NumObj, BoolObj, Str, None, Unparsable}

\* an object as the OE model writes server documents: key -> value
AsDoc(o) == [k \in DOMAIN o.members |-> IF o.members[k].type = "null" THEN JNull ELSE k]

\* around 0 and every power of two from 2^26 to 2^30, up to 2^31 - 1
Bases   == {0, 2^26, 2^27, 2^28, 2^29, 2^30, 2^28 + 2^29, 2^30 + 2^29 + 2^28}
Samples == { b + k : b \in Bases, k \in 0..15 } \cup { b - k : b \in Bases \ {0}, k \in 1..15 }
          \cup { UINT31_MAX - k : k \in 0..7 }

Flags == {ACVP_REQUEST_INITIAL, ACVP_REQUEST_PROCESSING, ACVP_REQUEST_REJECTED}

\* reference: bit k of v, and v with bits 28..30 cleared, by arithmetic
Bit(v, k) == (v \div 2^k) % 2
RefStrip(v) == v - (Bit(v, 28) * 2^28 + Bit(v, 29) * 2^29 + Bit(v, 30) * 2^30)

VARIABLES x, id     \* a server response; an ID of a def_oe field
Init == x \in Responses /\ id \in Samples
Next == UNCHANGED <<x, id>>
Spec == Init /\ [][Next]_<<x, id>>

(***************************************************************************)
(* StripVersionSound: when acvp_req_strip_version returns 0 for a         *)
(* response, the data it hands on is a JSON object, and for an array      *)
(* response it is an element without "acvVersion" next to one with it.    *)
(***************************************************************************)
StripVersionSound ==
    LET r == acvp_req_strip_version(x) IN
    r.ret = 0 /\ x # None =>
       /\ r.parsed # None /\ r.parsed.type = "object"
       /\ x.type = "array" =>
             /\ ~ObjectGetEx(r.parsed, "acvVersion")
             /\ \E i \in DOMAIN x.items : ObjectGetEx(x.items[i], "acvVersion")

(***************************************************************************)
(* StripVersionPassesCKINT: every caller tests the result with CKINT      *)
(* (ret < 0 is an error) and then reads the data as an object, e.g.       *)
(* acvp_oe_match_oe_depurls.  So a response that passes CKINT must        *)
(* yield a data object.  json_split_version returns EINVAL, not -EINVAL,  *)
(* for data that is not an object.                                         *)
(***************************************************************************)
StripVersionPassesCKINT ==
    LET r == acvp_req_strip_version(x) IN
    x # None /\ r.ret >= 0 => r.parsed # None /\ r.parsed.type = "object"

(***************************************************************************)
(* AccessorsAgree: json_get_string gives the same return value as the    *)
(* accessor of the OE model (OEDepCodec!JsonGetStringRet) on every        *)
(* object whose members are strings or null: -ENOENT for a missing key,   *)
(* -EINVAL for a null, 0 for a string.                                    *)
(***************************************************************************)
AccessorsAgree ==
    /\ x \notin {None, Unparsable} /\ x.type = "object"
    /\ (\A k \in DOMAIN x.members : x.members[k].type \in {"string", "null"})
    => \A key \in {"name", "acvVersion"} :
          Dep!JsonGetStringRet(AsDoc(x), key) = json_get_string(x, key).ret

\* reference: the return value of an accessor of a member of JSON type
\* "type", and the largest int the uint accessor accepts
RefAccessorRet(o, key, type) ==
    CASE key \notin DOMAIN o.members      -> -ENOENT
      [] o.members[key].type # type       -> -EINVAL
      [] type = "int" /\ o.members[key].val > INT_MAX - 1 -> -EINVAL
      [] OTHER                            -> 0

(***************************************************************************)
(* AccessorsTyped: json_get_uint and json_get_bool return -ENOENT for a  *)
(* missing key, -EINVAL for a member of another type or an int at or     *)
(* above INT_MAX, and otherwise 0 with the member's value (a             *)
(* non-negative int unchanged as a uint32).                              *)
(***************************************************************************)
AccessorsTyped ==
    x \notin {None, Unparsable} /\ x.type = "object" =>
       \A key \in {"id", "flag", "name"} :
          LET u == json_get_uint(x, key)
              b == json_get_bool(x, key)
          IN  /\ u.ret = RefAccessorRet(x, key, "int")
              /\ b.ret = RefAccessorRet(x, key, "boolean")
              /\ u.ret = 0 /\ x.members[key].val >= 0 => u.integer = <<0, x.members[key].val>>
              /\ b.ret = 0 => b.val = x.members[key].val

(***************************************************************************)
(* VersionRoundTrip: a request built as the client builds it, the version *)
(* entry from acvp_req_add_version followed by a data object, comes back *)
(* from acvp_req_strip_version as exactly that data object with 0.        *)
(***************************************************************************)
VersionRoundTrip ==
    x \notin {None, Unparsable} /\ x.type = "object" /\ ~ObjectGetEx(x, "acvVersion") =>
       \A a \in acvp_req_add_version(JArr(<<>>)) :
          a.ret = 0 =>
             LET r == acvp_req_strip_version(JArr(Append(a.array.items, x)))
             IN  r.ret = 0 /\ r.parsed = x

(***************************************************************************)
(* CodecMatchesReference: acvp_id clears exactly the three status bits    *)
(* and is idempotent (spec 4.1); an ID the code can flag (below 2^28)     *)
(* carrying any one status flag is a request ID, is not usable and strips *)
(* back to itself; unflagged it is usable unless 0.                       *)
(***************************************************************************)
CodecMatchesReference ==
    /\ acvp_id(id) = RefStrip(id)
    /\ acvp_id(acvp_id(id)) = acvp_id(id)
    /\ id < ACVP_REQUEST_REJECTED =>
          /\ acvp_valid_id(id) = (id # 0)
          /\ \A f \in Flags :
                /\ acvp_request_id(id | f)
                /\ ~acvp_valid_id(id | f)
                /\ acvp_id(id | f) = id
=============================================================================
