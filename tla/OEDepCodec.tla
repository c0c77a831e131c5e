----------------------------- MODULE OEDepCodec -----------------------------
(***************************************************************************)
(* Builder and matcher of acvp_meta_oe.c for operational-environment      *)
(* dependencies, and the json_wrapper accessors they read documents with. *)
(*                                                                         *)
(* A JSON object is a function from key to value: a key missing from the  *)
(* object is outside its DOMAIN, a JSON null is JNull.  A def_oe is a     *)
(* record of its string fields, a C NULL pointer being CNull.  String     *)
(* comparison is acvp_str_match: equality of two strings.                 *)
(* Return values are the C ints: 0, a positive EINTR, or a negative errno.*)
(***************************************************************************)
EXTENDS Integers, Sequences, SequencesExt

CONSTANTS
    CNull,      \* a NULL char * in struct def_oe
    JNull       \* a JSON null value

ENOENT == 2
EIO    == 5
EINTR  == 4
EAGAIN == 11
EINVAL == 22

\* The first non-zero return value of a sequence of CKINT'ed steps, or 0.
FirstErr(rets) ==
    LET i == SelectInSeq(rets, LAMBDA r : r # 0)
    IN  IF i = 0 THEN 0 ELSE rets[i]

(***************************************************************************)
(* json_find_key / json_get_string: -ENOENT for a missing key, -EINVAL    *)
(* for a value that is not a string (JSON null is the only one here).     *)
(***************************************************************************)
JsonGetStringRet(doc, key) ==
    IF key \notin DOMAIN doc THEN -ENOENT
    ELSE IF doc[key] = JNull THEN -EINVAL
    ELSE 0

\* json_get_string followed by acvp_str_match(exp, str, id)
StrMatch(doc, key, exp) ==
    IF JsonGetStringRet(doc, key) # 0 THEN JsonGetStringRet(doc, key)
    ELSE IF doc[key] = exp THEN 0 ELSE -ENOENT

\* "Found one, we have a mismatch": a string present on the server
NoStringAt(doc, key) ==
    IF JsonGetStringRet(doc, key) = 0 THEN -ENOENT ELSE 0

(***************************************************************************)
(* Builders.  The snprintf'ed processor description is kept as the tuple  *)
(* of the three strings it is formatted from.                             *)
(***************************************************************************)
NoDoc == [nodoc |-> TRUE]            \* *json_oe = NULL: nothing to submit

acvp_oe_build_dep_proc(d) ==
    [type         |-> "processor",
     manufacturer |-> d.manufacturer,
     family       |-> d.proc_family,
     name         |-> d.proc_name,
     series       |-> d.proc_series,
     description  |-> <<"Processor", d.proc_name, d.proc_family, d.manufacturer>>]

acvp_oe_build_dep_sw(d) ==
    IF d.oe_env_name = CNull THEN NoDoc
    ELSE [type        |-> "software",
          name        |-> d.oe_env_name,
          cpe         |-> IF d.cpe # CNull THEN d.cpe ELSE JNull,
          swid        |-> IF d.cpe = CNull /\ d.swid # CNull THEN d.swid ELSE JNull,
          description |-> IF d.oe_description # CNull THEN d.oe_description
                          ELSE d.oe_env_name]

(***************************************************************************)
(* Matchers: the return value before the "url" is read.  On 0 the caller  *)
(* stores the ID from the document's url in the def_oe.                   *)
(***************************************************************************)
MatchDepSwRet(d, doc) ==
    FirstErr(<< StrMatch(doc, "name", d.oe_env_name),
                IF d.cpe # CNull THEN StrMatch(doc, "cpe", d.cpe) ELSE 0,
                IF d.swid # CNull THEN StrMatch(doc, "swid", d.swid) ELSE 0,
                IF d.swid = CNull /\ d.cpe = CNull
                THEN FirstErr(<< NoStringAt(doc, "swid"), NoStringAt(doc, "cpe") >>)
                ELSE 0,
                StrMatch(doc, "description",
                         IF d.oe_description # CNull THEN d.oe_description
                         ELSE d.oe_env_name) >>)

MatchDepProcRet(d, doc) ==
    FirstErr(<< StrMatch(doc, "manufacturer", d.manufacturer),
                StrMatch(doc, "family", d.proc_family),
                StrMatch(doc, "name", d.proc_name),
                StrMatch(doc, "series", d.proc_series) >>)

(***************************************************************************)
(* acvp_oe_match_dep: dispatch on the type the SERVER document declares.  *)
(* Result: the return value and the def_oe ID field that receives the     *)
(* document's url ID when the return value is 0.                          *)
(***************************************************************************)
acvp_oe_match_dep(d, doc) ==
    IF JsonGetStringRet(doc, "type") # 0
    THEN [ret |-> JsonGetStringRet(doc, "type"), field |-> "none"]
    ELSE IF doc.type = "software"
    THEN [ret |-> MatchDepSwRet(d, doc), field |-> "sw"]
    ELSE IF doc.type = "processor"
    THEN [ret |-> MatchDepProcRet(d, doc), field |-> "proc"]
    ELSE [ret |-> -ENOENT, field |-> "none"]

(***************************************************************************)
(* acvp_oe_match_oe_deps_matcher: as above, but a software dependency is  *)
(* only matched when the def_oe has an oe_env_name, and "reset" tells     *)
(* whether acvp_oe_id is set to 0 (only on a -ENOENT of a type matcher).  *)
(***************************************************************************)
acvp_oe_match_oe_deps_matcher(d, doc) ==
    IF JsonGetStringRet(doc, "type") # 0
    THEN [ret |-> JsonGetStringRet(doc, "type"), field |-> "none", reset |-> FALSE]
    ELSE IF d.oe_env_name # CNull /\ doc.type = "software"
    THEN [ret |-> MatchDepSwRet(d, doc), field |-> "sw",
          reset |-> MatchDepSwRet(d, doc) = -ENOENT]
    ELSE IF doc.type = "processor"
    THEN [ret |-> MatchDepProcRet(d, doc), field |-> "proc",
          reset |-> MatchDepProcRet(d, doc) = -ENOENT]
    ELSE [ret |-> -ENOENT, field |-> "none", reset |-> FALSE]

(***************************************************************************)
(* acvp_oe_generate_oe_string: the parts the OE name is assembled from.   *)
(* " on" and the blanks are fixed text, so the name is determined by the  *)
(* included fields; proc_name is left out when proc_series starts with    *)
(* it (strncmp over strlen(proc_name)): the argument "prefixed".       *)
(***************************************************************************)
OEName(d, prefixed) ==
    << d.oe_env_name, d.manufacturer, d.proc_series,
       IF d.proc_series # CNull
       THEN IF d.proc_name # CNull /\ ~prefixed
            THEN d.proc_name ELSE CNull
       ELSE d.proc_name >>

=============================================================================
