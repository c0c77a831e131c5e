------------------------------ MODULE OEHandler ------------------------------
(***************************************************************************)
(* acvp_oe_handle / acvp_oe_handle_open_requests of acvp_meta_oe.c: the   *)
(* reconciliation of one operational environment (struct def_oe) and its  *)
(* processor and software dependencies with the ACVP server.              *)
(*                                                                         *)
(* Several test sessions (Jobs) share the def_oe.  acvp_def_get_oe_id     *)
(* locks it and obtains its IDs from the configuration on disk,           *)
(* acvp_def_put_oe_id writes them back and unlocks; the whole handler     *)
(* runs between the two.  The server keeps the dependencies, the OEs and  *)
(* the requests a POST/PUT/DELETE opened; it approves or rejects them     *)
(* later.  A handler phase is one step; its network calls are sub-steps   *)
(* whose outcomes are sets: every operator below that performs one        *)
(* returns the set of [ret, s] it may end in, s = [m |-> def_oe IDs,      *)
(* rq |-> requests].                                                      *)
(***************************************************************************)
EXTENDS Integers, Sequences, SequencesExt, FiniteSets, IdCodec, OEDepCodec

CONSTANTS
    Jobs,              \* test sessions handling the same def_oe
    NoJob,
    Def,               \* the def_oe string fields (see OEDepCodec)
    StartsWith(_, _),  \* strncmp(a, b, strlen(b)) == 0
    NameContains(_, _),\* the server's "name[0]=contains:" filter
    Entries,           \* entry points run by a session: "handle", "open"
    Options,           \* the ctx_opts an invocation of the tool may have
    PendingRet,        \* acvp_meta_register's return for a pending request
    NetFail,           \* a request may fail in transport
    LostResponse,      \* a request may reach the server and its answer be lost
    PersistFail,       \* acvp_def_put_oe_id may fail to write the file
    Crash,             \* the process may die at any point
    ServerRejects,     \* the server may reject a request
    EmbedDeps,         \* OE documents also carry "dependencies" (exploded)
    InitDeps,          \* dependencies on the server: id -> document
    InitOEs,           \* OEs on the server: id -> [name, dependencyUrls]
    InitDisks,         \* the possible IDs in the configuration file
    MaxReqs            \* bound on the requests the server accepts

ASSUME PendingRet \in {0, -EAGAIN}
ASSUME EmbedDeps \in BOOLEAN
ASSUME Options \subseteq [show_db_entries : BOOLEAN, register_new_oe : BOOLEAN,
                          delete_db_entry : BOOLEAN]
ASSUME Entries \subseteq {"handle", "open"} /\ Entries # {}

VARIABLES
    disk,      \* acvp_oe_dep_proc_id/_sw_id/acvp_oe_id in the config file
    mem,       \* the same fields of struct def_oe while the lock is held
    holder,    \* session holding def_oe->def_lock
    pc,        \* phase of each session
    deps,      \* server: dependency id -> document
    oes,       \* server: OE id -> [name, dependencyUrls]
    reqs,      \* server: request id -> request
    nextId,    \* server: next entity id
    hret,      \* local "ret" of each session's handler call
    opts       \* ctx->options of the current invocation

vars == <<disk, mem, holder, pc, deps, oes, reqs, nextId, hret, opts>>

ShowDbEntries == opts.show_db_entries   \* ctx_opts->show_db_entries
RegisterNewOE == opts.register_new_oe   \* do not ask before a POST
DeleteDbEntry == opts.delete_db_entry   \* delete_db_entry & ACVP_OPTS_DELUP_OE

Fields == {"proc", "sw", "oe"}
NoEnv  == Def.oe_env_name = CNull

O(ret, s) == [ret |-> ret, s |-> s]
SetM(s, f, v) == [s EXCEPT !.m[f] = v]

\* "ret |= x" on the int return values
RetOr(a, b) == IntOr(a, b)

\* a request whose transport fails: nothing changes but the return value
Fail(s) == IF NetFail THEN {O(-EIO, s)} ELSE {}

\* the document GET /dependencies/<id> returns
DepDoc(id) == deps[id] @@ ("url" :> id)

\* acvp_search_to_http_type (decision table of the spec, section 4.5)
SearchToHttp(ret) ==
    IF ret = -ENOENT
    THEN IF ShowDbEntries THEN [ret |-> 0, http |-> "none"]
         ELSE IF DeleteDbEntry THEN [ret |-> 0, http |-> "DELETE"]
         ELSE [ret |-> -ENOENT, http |-> "none"]
    ELSE [ret |-> ret, http |-> "none"]

(***************************************************************************)
(* acvp_meta_register: POST/PUT/DELETE; the server answers with a request *)
(* and the ID field gets the request ID marked ACVP_REQUEST_PROCESSING.   *)
(***************************************************************************)
\* fault variant: the request bound checked one too late
MetaRegister_OffByOne(s, coll, doc, f, verb) ==
    LET n      == Len(s.rq) + 1
        target == IF verb = "POST" THEN 0 ELSE acvp_id(s.m[f])
        known  == IF coll = "dep" THEN DOMAIN deps ELSE DOMAIN oes
        req    == [status |-> "pending", coll |-> coll, verb |-> verb,
                   target |-> target, doc |-> doc, result |-> 0]
        sent   == [s EXCEPT !.rq = Append(@, req)]
    IN  IF verb # "POST" /\ target \notin known THEN Fail(s) \cup {O(-EIO, s)}
        ELSE IF n > MaxReqs + 1 THEN {O(-EIO, s)}
        ELSE Fail(s) \cup (IF LostResponse THEN {O(-EIO, sent)} ELSE {})
             \cup {O(PendingRet, SetM(sent, f, n | ACVP_REQUEST_PROCESSING))}

MetaRegister(s, coll, doc, f, verb) ==
    LET n      == Len(s.rq) + 1
        target == IF verb = "POST" THEN 0 ELSE acvp_id(s.m[f])
        known  == IF coll = "dep" THEN DOMAIN deps ELSE DOMAIN oes
        req    == [status |-> "pending", coll |-> coll, verb |-> verb,
                   target |-> target, doc |-> doc, result |-> 0]
        sent   == [s EXCEPT !.rq = Append(@, req)]
    IN  IF verb # "POST" /\ target \notin known
        THEN Fail(s) \cup {O(-EIO, s)}          \* the server answers 404
        ELSE IF n > MaxReqs THEN {O(-EIO, s)}   \* beyond the bound: refused
        ELSE Fail(s)
             \cup (IF LostResponse THEN {O(-EIO, sent)} ELSE {})
             \cup {O(PendingRet,
                     SetM(sent, f, n | ACVP_REQUEST_PROCESSING))}

(***************************************************************************)
(* acvp_meta_obtain_request_result for one ID field.                      *)
(***************************************************************************)
\* fault variant: a rejected request ID keeps its PROCESSING flag
ObtainRequestResult_KeepFlag(s, f) ==
    LET id == s.m[f]
        r  == acvp_id(id)
    IN  IF (id & ACVP_REQUEST_PROCESSING) = 0 THEN {O(0, s)}
        ELSE Fail(s) \cup
             IF r \notin DOMAIN s.rq THEN {O(-EIO, s)}
             ELSE IF s.rq[r].status = "pending" THEN {O(-EAGAIN, s)}
             ELSE IF s.rq[r].status = "approved" THEN {O(0, SetM(s, f, s.rq[r].result))}
             ELSE {O(0, SetM(s, f, id | ACVP_REQUEST_REJECTED))}

ObtainRequestResult(s, f) ==
    LET id == s.m[f]
        r  == acvp_id(id)
    IN  IF (id & ACVP_REQUEST_PROCESSING) = 0 THEN {O(0, s)}
        ELSE Fail(s) \cup
             IF r \notin DOMAIN s.rq THEN {O(-EIO, s)}
             ELSE IF s.rq[r].status = "pending" THEN {O(-EAGAIN, s)}
             ELSE IF s.rq[r].status = "approved" THEN {O(0, SetM(s, f, s.rq[r].result))}
             ELSE {O(0, SetM(s, f, r | ACVP_REQUEST_REJECTED))}

\* the three acvp_meta_obtain_request_result calls, their returns OR'ed
PollAll(s) ==
    UNION { UNION { { O(RetOr(RetOr(a.ret, b.ret), c.ret), c.s)
                      : c \in ObtainRequestResult(b.s, "oe") }
                    : b \in ObtainRequestResult(a.s, "sw") }
            : a \in ObtainRequestResult(s, "proc") }

(***************************************************************************)
(* acvp_paging_get with acvp_oe_match_cb and acvp_oe_match_dep over the    *)
(* dependencies the name filter returns, in id order.  A page request may *)
(* fail before any candidate.                                             *)
(***************************************************************************)
DepCandidates(q) ==
    SetToSortSeq({ i \in DOMAIN deps :
                     "name" \in DOMAIN deps[i] /\ deps[i].name # JNull
                     /\ NameContains(deps[i].name, q) }, <)

\* fault variant: a match ends the search without storing the ID
RECURSIVE ScanDeps_NoStore(_, _, _)
ScanDeps_NoStore(s, cands, i) ==
    IF i > Len(cands) THEN {O(0, s)}
    ELSE Fail(s) \cup
         LET r == acvp_oe_match_dep(Def, DepDoc(cands[i]))
         IN  IF r.ret = 0 THEN {O(EINTR, s)}
             ELSE IF r.ret = -ENOENT THEN ScanDeps_NoStore(s, cands, i + 1)
             ELSE {O(r.ret, s)}

RECURSIVE ScanDeps(_, _, _)
ScanDeps(s, cands, i) ==
    IF i > Len(cands) THEN {O(0, s)}
    ELSE Fail(s) \cup
         LET r == acvp_oe_match_dep(Def, DepDoc(cands[i]))
         IN  IF r.ret = 0 THEN {O(EINTR, SetM(s, r.field, cands[i]))}
             ELSE IF r.ret = -ENOENT THEN ScanDeps(s, cands, i + 1)
             ELSE {O(r.ret, s)}

(***************************************************************************)
(* acvp_oe_register_dep: build, ask unless told not to, register.         *)
(***************************************************************************)
BuildDep(type) ==
    IF type = "proc" THEN acvp_oe_build_dep_proc(Def) ELSE acvp_oe_build_dep_sw(Def)

RegisterDep(s, type, verb, asked) ==
    IF BuildDep(type) = NoDoc THEN {O(0, s)}
    ELSE (IF ~RegisterNewOE /\ ~asked THEN {O(-ENOENT, s)} ELSE {})
         \cup MetaRegister(s, "dep", BuildDep(type), type, verb)

(***************************************************************************)
(* acvp_oe_validate_one_dep: GET the dependency, match, decide, register. *)
(***************************************************************************)
GetDep(s, id) ==
    Fail(s) \cup
    IF id \notin DOMAIN deps THEN {O(-EIO, s)}
    ELSE LET r == acvp_oe_match_dep(Def, DepDoc(id))
         IN  {O(r.ret, IF r.ret = 0 THEN SetM(s, r.field, id) ELSE s)}

ValidateOneDep(s, type, depid) ==
    UNION {
      LET h == SearchToHttp(g.ret) IN
      IF h.ret = -ENOENT
      THEN {O(0, g.s)}              \* neither confirmed: ret is the build's 0
           \cup RegisterDep(g.s, type, "PUT", TRUE)
           \cup RegisterDep(g.s, type, "DELETE", TRUE)
      ELSE IF h.ret # 0 \/ h.http = "none" THEN {O(h.ret, g.s)}
      ELSE {O(-ENOENT, g.s)} \cup RegisterDep(g.s, type, "DELETE", TRUE)
    : g \in GetDep(s, depid) }

(***************************************************************************)
(* acvp_oe_validate_all_dep: search the missing dependencies, then POST   *)
(* what is still missing or DELETE what is there if deletion is asked.   *)
(***************************************************************************)
SearchProc(s) ==
    IF s.m.proc = 0 THEN ScanDeps(s, DepCandidates(Def.proc_name), 1) ELSE {O(0, s)}

SearchSw(o) ==
    IF o.ret < 0 \/ NoEnv \/ o.s.m.sw # 0 THEN {o}
    ELSE ScanDeps(o.s, DepCandidates(Def.oe_env_name), 1)

RegisterSw(o) ==
    IF NoEnv THEN {o}
    ELSE IF o.s.m.sw = 0
    THEN { O(RetOr(o.ret, x.ret), x.s) : x \in RegisterDep(o.s, "sw", "POST", FALSE) }
    ELSE IF DeleteDbEntry
    THEN { O(RetOr(o.ret, x.ret), x.s) : x \in RegisterDep(o.s, "sw", "DELETE", FALSE) }
    ELSE {o}

ValidateAllDep(s) ==
    UNION { IF o.ret < 0 \/ ShowDbEntries THEN {o}
            ELSE IF o.s.m.proc = 0
            THEN UNION { RegisterSw(p) : p \in RegisterDep(o.s, "proc", "POST", FALSE) }
            ELSE IF DeleteDbEntry
            THEN UNION { IF p.ret # 0 /\ p.ret # -EAGAIN THEN {p} ELSE RegisterSw(p)
                       : p \in RegisterDep(o.s, "proc", "DELETE", FALSE) }
            ELSE RegisterSw(o)
          : o \in UNION { SearchSw(x) : x \in SearchProc(s) } }

(***************************************************************************)
(* acvp_oe_match_oe: the name, then the url ID into acvp_oe_id, then every *)
(* dependency URL is fetched and matched; the server's OE document lists  *)
(* its dependencies as dependencyUrls.                                    *)
(***************************************************************************)
LocalOEName ==
    OEName(Def, Def.proc_series # CNull /\ Def.proc_name # CNull
                /\ StartsWith(Def.proc_series, Def.proc_name))

\* fault variant: a mismatching dependency leaves acvp_oe_id set
RECURSIVE MatchDepUrls_NoReset(_, _, _)
MatchDepUrls_NoReset(s, urls, i) ==
    IF i > Len(urls) THEN {O(0, s)}
    ELSE Fail(s) \cup
         IF urls[i] \notin DOMAIN deps THEN {O(-EIO, s)}
         ELSE LET r == acvp_oe_match_oe_deps_matcher(Def, DepDoc(urls[i]))
              IN  IF r.ret = 0 THEN MatchDepUrls_NoReset(SetM(s, r.field, urls[i]), urls, i + 1)
                  ELSE {O(r.ret, s)}

RECURSIVE MatchDepUrls(_, _, _)
MatchDepUrls(s, urls, i) ==
    IF i > Len(urls) THEN {O(0, s)}
    ELSE Fail(s) \cup
         IF urls[i] \notin DOMAIN deps THEN {O(-EIO, s)}
         ELSE LET r  == acvp_oe_match_oe_deps_matcher(Def, DepDoc(urls[i]))
                  s1 == IF r.reset THEN SetM(s, "oe", 0) ELSE s
              IN  IF r.ret = 0 THEN MatchDepUrls(SetM(s1, r.field, urls[i]), urls, i + 1)
                  ELSE {O(r.ret, s1)}

\* acvp_oe_match_oe_deps: the embedded documents, matched without a
\* network request; a missing "dependencies" array gives 0
RECURSIVE MatchOEDeps(_, _, _)
MatchOEDeps(s, docs, i) ==
    IF i > Len(docs) THEN {O(0, s)}
    ELSE LET r  == acvp_oe_match_oe_deps_matcher(Def, docs[i])
             s1 == IF r.reset THEN SetM(s, "oe", 0) ELSE s
         IN  IF r.ret = 0 THEN MatchOEDeps(SetM(s1, r.field, docs[i].url), docs, i + 1)
             ELSE {O(r.ret, s1)}

\* the "dependencies" array the server renders into an OE document
\* (spec_modelled): the current documents of its dependency URLs
EmbeddedDeps(oid) ==
    IF EmbedDeps
    THEN LET us == SelectSeq(oes[oid].dependencyUrls, LAMBDA u : u \in DOMAIN deps)
         IN  [k \in DOMAIN us |-> DepDoc(us[k])]
    ELSE <<>>

MatchOE(s, oid) ==
    LET nm == StrMatch([name |-> oes[oid].name], "name", LocalOEName)
    IN  IF nm # 0 THEN {O(nm, s)}
        ELSE UNION { IF e.ret # 0 THEN {e}
                     ELSE MatchDepUrls(e.s, oes[oid].dependencyUrls, 1)
                   : e \in MatchOEDeps(SetM(s, "oe", oid), EmbeddedDeps(oid), 1) }

OECandidates == SetToSortSeq(DOMAIN oes, <)

RECURSIVE ScanOEs(_, _, _)
ScanOEs(s, cands, i) ==
    IF i > Len(cands) THEN {O(0, s)}
    ELSE Fail(s) \cup
         UNION { IF o.ret = 0 THEN {O(EINTR, o.s)}
                 ELSE IF o.ret = -ENOENT THEN ScanOEs(o.s, cands, i + 1)
                 ELSE {o}
               : o \in MatchOE(s, cands[i]) }

(***************************************************************************)
(* acvp_oe_build_oe: outcomes [ret, s, doc].  Missing dependencies are    *)
(* searched and registered first; IDs that are not 0 become dependency   *)
(* URLs, those still 0 are embedded as documents.                         *)
(***************************************************************************)
OEDoc(m, embed) ==
    [name           |-> LocalOEName,
     dependencyUrls |-> (IF m.proc # 0 THEN <<m.proc>> ELSE <<>>)
                        \o (IF m.sw # 0 /\ ~NoEnv THEN <<m.sw>> ELSE <<>>),
     dependencies   |-> IF embed
                        THEN (IF m.proc = 0 THEN <<BuildDep("proc")>> ELSE <<>>)
                             \o (IF m.sw = 0 /\ ~NoEnv THEN <<BuildDep("sw")>> ELSE <<>>)
                        ELSE <<>>]

BuildOE(s) ==
    IF s.m.proc # 0 /\ s.m.sw # 0
    THEN {[ret |-> 0, s |-> s, doc |-> OEDoc(s.m, FALSE)]}
    ELSE { IF v.ret < 0 THEN [ret |-> v.ret, s |-> v.s, doc |-> NoDoc]
           ELSE [ret |-> 0, s |-> v.s, doc |-> OEDoc(v.s.m, v.ret = 0)]
         : v \in ValidateAllDep(s) }

(***************************************************************************)
(* acvp_oe_register_oe                                                    *)
(***************************************************************************)
RegisterOE(s, verb, asked) ==
    UNION { IF b.ret < 0 THEN {O(b.ret, b.s)}
            ELSE (IF ~RegisterNewOE /\ ~asked THEN {O(-ENOENT, b.s)} ELSE {})
                 \cup MetaRegister(b.s, "oe", b.doc, "oe", verb)
          : b \in IF verb = "DELETE" THEN {[ret |-> 0, s |-> s, doc |-> NoDoc]}
                  ELSE BuildOE(s) }

(***************************************************************************)
(* acvp_oe_validate_one_oe: GET /oes/<acvp_oe_id>, match, decide.         *)
(***************************************************************************)
GetOE(s) ==
    Fail(s) \cup
    IF s.m.oe \notin DOMAIN oes THEN {O(-EIO, s)} ELSE MatchOE(s, s.m.oe)

ValidateOneOE(s) ==
    UNION {
      LET h == SearchToHttp(g.ret) IN
      IF h.ret = -ENOENT
      THEN UNION { IF b.ret < 0 THEN {O(b.ret, b.s)}
                   ELSE {O(0, b.s)}             \* neither confirmed
                        \cup RegisterOE(b.s, "PUT", TRUE)
                        \cup RegisterOE(b.s, "DELETE", TRUE)
                 : b \in BuildOE(g.s) }
      ELSE IF h.ret # 0 \/ h.http = "none" THEN {O(h.ret, g.s)}
      ELSE RegisterOE(g.s, h.http, FALSE)
    : g \in GetOE(s) }

(***************************************************************************)
(* acvp_oe_validate_all_oe: search by name; POST unless found or showing. *)
(***************************************************************************)
\* fault variant: "ret >= 0" for "ret > 0": not found counts as found
ValidateAllOE_GE(s) ==
    UNION { IF o.ret < 0 THEN {o}
            ELSE IF o.ret >= 0 \/ ShowDbEntries THEN {O(0, o.s)}
            ELSE RegisterOE(o.s, "POST", FALSE)
          : o \in ScanOEs(s, OECandidates, 1) }

\* fault variant: the show_db_entries test of the result dropped
ValidateAllOE_NoShow(s) ==
    UNION { IF o.ret < 0 THEN {o}
            ELSE IF o.ret > 0 THEN {O(0, o.s)}
            ELSE RegisterOE(o.s, "POST", FALSE)
          : o \in ScanOEs(s, OECandidates, 1) }

ValidateAllOE(s) ==
    UNION { IF o.ret < 0 THEN {o}
            ELSE IF o.ret > 0 \/ ShowDbEntries THEN {O(0, o.s)}
            ELSE RegisterOE(o.s, "POST", FALSE)
          : o \in ScanOEs(s, OECandidates, 1) }

(***************************************************************************)
(* The sessions.  A phase ends where acvp_oe_handle tests a return value. *)
(***************************************************************************)
PCs == {"idle", "poll", "orpoll", "deps", "oneoe", "alldep", "alldep_last",
        "alloe", "put", "done"}

S == [m |-> mem, rq |-> reqs]

\* acvp_def_get_oe_id: lock def_oe and read its IDs from the configuration
Lock(j) ==
    /\ pc[j] = "idle" /\ holder = NoJob
    /\ \E e \in Entries :
          pc' = [pc EXCEPT ![j] = IF e = "handle" THEN "poll" ELSE "orpoll"]
    /\ holder' = j
    /\ mem' = disk
    /\ hret' = [hret EXCEPT ![j] = 0]
    /\ UNCHANGED <<disk, deps, oes, reqs, nextId, opts>>

\* end a phase in outcome o: "ret = o.ret", continuing at "next"
Step(j, o, next) ==
    /\ mem' = o.s.m /\ reqs' = o.s.rq
    /\ hret' = [hret EXCEPT ![j] = o.ret]
    /\ pc' = [pc EXCEPT ![j] = next]
    /\ UNCHANGED <<disk, holder, deps, oes, nextId, opts>>

NeedDeps(m) == m.proc = 0 \/ (~NoEnv /\ m.sw = 0)

\* the three acvp_meta_obtain_request_result calls of either entry point
Poll(j) ==
    /\ pc[j] \in {"poll", "orpoll"}
    /\ \E o \in PollAll(S) :
          Step(j, o, IF pc[j] = "orpoll" \/ o.ret # 0 THEN "put" ELSE "deps")

\* acvp_oe_handle: acvp_oe_validate_one_dep for the IDs it has
ValidateDeps(j) ==
    /\ pc[j] = "deps"
    /\ \E a \in IF mem.proc # 0 THEN ValidateOneDep(S, "proc", mem.proc)
                ELSE {O(0, S)} :
         IF a.ret # 0 /\ a.ret # -EAGAIN THEN Step(j, a, "put")
         ELSE \E b \in IF a.s.m.sw # 0 /\ ~NoEnv
                       THEN ValidateOneDep(a.s, "sw", a.s.m.sw) ELSE {a} :
                LET ret == IF a.s.m.sw # 0 /\ ~NoEnv THEN RetOr(a.ret, b.ret)
                           ELSE a.ret
                IN  Step(j, O(ret, b.s), IF ret # 0 THEN "put"
                               ELSE IF b.s.m.oe # 0 /\ ~ShowDbEntries THEN "oneoe"
                               ELSE IF ShowDbEntries \/ NeedDeps(b.s.m) THEN "alldep"
                               ELSE "alloe")

\* CKINT_ULCK(acvp_oe_validate_one_oe)
ValidateOE(j) ==
    /\ pc[j] = "oneoe"
    /\ \E o \in ValidateOneOE(S) :
          Step(j, o, IF o.ret >= 0 /\ NeedDeps(o.s.m) THEN "alldep_last" ELSE "put")

\* CKINT_ULCK(acvp_oe_validate_all_dep)
\* fault variant: a pending registration (-EAGAIN) does not end the run
ValidateDepsAll_EAGAIN(j) ==
    /\ pc[j] \in {"alldep", "alldep_last"}
    /\ \E o \in ValidateAllDep(S) :
          Step(j, o, IF (o.ret < 0 /\ o.ret # -EAGAIN) \/ pc[j] = "alldep_last"
                     THEN "put" ELSE "alloe")

ValidateDepsAll(j) ==
    /\ pc[j] \in {"alldep", "alldep_last"}
    /\ \E o \in ValidateAllDep(S) :
          Step(j, o, IF o.ret < 0 \/ pc[j] = "alldep_last" THEN "put" ELSE "alloe")

\* CKINT_ULCK(acvp_oe_validate_all_oe)
ValidateOEAll(j) ==
    /\ pc[j] = "alloe"
    /\ \E o \in ValidateAllOE(S) : Step(j, o, "put")

\* "ret |= acvp_def_put_oe_id(def_oe)": write the IDs back and unlock;
\* a failed write returns an error (taken as -EIO)
Put(j) ==
    /\ pc[j] = "put"
    /\ \E ok \in IF PersistFail THEN BOOLEAN ELSE {TRUE} :
          /\ disk' = IF ok THEN mem ELSE disk
          /\ hret' = [hret EXCEPT ![j] = RetOr(@, IF ok THEN 0 ELSE -EIO)]
    /\ holder' = NoJob
    /\ pc' = [pc EXCEPT ![j] = "done"]
    /\ UNCHANGED <<mem, deps, oes, reqs, nextId, opts>>

\* all sessions finished: the tool is invoked again, with any options
Restart ==
    /\ \A j \in Jobs : pc[j] = "done"
    /\ pc' = [j \in Jobs |-> "idle"]
    /\ hret' = [j \in Jobs |-> 0]
    /\ opts' \in Options
    /\ UNCHANGED <<disk, mem, holder, deps, oes, reqs, nextId>>

\* the process dies; the lock and the unsaved IDs are lost, and the tool
\* is started again
ProcessCrash ==
    /\ Crash /\ holder # NoJob
    /\ pc' = [j \in Jobs |-> "idle"]
    /\ holder' = NoJob
    /\ hret' = [j \in Jobs |-> 0]
    /\ opts' \in Options
    /\ UNCHANGED <<disk, mem, deps, oes, reqs, nextId>>

(***************************************************************************)
(* The ACVP server works off the requests (spec_modelled: the server and  *)
(* acvp_meta_register are not part of this source).  An OE document may  *)
(* only reference dependencies that exist, a dependency an OE references *)
(* is not deleted, and an OE's embedded dependencies are                 *)
(* created with it.  A request the server cannot carry out is rejected.  *)
(***************************************************************************)
Doable(q) ==
    /\ q.verb # "POST" => q.target \in (IF q.coll = "dep" THEN DOMAIN deps ELSE DOMAIN oes)
    /\ q.coll = "dep" /\ q.verb = "DELETE" =>
         \A i \in DOMAIN oes : q.target \notin Range(oes[i].dependencyUrls)
    /\ q.coll = "oe" /\ q.verb # "DELETE" =>
         \A k \in DOMAIN q.doc.dependencyUrls : q.doc.dependencyUrls[k] \in DOMAIN deps

\* ids nextId .. nextId + n - 1, in order
NewIds(n) == [k \in 1..n |-> nextId + k - 1]

\* the request is approved and carried out
Approve(r) ==
    LET q   == reqs[r]
        emb == IF q.coll = "oe" /\ q.verb # "DELETE" THEN q.doc.dependencies ELSE <<>>
        ids == NewIds(Len(emb))
        res == IF q.verb = "DELETE" THEN 0
               ELSE IF q.verb = "PUT" THEN q.target
               ELSE nextId + Len(emb)
    IN
    /\ r \in DOMAIN reqs
    /\ q.status = "pending" /\ Doable(q)
    /\ reqs' = [reqs EXCEPT ![r] = [@ EXCEPT !.status = "approved", !.result = res]]
    /\ IF q.coll = "dep"
       THEN /\ deps' = CASE q.verb = "POST" -> deps @@ (res :> q.doc)
                         [] q.verb = "PUT"  -> [deps EXCEPT ![res] = q.doc]
                         [] OTHER           -> [i \in DOMAIN deps \ {q.target} |-> deps[i]]
            /\ UNCHANGED oes
       ELSE /\ deps' = deps @@ [i \in Range(ids) |-> emb[i - nextId + 1]]
            /\ oes' = CASE q.verb = "POST" ->
                             oes @@ (res :> [name |-> q.doc.name,
                                             dependencyUrls |-> q.doc.dependencyUrls \o ids])
                        [] q.verb = "PUT" ->
                             [oes EXCEPT ![res] = [name |-> q.doc.name,
                                             dependencyUrls |-> q.doc.dependencyUrls \o ids]]
                        [] OTHER -> [i \in DOMAIN oes \ {q.target} |-> oes[i]]
    /\ nextId' = IF q.verb = "POST" THEN res + 1 ELSE nextId + Len(emb)
    /\ UNCHANGED <<disk, mem, holder, pc, hret, opts>>

\* the request is rejected
Reject(r) ==
    /\ r \in DOMAIN reqs
    /\ reqs[r].status = "pending"
    /\ ServerRejects \/ ~Doable(reqs[r])
    /\ reqs' = [reqs EXCEPT ![r].status = "rejected"]
    /\ UNCHANGED <<disk, mem, holder, pc, deps, oes, nextId, hret, opts>>

(***************************************************************************)
(* Specification                                                          *)
(***************************************************************************)
Init ==
    /\ disk \in InitDisks
    /\ mem = disk
    /\ holder = NoJob
    /\ pc = [j \in Jobs |-> "idle"]
    /\ deps = InitDeps
    /\ oes = InitOEs
    /\ reqs = <<>>
    /\ nextId = Max(DOMAIN InitDeps \cup DOMAIN InitOEs \cup {0}) + 1
    /\ hret = [j \in Jobs |-> 0]
    /\ opts \in Options

SessionStep(j) ==
    \/ Lock(j) \/ Poll(j) \/ ValidateDeps(j) \/ ValidateOE(j)
    \/ ValidateDepsAll(j) \/ ValidateOEAll(j) \/ Put(j)

Next ==
    \/ \E j \in Jobs : SessionStep(j)
    \/ \E r \in DOMAIN reqs : Approve(r) \/ Reject(r)
    \/ Restart
    \/ ProcessCrash

Spec == Init /\ [][Next]_vars

(***************************************************************************)
(* Fairness: a session that can go on does (its network calls return:    *)
(* transport timeouts turn into failures), the tool is run again, and    *)
(* the server works off every request it can carry out.                  *)
(***************************************************************************)
Fairness ==
    /\ \A j \in Jobs : WF_vars(SessionStep(j))
    /\ WF_vars(Restart)
    /\ \A r \in 1..MaxReqs : WF_vars(Approve(r))

LiveSpec == Spec /\ Fairness

(***************************************************************************)
(* Properties                                                             *)
(***************************************************************************)
TypeOK ==
    /\ disk \in [Fields -> Nat] /\ mem \in [Fields -> Nat]
    /\ holder \in Jobs \cup {NoJob}
    /\ pc \in [Jobs -> PCs]
    /\ Len(reqs) <= MaxReqs
    /\ \A r \in DOMAIN reqs :
          /\ reqs[r].status \in {"pending", "approved", "rejected"}
          /\ reqs[r].verb \in {"POST", "PUT", "DELETE"}
          /\ reqs[r].coll \in {"dep", "oe"}
    /\ nextId \in Nat
    /\ hret \in [Jobs -> Int]
    /\ opts \in Options

\* the def_oe entity a dependency document stands for: "proc", "sw" or none
DepKind(doc) == LET r == acvp_oe_match_dep(Def, doc)
                IN  IF r.ret = 0 THEN r.field ELSE "none"

\* an OE on the server that acvp_oe_match_oe accepts for the local def_oe
MatchesLocalOE(o) ==
    /\ o.name = LocalOEName
    /\ \A k \in DOMAIN o.dependencyUrls :
          /\ o.dependencyUrls[k] \in DOMAIN deps
          /\ acvp_oe_match_oe_deps_matcher(Def, deps[o.dependencyUrls[k]]).ret = 0

\* the documents a request asks the server to create, with their kind
Creates(q) ==
    IF q.verb = "DELETE" THEN {}
    ELSE IF q.coll = "dep"
    THEN IF q.verb = "POST" THEN {DepKind(q.doc)} ELSE {}
    ELSE { DepKind(q.doc.dependencies[k]) : k \in DOMAIN q.doc.dependencies }
         \cup (IF q.verb = "POST" THEN {"oe"} ELSE {})

\* the local entities that exist on the server or are being created there
Known(kind) ==
    (IF kind = "oe" THEN \E i \in DOMAIN oes : MatchesLocalOE(oes[i])
     ELSE \E i \in DOMAIN deps : DepKind(deps[i]) = kind)
    \/ \E r \in DOMAIN reqs : reqs[r].status = "pending" /\ kind \in Creates(reqs[r])

(***************************************************************************)
(* NoDuplicateCreate: acvp_oe_handle never asks the server to create a    *)
(* dependency or OE equal to the local one while the server already has  *)
(* one or a create of one is pending.  The lock, the persisted pending   *)
(* request ID and the search are what should prevent it.                  *)
(***************************************************************************)
NoDuplicateCreate ==
    [][ \A k \in (Len(reqs) + 1)..Len(reqs') :
          \A kind \in Creates(reqs'[k]) \ {"none"} :
             /\ ~Known(kind)
             /\ \A k2 \in (Len(reqs) + 1)..(k - 1) : kind \notin Creates(reqs'[k2])
      ]_reqs

(***************************************************************************)
(* OEDocRefsResolved: every OE document acvp_oe_register_oe submits      *)
(* (POST or PUT) references by dependencyUrls only dependencies that     *)
(* exist and match the local def_oe: children are resolved before the    *)
(* parent, and a pending or rejected request ID, or a dependency the user *)
(* declined to fix, is not one.                                           *)
(***************************************************************************)
OEDocRefsResolved ==
    [][ \A k \in (Len(reqs) + 1)..Len(reqs') :
          reqs'[k].coll = "oe" /\ reqs'[k].verb # "DELETE" =>
             \A i \in DOMAIN reqs'[k].doc.dependencyUrls :
                LET u == reqs'[k].doc.dependencyUrls[i]
                IN  u \in DOMAIN deps /\ DepKind(deps[u]) # "none"
      ]_reqs

(***************************************************************************)
(* PersistedOEIdMatches: when acvp_def_put_oe_id writes a new usable      *)
(* acvp_oe_id to the configuration, it names an OE on the server that    *)
(* matches the local def_oe.  acvp_oe_match_oe stores a candidate's ID   *)
(* before it checks the candidate's dependencies and must take it back   *)
(* when they do not match.                                                *)
(***************************************************************************)
PersistedOEIdMatches ==
    [][ disk'.oe # disk.oe /\ acvp_valid_id(disk'.oe) =>
          disk'.oe \in DOMAIN oes /\ MatchesLocalOE(oes[disk'.oe]) ]_disk

(***************************************************************************)
(* ConfiguredIdKept: a usable ID in the configuration is only reset to 0  *)
(* when its entity is gone from the server (spec 3: resetting an          *)
(* Identifier reflects a deletion on the server).  In                    *)
(* acvp_oe_validate_one_oe the dependency matcher zeroes acvp_oe_id on a *)
(* mismatch before the user is asked, so the confirmed PUT or DELETE     *)
(* goes to /oes/0 and the ID of the OE still on the server is dropped.   *)
(***************************************************************************)
ConfiguredIdKept ==
    [][ \A f \in Fields :
          acvp_valid_id(disk[f]) /\ disk'[f] = 0 =>
             disk[f] \notin DOMAIN (IF f = "oe" THEN oes ELSE deps) ]_disk

\* the configuration names the local dependencies and an OE matching the
\* local def_oe, and no request is outstanding on the server
Settled ==
    /\ \A f \in IF NoEnv THEN {"proc"} ELSE {"proc", "sw"} :
          /\ acvp_valid_id(disk[f]) /\ disk[f] \in DOMAIN deps
          /\ DepKind(deps[disk[f]]) = f
    /\ acvp_valid_id(disk.oe) /\ disk.oe \in DOMAIN oes
    /\ MatchesLocalOE(oes[disk.oe])
    /\ \A r \in DOMAIN reqs : reqs[r].status # "pending"

(***************************************************************************)
(* SubmitsOnlyWhenNeeded: no step of acvp_oe_handle or                    *)
(* acvp_oe_handle_open_requests sends a POST, PUT or DELETE when the run  *)
(* only shows (show_db_entries: every verb is "none", spec 4.5) or when   *)
(* the configuration is already settled (spec 8: a second reconciliation *)
(* pass without a remote change issues no create/update/delete).  The    *)
(* show test sits in validate_one_dep/_one_oe (acvp_search_to_http_type), *)
(* validate_all_dep, validate_all_oe and acvp_oe_handle itself.          *)
(***************************************************************************)
SubmitsOnlyWhenNeeded ==
    [][ ShowDbEntries \/ Settled => Len(reqs') = Len(reqs) ]_vars

(***************************************************************************)
(* DeleteOnlyMismatch: a DELETE is only sent for a dependency or OE the   *)
(* server holds in a form that does not match the local def_oe (spec     *)
(* 4.5: "Found, mismatch, autoDeleteOnMismatch -> delete").  With         *)
(* delete_db_entry set, acvp_oe_validate_all_dep DELETEs the processor    *)
(* and software dependency its own search has just found matching.       *)
(***************************************************************************)
DeleteOnlyMismatch ==
    [][ \A k \in (Len(reqs) + 1)..Len(reqs') :
          LET q == reqs'[k] IN
          q.verb = "DELETE" =>
             IF q.coll = "dep"
             THEN q.target \notin DOMAIN deps \/ DepKind(deps[q.target]) = "none"
             ELSE q.target \notin DOMAIN oes \/ ~MatchesLocalOE(oes[q.target]) ]_reqs

(***************************************************************************)
(* HandleRetIsStepErrno: acvp_oe_handle and acvp_oe_handle_open_requests *)
(* return 0 or a negative errno one of their steps reported (definition.h *)
(* documents "0 on success, < 0 on error").  "ret |=" ORs the return     *)
(* values of several steps: two different errnos, or the positive EINTR  *)
(* of a successful search and an errno, OR to a third value.              *)
(***************************************************************************)
HandleRetIsStepErrno ==
    [][ \A j \in Jobs :
          pc[j] = "put" /\ pc'[j] = "done" =>
             hret'[j] \in {0, -EIO, -ENOENT, -EAGAIN, -EINVAL} ]_vars

\* an ID field's value as the abstract lifecycle sees it; the flags are
\* bits 28..30 of a value below 2^31 (arithmetic, equal to the IdCodec
\* operators there and cheaper to evaluate)
Decode(v) ==
    LET flags == v \div ACVP_REQUEST_REJECTED
        n     == v % ACVP_REQUEST_REJECTED
    IN  CASE v = 0      -> [k |-> "unset"]
          [] flags = 0  -> [k |-> "id", n |-> n]
          [] ACVP_REQUEST_REJECTED * flags = ACVP_REQUEST_PROCESSING -> [k |-> "req", r |-> n]
          [] flags = 1  -> [k |-> "rej", r |-> n]
          [] OTHER      -> [k |-> "bad", v |-> v]

Lifecycle == INSTANCE IdLifecycle WITH
    FieldColl <- [f \in Fields |-> IF f = "oe" THEN "oe" ELSE "dep"],
    cfg       <- [f \in Fields |-> Decode(disk[f])],
    log       <- [r \in DOMAIN reqs |-> [coll   |-> reqs[r].coll,
                                          status |-> reqs[r].status,
                                          result |-> reqs[r].result]],
    ids       <- 1..(nextId - 1)

(***************************************************************************)
(* ImplementsIdLifecycle: the IDs acvp_def_put_oe_id writes follow the    *)
(* lifecycle of IdLifecycle: 0, an ID the server assigned, the request ID *)
(* with exactly ACVP_REQUEST_PROCESSING set (acvp_meta_register) for a    *)
(* request of the field's collection, or with ACVP_REQUEST_REJECTED after *)
(* a rejection (acvp_meta_obtain_request_result); and a request ID is    *)
(* written back unchanged until the server has decided the request: the  *)
(* poll's -EAGAIN must stop the run before anything can replace it.       *)
(***************************************************************************)
ImplementsIdLifecycle == Lifecycle!Spec

(***************************************************************************)
(* Converges: repeated runs of acvp_oe_handle eventually leave usable     *)
(* processor, software and OE IDs in the configuration, the OE matching   *)
(* the local def_oe, and keep them: pending requests are polled until the *)
(* server decides and a rejected request is registered anew (spec 4.7).  *)
(***************************************************************************)
Resolved ==
    /\ acvp_valid_id(disk.proc)
    /\ NoEnv \/ acvp_valid_id(disk.sw)
    /\ acvp_valid_id(disk.oe)
    /\ disk.oe \in DOMAIN oes /\ MatchesLocalOE(oes[disk.oe])

Converges == <>[]Resolved

=============================================================================
