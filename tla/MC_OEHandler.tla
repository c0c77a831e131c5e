---------------------------- MODULE MC_OEHandler ----------------------------
(***************************************************************************)
(* Model values for OEHandler: an OE "Linux on Intel Xeon E5" with a      *)
(* software and a processor dependency, a server that already holds an    *)
(* older processor entry, the current one and an OE built on the older.   *)
(***************************************************************************)
EXTENDS OEHandler

\* def_oe of the configuration: no CPE/SWID, no description
MCDef == [oe_env_name |-> "Linux", cpe |-> CNull, swid |-> CNull,
          oe_description |-> CNull, manufacturer |-> "Intel",
          proc_family |-> "X86", proc_name |-> "Xeon", proc_series |-> "Xeon E5"]

MCStartsWith(a, b) == <<a, b>> \in {<<"Xeon E5", "Xeon">>, <<"Xeon E3", "Xeon">>}

\* the server's substring filter over the names occurring in the model
MCExtraContains == {}
MCNameContains(a, q) == a = q \/ <<a, q>> \in MCExtraContains

ProcDoc(series) ==
    [type |-> "processor", manufacturer |-> "Intel", family |-> "X86",
     name |-> "Xeon", series |-> series,
     description |-> <<"Processor", "Xeon", "X86", "Intel">>]

\* 1: the processor before an upgrade, 2: the current one,
\* 3: the OE registered with the older processor
MCInitDeps == (1 :> ProcDoc("Xeon E3")) @@ (2 :> ProcDoc("Xeon E5"))
MCInitOEs  == 3 :> [name |-> OEName(MCDef, MCStartsWith(MCDef.proc_series, MCDef.proc_name)), dependencyUrls |-> <<1>>]

\* a fresh configuration, and one naming the current processor and the
\* OE registered with the older one
MCInitDisks == { [proc |-> 0, sw |-> 0, oe |-> 0],
                 [proc |-> 2, sw |-> 0, oe |-> 3] }

\* a server holding only the older processor: both dependencies are
\* registered in one run
MCInitDepsOld   == 1 :> ProcDoc("Xeon E3")
MCInitDisksFresh == { [proc |-> 0, sw |-> 0, oe |-> 0] }

\* A software name that contains the processor name: the server's filter
\* for the processor search also returns the software dependency (1),
\* listed before the processor (2).
MCDefOverlap == [MCDef EXCEPT !.oe_env_name = "Linux Xeon"]
MCNameContainsOverlap(a, q) == a = q \/ <<a, q>> = <<"Linux Xeon", "Xeon">>
MCInitDepsOverlap == (1 :> acvp_oe_build_dep_sw(MCDefOverlap)) @@ (2 :> ProcDoc("Xeon E5"))
MCNoOEs == <<>>
\* a configuration written before the processor upgrade: it names the
\* older processor (1), which no longer matches the local def_oe
MCInitDisksStale == { [proc |-> 1, sw |-> 0, oe |-> 0] }

\* ctx->options: no option (the user is asked before every POST), the
\* POST without asking (--register-new-oe), --delete-db-entry alone, and
\* every combination of
\* --show-db-entries, --register-new-oe and --delete-db-entry
MCAskUser      == {[show_db_entries |-> FALSE, register_new_oe |-> FALSE, delete_db_entry |-> FALSE]}
MCAutoRegister == {[show_db_entries |-> FALSE, register_new_oe |-> TRUE, delete_db_entry |-> FALSE]}
MCDeleteEntry  == {[show_db_entries |-> FALSE, register_new_oe |-> FALSE, delete_db_entry |-> TRUE]}
MCAnyOptions   == [show_db_entries : BOOLEAN, register_new_oe : BOOLEAN, delete_db_entry : BOOLEAN]

\* acvp_meta_register returns -EAGAIN for a request left pending
MCPendingEAGAIN == -EAGAIN
=============================================================================
