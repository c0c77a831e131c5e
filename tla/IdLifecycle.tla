----------------------------- MODULE IdLifecycle -----------------------------
(***************************************************************************)
(* What the configuration's Identifiers of one entity promise (spec 3,    *)
(* 4.6, 4.7), independent of how the handler computes them.  Each field   *)
(* of the configuration is unset, a usable ID the registry assigned, the  *)
(* ID of a request opened for the field's collection, or such a request   *)
(* marked rejected.  The registry appends requests and decides them;      *)
(* the client writes the configuration.  A write never drops or replaces *)
(* a request the registry has not decided yet, and a rejected mark only   *)
(* follows a rejection.                                                   *)
(***************************************************************************)
EXTENDS Naturals, Sequences

CONSTANTS
    Fields,       \* the Identifier fields of the entity
    FieldColl     \* field -> collection its requests are opened in

VARIABLES
    cfg,          \* field -> [k |-> "unset" | "id" | "req" | "rej", ...]
    log,          \* request number -> [coll, status, result]
    ids           \* the entity IDs the registry has assigned

Unset  == [k |-> "unset"]
Id(n)  == [k |-> "id", n |-> n]
Req(r) == [k |-> "req", r |-> r]
Rej(r) == [k |-> "rej", r |-> r]

\* a field value naming a request the registry has not decided
Outstanding(v) ==
    v.k = "req" /\ v.r \in DOMAIN log /\ log[v.r].status = "pending"

\* the values field f may take in a write, coming from "old"
Writable(f, old, new) ==
    /\ Outstanding(old) => new = old
    /\ \/ new = Unset
       \/ new.k = "id" /\ new.n \in ids
       \/ new.k = "req" /\ new.r \in DOMAIN log /\ log[new.r].coll = FieldColl[f]
       \/ /\ new.k = "rej" /\ new.r \in DOMAIN log
          /\ log[new.r].coll = FieldColl[f] /\ log[new.r].status = "rejected"

Init ==
    /\ ids \subseteq Nat
    /\ log = <<>>
    /\ \A f \in Fields : cfg[f] = Unset \/ (cfg[f].k = "id" /\ cfg[f].n \in ids)

\* the client opens requests (one handler phase may open several)
Submit ==
    /\ Len(log') > Len(log)
    /\ SubSeq(log', 1, Len(log)) = log
    /\ \A r \in (Len(log) + 1)..Len(log') : log'[r].status = "pending"
    /\ UNCHANGED <<cfg, ids>>

\* the registry approves or rejects request r; an approval may assign IDs
Decide(r) ==
    /\ log[r].status = "pending"
    /\ DOMAIN log' = DOMAIN log
    /\ \A q \in DOMAIN log \ {r} : log'[q] = log[q]
    /\ log'[r].coll = log[r].coll
    /\ \/ log'[r].status = "rejected"
       \/ log'[r].status = "approved" /\ log'[r].result \in ids' \cup {0}
    /\ ids \subseteq ids'
    /\ UNCHANGED cfg

\* the client writes the configuration
Write ==
    /\ \A f \in Fields : Writable(f, cfg[f], cfg'[f])
    /\ UNCHANGED <<log, ids>>

Next == Submit \/ (\E r \in DOMAIN log : Decide(r)) \/ Write

Spec == Init /\ [][Next]_<<cfg, log, ids>>

=============================================================================
