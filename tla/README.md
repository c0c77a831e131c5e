# TLA+ models of the ACVP Proxy operational-environment handler

This directory holds TLA+ models of the part of acvpproxy that reconciles
a module's operational environment (OE) with the ACVP server. That code is
`src/lib/acvp/acvp_meta_oe.c`, and the identifier encoding and entity-lock
API it uses are in `src/lib/definition.h`. The models are checked with TLC.

## The system

A `struct def_oe` describes the local OE. It has strings for the
environment name, CPE/SWID, description and processor data. It also holds
three IDs: `acvp_oe_dep_proc_id`, `acvp_oe_dep_sw_id` and `acvp_oe_id`. On
the server, an OE is a record with a name and `dependencyUrls`, and each URL
points to a dependency (a processor or a software dependency).

- **ID codec** (`definition.h` 155-182). An ID is a `uint32_t`. Bits 28-30
  are request-status flags (`ACVP_REQUEST_INITIAL`, `PROCESSING`,
  `REJECTED`). A flagged ID is the ID of a request the server has not yet
  decided. `acvp_id`, `acvp_valid_id` and `acvp_request_id` strip and test
  these flags.
- **Entity lock and persistence** (`definition.h` 455-479).
  `acvp_def_get_oe_id` locks the `def_oe` and reads its IDs from the
  module's configuration. `acvp_def_put_oe_id` writes the IDs back and
  unlocks. Several test sessions of one module share one `def_oe`, so this
  lock is what serialises them.
- **Codec and matchers** (`acvp_meta_oe.c` 39-330, 560-760). Builders
  produce the JSON to submit. Matchers compare a server document with the
  `def_oe` and store the document's URL ID into the field of the type the
  *server* declared. `acvp_oe_generate_oe_string` composes the OE name.
- **Verb resolution** (`acvp_oe_validate_one_dep`, `_all_dep`,
  `_one_oe`, `_all_oe`):
  - If a known ID's document no longer matches, the user is asked whether
    to UPDATE or DELETE it.
  - An unknown entity is searched for with a paginated GET (name filter,
    `acvp_paging_get`). If it is not found, the user is asked whether to
    POST it.
  - `acvp_meta_register` submits the request. The server answers with a
    request ID, which is stored flagged in the ID field.
- **Orchestrator** (`acvp_oe_handle`, 1187-1264). It does the following,
  in order:
  1. lock;
  2. poll the three outstanding requests;
  3. validate the known dependencies;
  4. then either validate the known OE, or search for and register the
     missing dependencies and then the OE;
  5. write back and unlock.

  Each phase stops the run on an error (`CKINT_ULCK`).
  `acvp_oe_handle_open_requests` does only the lock, the poll and the write
  back.
- **The ACVP server** is the environment. It approves or rejects requests
  and assigns IDs.

## Modules

| module | models |
|---|---|
| `IdCodec` | The flag constants, `acvp_id`, `acvp_valid_id` and `acvp_request_id`. Also `IntOr`, the C `|` on two `int` return values (negative errnos are ORed in the code). |
| `OEDepCodec` | `json_get_string`'s return values, the dependency builders and matchers, `acvp_oe_match_oe_deps_matcher` and the OE name. |
| `OEHandler` | The whole handler and its environment; described below. |
| `MC_OEHandler` | Instantiates `OEHandler` for TLC. It defines one Intel Xeon E5 Linux `def_oe`, a server holding two processor dependencies (E3 as id 1, E5 as id 2) and an OE named after the local one that references E3, and the initial configurations. |
| `IdLifecycle` | The abstract specification of the Identifier fields (spec §3, §4.6, §4.7). Each field is unset, a server ID, a request ID or a rejected request, and the registry appends and decides requests. A write never drops or replaces a request that is still pending, and it marks a request rejected only after the registry rejected it. `OEHandler` is checked to implement it. |
| `JsonWrapper` | The JSON wrapper at the end of `definition.h`: `json_find_key`, `json_get_string`, `json_get_uint`, `json_get_bool`, `json_split_version` (a RECURSIVE loop over the response array), `acvp_req_strip_version`, `acvp_req_add_version` and `json_read_data`. A uint32 at or above 2^31 is kept as the pair of bit 31 and the low bits. A JSON value is a record of its type, members and elements. |
| `MC_Definition` | Checks the pure helpers of `definition.h` against reference definitions. Each behaviour draws one server response and one ID. The responses are every one built from a few kinds of JSON values, including arrays of up to three elements (169 of them). The IDs are 241 samples around every flag boundary. Together that is 40,729 states. |

### OEHandler

**State.**

- `disk`: the configuration file's three IDs.
- `mem`: the `def_oe`'s three IDs.
- `holder`: the holder of the `def_oe` lock.
- `pc`: the program counter of each session.
- `deps` and `oes`: the server's registries, functions from ID to document.
- `reqs`: the sequence of requests submitted so far (collection, verb,
  target, document, status, result).
- `nextId`: the server's next ID.
- `opts`: the `ctx->options` of the current invocation (`show_db_entries`, `register_new_oe`, `delete_db_entry`). Each invocation of the tool may choose a different set: `Restart` and `ProcessCrash` pick it anew from `Options`.
- `hret`: the `ret` of each session's `acvp_oe_handle`. It is the value returned from the last phase, ORed with the result of the write-back.

**Data abstraction.** Strings are model values or tuples of the strings
they are formatted from. URL strings are the IDs they carry.

**Function helpers.** A C function is an operator that returns the *set*
of its possible outcomes `[ret, s]`. Here `s` holds the `def_oe`'s IDs and
the request sequence. Calls compose by `\E` over outcomes, and `CKINT`'s
early returns are `IF`s on `ret`. The searches (`ScanDeps`, `ScanOEs`,
`MatchOEDeps`, `MatchDepUrls`) are RECURSIVE operators that walk the candidate list in
order, as the paging callback does. `MatchOE` follows `acvp_oe_match_oe`:
name, then the embedded `dependencies` (`MatchOEDeps`, no network request),
then the `dependencyUrls`, each fetched (`MatchDepUrls`). The constant
`EmbedDeps` says whether the server renders the embedded array, which
spec §6 allows alongside the URLs; `EmbeddedDeps` is that rendering. The prompts (`ask_yes`) are
nondeterministic choices.

**Actions.** Each session action is one phase of `acvp_oe_handle`, between
two of its return-value tests:

| action | code |
|---|---|
| `Lock` | `acvp_def_get_oe_id`, plus the choice of entry point |
| `Poll` | the three `acvp_meta_obtain_request_result` calls |
| `ValidateDeps` | `acvp_oe_validate_one_dep` for proc and then for sw |
| `ValidateOE` | `acvp_oe_validate_one_oe` |
| `ValidateDepsAll` | `acvp_oe_validate_all_dep` |
| `ValidateOEAll` | `acvp_oe_validate_all_oe` |
| `Put` | `ret |= acvp_def_put_oe_id`; it may fail to write under `PersistFail` |

The environment has these actions:

- `Approve` and `Reject` are the server.
- `Restart` runs the tool again.
- `ProcessCrash` kills the process while a session holds the lock.

**Spec-modelled parts.** `acvp_meta_register`,
`acvp_meta_obtain_request_result`, `acvp_search_to_http_type` and the
server are not in `src/`. They are modelled from `spec.md` §4.5-§4.7 and are
marked `spec_modelled` in `PROJECT.json`.

The server is modelled as follows:

- it carries out a request only if the targets exist and the OE's
  dependency URLs exist;
- it never deletes a dependency an OE references;
- it rejects what it cannot carry out.

**Refinement.** `Decode` reads a configured ID as the abstract value. Flag bits 0 give an ID, PROCESSING/INITIAL give a request, and REJECTED gives a rejected request. `Lifecycle` is `IdLifecycle` instantiated with this decoding, the request log projected to collection, status and result, and the IDs the server has assigned. The crash run checks `ImplementsIdLifecycle`, i.e. `Lifecycle!Spec`, as a PROPERTY. `Decode` uses division instead of bit operations so that TLC can evaluate it quickly.

**Failure switches.** Each of these constants enables one failure mode:

- `NetFail`: any HTTP call may fail.
- `LostResponse`: a POST is applied but its answer is lost.
- `PersistFail`: the write-back may fail.
- `Crash`: the process may die while a session holds the lock.
- `ServerRejects`: the server may reject any request.

## Runs

| run | cfg | expect | shows |
|---|---|---|---|
| safety | `MC_OEHandler_safety.cfg` | pass | Uses two sessions, both entry points and transport failures, and every combination of the three options per invocation (45,119 states). No entity is POSTed twice (`NoDuplicateCreate`). Every OE document submitted references existing dependencies that match the local `def_oe` (`OEDocRefsResolved`). No request is sent in show-only mode, nor when the configuration already names matching entities and nothing is pending (`SubmitsOnlyWhenNeeded`, the spec §8 idempotence). |
| crash | `MC_OEHandler_crash.cfg` | pass | With crashes, lost POST answers, failed write-backs and rejections, every step of the handler and the server is a step of `IdLifecycle` (`ImplementsIdLifecycle`). A newly written OE ID names an OE that matches the local one (`PersistedOEIdMatches`). Also checks `TypeOK`. 273,146 states. |
| live | `MC_OEHandler_live.cfg` | pass | Without faults, under fairness, repeated runs of the tool end with valid IDs naming matching server entities, for good (`Converges`). |
| staleoe | `MC_OEHandler_staleoe.cfg` | violation | A network failure while fetching a candidate OE's dependency leaves that candidate's ID in `acvp_oe_id`. The ID is written back: the OE referencing E3 is recorded for an E5 machine. |
| rejected | `MC_OEHandler_rejected.cfg` | violation | A rejected request ID is tested only for non-zero, so the handler GETs `/oes/<flagged id>` on every run and never converges. |
| definition | `MC_Definition.cfg` | pass | When `acvp_req_strip_version` returns 0, it hands on an object; for an array, that object has no `acvVersion` and another element has one (`StripVersionSound`). A request built with `acvp_req_add_version` and a data object strips back to that object (`VersionRoundTrip`). `json_get_string` returns what the OE model's accessor returns (`AccessorsAgree`). `json_get_uint` and `json_get_bool` match a reference over every member type, including the `INT_MAX` bound (`AccessorsTyped`). The ID codec agrees with the bit-level reference: strip, idempotence, and the flag round-trip (`CodecMatchesReference`). |
| oereset | `MC_OEHandler_oereset.cfg` | violation | `ConfiguredIdKept` fails. A dependency mismatch of the configured OE makes the matcher zero `acvp_oe_id` inside `validate_one_oe`. The confirmed PUT/DELETE then targets `/oes/0`, and a declined one writes 0 back, although the OE still exists. |
| handleret | `MC_OEHandler_handleret.cfg` | violation | `HandleRetIsStepErrno` fails. The processor POST is declined (`-ENOENT`), the software POST fails (`-EIO`), and `ret |=` makes `acvp_oe_handle` return -1. |
| typeoverlap | `MC_OEHandler_typeoverlap.cfg` | violation | The environment name "Linux Xeon" contains the processor name. The processor search stops at the software dependency, so the existing processor is POSTed again (`NoDuplicateCreate`). |
| stripckint | `MC_Definition_ckint.cfg` | violation | `json_split_version` returns a positive `EINVAL` for non-object data, which passes `CKINT`. Callers then read, for example, a string as the data object (`StripVersionPassesCKINT`). |
| deletematch | `MC_OEHandler_deletematch.cfg` | violation | `DeleteOnlyMismatch` fails. With `--delete-db-entry` on a fresh configuration, `validate_all_dep` finds the matching processor (id 2) and then DELETEs it. Spec §4.5 deletes only an entity that mismatches. |
| declined | `MC_OEHandler_declined.cfg` | violation | `OEDocRefsResolved` fails. The configuration names the processor from before an upgrade (E3). The user declines both the UPDATE and the DELETE, and `acvp_oe_validate_one_dep` leaves through `out` at line 479 with `ret` still 0. `acvp_oe_handle` carries on, and the OE is POSTed with E3 in its `dependencyUrls`. Spec §4.6 sends a declined entity to Aborted, and §8 builds an OE only on resolved children. |

`PROJECT.json` lists each violation as a finding.

While the model was being built, TLC also found the following, with other
settings of the same model. Each is kept as a hazard in `PROJECT.json`
rather than as a run, because it breaks a property that a run already
shows broken, or it depends on a server behaviour the spec leaves open.

- `ACVP_REQUEST_REJECTED` is bit 28, so server IDs from 2^28 on read as request IDs. Spec §3 speaks of 30 usable bits, but its own count (three flags in 32 bits) does not add up. With dependency IDs just below 2^28, a POST answered with ID 2^28 was then polled as request 0, breaking `ImplementsIdLifecycle`.
- If `acvp_meta_register` answered 0 for a pending request, the flagged request ID would end up in `dependencyUrls` (`OEDocRefsResolved`).
- A crash between a POST and the write-back, or a lost POST answer, leaves the ID at 0. The next run POSTs the entity again (`NoDuplicateCreate`).
- Without `oe_env_name`, the matcher returns `-ENOENT` for a software dependency without resetting `acvp_oe_id`. The candidate's ID is then written back (`PersistedOEIdMatches`).

Every property of a passing run has a mutant in `PROJECT.json`. The mutant
replaces a mapped definition with a plausible bug, and the run must then
fail. The mutants are:

- the EAGAIN stop dropped;
- the search not storing the found ID;
- the matcher not resetting `acvp_oe_id`;
- the REJECTED flag kept;
- the `>=` test in `validate_all_oe`;
- a request ID one too high;
- a partial strip mask;
- `json_split_version` without its type check;
- `json_get_string` accepting a null;
- `json_get_uint` testing `> INT_MAX`;
- `acvp_req_add_version` writing the key `version`;
- `validate_all_oe` without its `show_db_entries` test.

## Bounds and why they suffice

**Sessions.** There are two, which is enough for every interleaving of two
lock holders and of a session with the server.

**`MaxReqs = 4`.** One reconciliation from scratch takes up to three
requests (processor, software, OE), and a fourth lets a second session or
run register again, which is what a duplicate needs. Beyond the bound
`acvp_meta_register` fails with `-EIO`.

**Initial state.** The server starts with one stale and one matching
dependency and a stale OE. This makes every verb reachable: update,
delete, reuse by search, and a new POST. The configuration starts either
empty or with the matching IDs.

**JSON responses.** Arrays of up to three elements, drawn from a version object, a data object, an object with a null member, an empty array and a string. Objects with an int member of -1, 0, 7, `INT_MAX`-1 or `INT_MAX`, or with a boolean member, exercise the uint and bool accessors. These cover: a missing part, two data elements (the last wins), a non-object part, and an object or scalar alone.

**Embedded dependencies.** `EmbedDeps` is TRUE in safety and live, so the matcher meets both arrays there. The crash run keeps the URL-only server: there a mismatching dependency is found by the fetch loop, whose reset `PersistedOEIdMatches` depends on; the violation runs keep FALSE, the form their traces were found in. With it TRUE, oereset still fails, but staleoe does not: the stale OE's embedded E3 document mismatches before any fetch, and the matcher resets `acvp_oe_id`. The staleoe bug therefore needs a server that sends only `dependencyUrls`, which spec §6 allows.

**Options.** The safety run lets every invocation take any of the 8 combinations of the three options. `crash` and `live` fix them: the user is asked, or `--register-new-oe` is set.

**Special configurations for the violation runs.** `handleret` uses a server holding only the older processor. `typeoverlap` uses an environment name that contains the processor name. `deletematch` uses `--delete-db-entry` alone on a fresh configuration. `declined` uses a configuration that names the older processor (E3), so the user is offered an UPDATE or a DELETE and can refuse both.

**Deadlock.** It is checked in every run. The system never stops, because
the tool is always run again.

## Fairness

`LiveSpec` assumes the following:

- **Weak fairness of each session's step.** Every network call returns;
  the transport times out into an error.
- **Weak fairness of `Restart`.** The operator runs the tool again.
- **Weak fairness of `Approve`.** The server eventually decides requests
  it can carry out.

The liveness runs use only the `acvp_oe_handle` entry point. The
open-requests entry point only polls, and a run of the tool that only ever
polls never registers anything.

## Not modelled

- The vendor, module and person handlers. They follow the same pattern,
  but their code is not in this source.
- Transport, TOTP, URL building, JSON printing and logging. These appear
  only as the success or failure of a call.
- `dump_register` mode, which only prints.
- `json_logger` only logs. JSON numbers beyond the int32 range are not modelled, because json-c saturates them to the `INT32_MIN`/`INT32_MAX` values the samples include.
- Processor features, which are under `#if 0`.
- The algorithm-definition structures in `definition.h`.
- `src/unnamed`: declarations and constants without behaviour.

## Plan for later sittings

- `dump_register` mode, if `acvp_meta_register`'s dump behaviour can be taken from the spec.
- A run of the crash faults with the options varying per invocation. This needs a smaller initial state set to stay within a few minutes.
- Whether a processor DELETE in delete mode can strand an OE on the server. Today the server model refuses to delete a referenced dependency.
