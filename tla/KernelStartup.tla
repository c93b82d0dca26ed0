---------------------------- MODULE KernelStartup ----------------------------
(***************************************************************************)
(* The start of the kernel (core/kernel_app.py, _lifespan): the schema,    *)
(* the defaults it seeds (workspace, registry, context packs, palette      *)
(* commands), the workers and the artifacts, each committed by itself, and *)
(* the process may end between any two.  While it serves, the APIs change  *)
(* the same rows: the registry handlers are plain functions, so they run   *)
(* in threads and interleave; the handlers of palette commands and context *)
(* packs are coroutines without an await, so each is one step.             *)
(***************************************************************************)
EXTENDS Naturals, FiniteSets, Sequences

CONSTANTS
    Slugs,          \* slugs of registries
    DefaultSlug,    \* the one that is seeded
    Packs,          \* slugs of context packs
    CommandKeys,    \* keys of palette commands
    DefaultKeys,    \* those that are seeded
    MaxAttempts,    \* attempts at the AI bootstrap (6 in the code)
    MaxEditions,    \* bound: distributions of context packs
    MaxEdits,       \* bound: requests that change something
    MaxEnds         \* bound: ends of the process

ASSUME SeedsAreKnown == DefaultSlug \in Slugs /\ DefaultKeys \subseteq CommandKeys
ASSUME StartupBounds == MaxAttempts \in Nat \ {0} /\ MaxEditions \in Nat \ {0}

VARIABLES
    config,     \* the environment: [autoCreate, strict]
    boot,       \* how far the start is
    bootstrap,  \* the AI bootstrap task: [tries, outcome]
    prepared,   \* [schema, workspace, mapped]: tables, default workspace, repo map
    registries, \* rows of registries: [id, slug, spec]
    visits,     \* requests to the registries, in the order of their arrival
    shipped,    \* the context packs on the disk: [slugs, edition]
    packs,      \* rows of core-packaged packs: [slug, born, edition]
    bound,      \* ids of the packs that a workspace is bound to: [slug, born]
    commands,   \* palette commands: [global, own], each by key
    spent       \* edits, ends and registry rows so far

seedVars == <<prepared, registries, packs, bound, commands>>
startupVars == <<config, boot, bootstrap, seedVars, visits, shipped, spent>>

-----------------------------------------------------------------------------
StartupInit ==
    /\ config \in [autoCreate : BOOLEAN, strict : BOOLEAN]
    /\ boot = "down" /\ bootstrap = [tries |-> 0, outcome |-> "none"]
    /\ prepared = [schema |-> "absent", workspace |-> FALSE, mapped |-> FALSE]
    /\ registries = {} /\ visits = <<>>
    /\ shipped = [slugs |-> Packs, edition |-> 1]
    /\ packs = {} /\ bound = {}
    /\ commands = [global |-> [k \in CommandKeys |-> "none"],
                   own |-> [k \in CommandKeys |-> "none"]]
    /\ spent = [edits |-> 0, ends |-> 0, rows |-> 0]

Goto(from, to) == boot = from /\ boot' = to

-----------------------------------------------------------------------------
(* The start.                                                              *)

\* In the strict mode the start fails while the repo map has missing targets.
_validate_runtime_repo_map_startup ==
    /\ Goto("down", "checked")
    /\ config.strict => prepared.mapped
    /\ UNCHANGED <<config, bootstrap, seedVars, visits, shipped, spent>>

\* Without auto-create the tables must be there by the migrations.
init_db ==
    /\ boot = "checked"
    /\ IF config.autoCreate
       THEN /\ boot' = "created"
            /\ prepared' = IF prepared.schema = "absent"
                           THEN [prepared EXCEPT !.schema = "tables"] ELSE prepared
       ELSE /\ boot' = IF prepared.schema = "current" THEN "upgraded" ELSE "down"
            /\ UNCHANGED prepared
    /\ UNCHANGED <<config, bootstrap, registries, packs, bound, commands, visits,
                   shipped, spent>>

\* One transaction of ALTER, CREATE INDEX and UPDATE statements; what it does to the
\* drafts is UpgradedDrafts of JobPipeline.
_apply_dev_schema_upgrades ==
    /\ Goto("created", "upgraded")
    /\ prepared' = [prepared EXCEPT !.schema = "current"]
    /\ UNCHANGED <<config, bootstrap, registries, packs, bound, commands, visits,
                   shipped, spent>>

ensure_default_workspace ==
    /\ Goto("upgraded", "workspace")
    /\ prepared' = [prepared EXCEPT !.workspace = TRUE]
    /\ UNCHANGED <<config, bootstrap, registries, packs, bound, commands, visits,
                   shipped, spent>>

Named(slug) == {r \in registries : r.slug = slug}

Insert(slug, spec) ==
    /\ registries' = registries \cup {[id |-> spent.rows + 1, slug |-> slug, spec |-> spec]}
    /\ spent' = [spent EXCEPT !.rows = @ + 1]

\* An existing row is kept as a user left it.
ensure_seed_default_registry ==
    /\ Goto("workspace", "registry")
    /\ IF Named(DefaultSlug) # {} THEN UNCHANGED <<registries, spent>>
       ELSE Insert(DefaultSlug, "seed")
    /\ UNCHANGED <<config, bootstrap, prepared, packs, bound, commands, visits, shipped>>

Id(pack) == [slug |-> pack.slug, born |-> pack.born]

\* Mutant: all rows are written anew.
SyncAnew ==
    {[slug |-> s, born |-> shipped.edition, edition |-> shipped.edition] : s \in shipped.slugs}

\* Packs the distribution no longer has are deleted, the others updated in place or
\* inserted, in one commit.
Synchronized ==
    LET kept == {p \in packs : p.slug \in shipped.slugs}
        missing == shipped.slugs \ {p.slug : p \in kept}
    IN  {[p EXCEPT !.edition = shipped.edition] : p \in kept}
        \cup {[slug |-> s, born |-> shipped.edition, edition |-> shipped.edition] : s \in missing}

ensure_runtime_context_pack_artifacts ==
    /\ Goto("registry", "packs")
    /\ packs' = Synchronized
    /\ UNCHANGED <<config, bootstrap, prepared, registries, bound, commands, visits,
                   shipped, spent>>

\* A default that is there is set back to what the kernel ships.
ensure_default_palette_commands ==
    /\ Goto("packs", "seeded")
    /\ commands' = [commands EXCEPT !.global =
                       [k \in CommandKeys |-> IF k \in DefaultKeys THEN "shipped" ELSE @[k]]]
    /\ UNCHANGED <<config, bootstrap, prepared, registries, packs, bound, visits,
                   shipped, spent>>

\* The bootstrap task and the workers start before the artifacts are loaded.
StartWorkers ==
    /\ Goto("seeded", "working")
    /\ bootstrap' = [tries |-> 0, outcome |-> "trying"]
    /\ UNCHANGED <<config, seedVars, visits, shipped, spent>>

_bootstrap_ai_agent_with_retry ==
    /\ boot \in {"working", "serving"} /\ bootstrap.outcome = "trying"
    /\ \E outcome \in {"succeeded", "unsupported", "retryable_failure"} :
          bootstrap' = [tries |-> bootstrap.tries + 1,
                        outcome |-> IF outcome # "retryable_failure" THEN outcome
                                    ELSE IF bootstrap.tries + 1 < MaxAttempts THEN "trying"
                                    ELSE "given_up"]
    /\ UNCHANGED <<config, boot, seedVars, visits, shipped, spent>>

Serve ==
    /\ Goto("working", "serving")
    /\ UNCHANGED <<config, bootstrap, seedVars, visits, shipped, spent>>

\* Every step of the start may raise, and the process may end at any time.
KernelEnds ==
    /\ boot # "down" /\ spent.ends < MaxEnds
    /\ boot' = "down" /\ bootstrap' = [tries |-> 0, outcome |-> "none"]
    /\ spent' = [spent EXCEPT !.ends = @ + 1]
    /\ visits' = [v \in DOMAIN visits |-> [visits[v] EXCEPT !.at = "done"]]
    /\ UNCHANGED <<config, seedVars, shipped>>

-----------------------------------------------------------------------------
(* What changes outside.                                                   *)

\* Tables and repo map are looked at when the kernel starts and not later.
PrepareHost ==
    /\ boot \in {"down", "checked"}
    /\ \/ /\ prepared.schema # "current" /\ ~config.autoCreate
          /\ prepared' = [prepared EXCEPT !.schema = "current"]
       \/ config.strict /\ ~prepared.mapped /\ prepared' = [prepared EXCEPT !.mapped = TRUE]
    /\ UNCHANGED <<config, boot, bootstrap, registries, packs, bound, commands, visits,
                   shipped, spent>>

Distribute ==
    /\ shipped.edition < MaxEditions
    /\ \E slugs \in SUBSET Packs \ {{}} :
          shipped' = [slugs |-> slugs, edition |-> shipped.edition + 1]
    /\ UNCHANGED <<config, boot, bootstrap, seedVars, visits, spent>>

-----------------------------------------------------------------------------
(* The registry API: a request looks whether the slug is there, looks for  *)
(* the row to write, and writes it.                                        *)

Visit(op, slug) ==
    /\ boot = "serving" /\ Len(visits) + spent.edits < MaxEdits
    /\ op = "read" => slug = DefaultSlug
    /\ visits' = Append(visits, [op |-> op, slug |-> slug, target |-> 0,
                                 at |-> IF op = "delete" THEN "find" ELSE "look"])
    /\ UNCHANGED <<config, boot, bootstrap, seedVars, shipped, spent>>

Reached(v, where) == boot = "serving" /\ visits[v].at = where

\* A slug that is there ends a creation; a reading goes on only to seed the default;
\* one that is missing ends a change.
get_registry_spec_by_slug(v) ==
    /\ Reached(v, "look")
    /\ visits' = [visits EXCEPT ![v].at =
                     IF (Named(visits[v].slug) # {}) <=> (visits[v].op = "update")
                     THEN "find" ELSE "done"]
    /\ UNCHANGED <<config, boot, bootstrap, seedVars, shipped, spent>>

\* The row to write is the first one of an unordered query, or a new one.
FindRow(v) ==
    /\ Reached(v, "find")
    /\ \/ \E r \in Named(visits[v].slug) :
             visits' = [visits EXCEPT ![v].at = "write", ![v].target = r.id]
       \/ /\ Named(visits[v].slug) = {}
          /\ visits' = [visits EXCEPT ![v].at =
                           IF visits[v].op = "delete" THEN "done" ELSE "write"]
    /\ UNCHANGED <<config, boot, bootstrap, seedVars, shipped, spent>>

\* A row that was deleted meanwhile is not written: the flush finds no row and raises.
upsert_registry_spec(v) ==
    /\ Reached(v, "write") /\ visits[v].op # "delete"
    /\ LET spec == IF visits[v].op = "read" THEN "seed" ELSE "user"
       IN  IF visits[v].target = 0 THEN Insert(visits[v].slug, spec)
           ELSE /\ registries' = {IF r.id = visits[v].target THEN [r EXCEPT !.spec = spec] ELSE r
                                     : r \in registries}
                /\ UNCHANGED spent
    /\ visits' = [visits EXCEPT ![v].at = "done"]
    /\ UNCHANGED <<config, boot, bootstrap, prepared, packs, bound, commands, shipped>>

artifact_registries_delete(v) ==
    /\ Reached(v, "write") /\ visits[v].op = "delete"
    /\ registries' = {r \in registries : r.id # visits[v].target}
    /\ visits' = [visits EXCEPT ![v].at = "done"]
    /\ UNCHANGED <<config, boot, bootstrap, prepared, packs, bound, commands, shipped, spent>>

-----------------------------------------------------------------------------
(* The APIs of palette commands and context packs.                         *)

Edit ==
    /\ boot = "serving" /\ Len(visits) + spent.edits < MaxEdits
    /\ spent' = [spent EXCEPT !.edits = @ + 1]
    /\ UNCHANGED <<config, boot, bootstrap, prepared, registries, visits, shipped>>

create_palette_command(k) ==
    /\ commands.own[k] = "none"
    /\ commands' = [commands EXCEPT !.own[k] = "edited"]
    /\ Edit /\ UNCHANGED <<packs, bound>>

\* A patch changes the configuration, the key, or moves a global command into the
\* workspace; a key that is taken there is refused, by the check or by the index.
patch_palette_command(scope, k) ==
    /\ commands[scope][k] # "none"
    /\ \E to \in {scope, "own"}, key \in CommandKeys :
          /\ <<to, key>> = <<scope, k>> \/ commands[to][key] = "none"
          /\ commands' = [[commands EXCEPT ![scope][k] = "none"] EXCEPT ![to][key] = "edited"]
    /\ Edit /\ UNCHANGED <<packs, bound>>

\* Only a command of the workspace can be deleted.
delete_palette_command(k) ==
    /\ commands.own[k] # "none"
    /\ commands' = [commands EXCEPT !.own[k] = "none"]
    /\ Edit /\ UNCHANGED <<packs, bound>>

\* Listing the packs, asking for the bindings and running a prompt synchronize first.
list_context_packs ==
    /\ boot = "serving" /\ packs # Synchronized
    /\ packs' = Synchronized
    /\ UNCHANGED <<config, boot, bootstrap, prepared, registries, bound, commands, visits,
                   shipped, spent>>

\* The new bindings are checked against the rows before those are synchronized.
patch_context_pack_bindings ==
    /\ \E ids \in SUBSET {Id(p) : p \in packs} : bound' = ids
    /\ packs' = Synchronized
    /\ Edit /\ UNCHANGED commands

\* Bindings whose packs are all gone count as none, and the packs that are bound by
\* default are used: here, all of them.
resolve_bound_context_pack_artifacts ==
    LET explicit == {p \in packs : Id(p) \in bound}
    IN  IF explicit # {} THEN explicit ELSE packs

-----------------------------------------------------------------------------
StartupNext ==
    \/ _validate_runtime_repo_map_startup \/ init_db \/ _apply_dev_schema_upgrades
    \/ ensure_default_workspace \/ ensure_seed_default_registry
    \/ ensure_runtime_context_pack_artifacts \/ ensure_default_palette_commands
    \/ StartWorkers \/ _bootstrap_ai_agent_with_retry \/ Serve \/ KernelEnds
    \/ PrepareHost \/ Distribute
    \/ \E op \in {"create", "update", "delete", "read"}, slug \in Slugs : Visit(op, slug)
    \/ \E v \in DOMAIN visits :
          \/ get_registry_spec_by_slug(v) \/ FindRow(v)
          \/ upsert_registry_spec(v) \/ artifact_registries_delete(v)
    \/ \E k \in CommandKeys :
          \/ create_palette_command(k) \/ delete_palette_command(k)
          \/ \E scope \in {"global", "own"} : patch_palette_command(scope, k)
    \/ list_context_packs \/ patch_context_pack_bindings

StartupSpec == StartupInit /\ [][StartupNext]_startupVars

-----------------------------------------------------------------------------
StartupTypeOK ==
    /\ config \in [autoCreate : BOOLEAN, strict : BOOLEAN]
    /\ boot \in {"down", "checked", "created", "upgraded", "workspace", "registry", "packs",
                 "seeded", "working", "serving"}
    /\ bootstrap.tries \in 0..MaxAttempts
    /\ prepared \in [schema : {"absent", "tables", "current"}, workspace : BOOLEAN,
                     mapped : BOOLEAN]
    /\ \A r \in registries : r.id \in 1..spent.rows /\ r.slug \in Slugs
                            /\ r.spec \in {"seed", "user"}
    /\ \A v \in DOMAIN visits : visits[v].target \in 0..spent.rows
    /\ shipped \in [slugs : SUBSET Packs, edition : 1..MaxEditions]
    /\ packs \subseteq [slug : Packs, born : 1..MaxEditions, edition : 1..MaxEditions]
    /\ bound \subseteq [slug : Packs, born : 1..MaxEditions]
    /\ commands \in [{"global", "own"} -> [CommandKeys -> {"none", "shipped", "edited"}]]

(***************************************************************************)
(* Whatever the APIs did in an earlier life of the kernel and wherever a   *)
(* start broke off, the next one that serves has the default workspace and *)
(* registry, every default command as it is shipped, and the packs of one  *)
(* distribution, each once.  And as long as nobody changes the bindings,   *)
(* no synchronization, by a start or by a request, takes from a            *)
(* workspace's prompts a pack that stays in the distribution: the row      *)
(* keeps its id, which the bindings refer to.                              *)
(***************************************************************************)
ServesItsDefaults ==
    boot # "serving" /\ boot' = "serving" =>
       /\ prepared.schema = "current" /\ prepared.workspace
       /\ Named(DefaultSlug) # {}
       /\ \A k \in DefaultKeys : commands.global[k] = "shipped"
       /\ \A p, q \in packs : p.edition = q.edition /\ (p.slug = q.slug => p = q)
       /\ \A p \in packs : p.edition = shipped.edition =>
                                {q.slug : q \in packs} = shipped.slugs

PromptsKeepTheirPacks ==
    bound' = bound =>
       \A p \in resolve_bound_context_pack_artifacts :
          (\E q \in packs' : q.slug = p.slug) =>
             \E q \in resolve_bound_context_pack_artifacts' : Id(q) = Id(p)

SeedsAreWholeAndKept == [][ServesItsDefaults /\ PromptsKeepTheirPacks]_startupVars
=============================================================================
