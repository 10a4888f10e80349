--------------------------- MODULE VendorCatalogue ---------------------------
(***************************************************************************)
(* The catalogue of vendor event codes.  An administrator's request to     *)
(* discover codes seeds the built-in definitions, adds a placeholder for   *)
(* every code seen in storage_alerts, closes old incidents that no         *)
(* critical event supports, and commits all of it at once.  Other requests *)
(* discover, edit and delete definitions, a deployment runs the script     *)
(* that initializes the catalogue, and correlation adds evidence, at the   *)
(* same time (READ COMMITTED).                                             *)
(***************************************************************************)
EXTENDS Integers, FiniteSets

CONSTANTS
    Codes,        \* (storage type, event code) pairs
    BuiltIn,      \* COMMON_DEFINITIONS
    Catalogued,   \* CATALOG_DEFINITIONS of the script
    PendingSeeds, \* built-in codes whose own definition is unknown and pending
    PendingRows,  \* codes of the script whose row is unknown and pending
    Discoveries,  \* requests to discover
    Faults,       \* incidents of category device_fault
    MaxEdits      \* bound: edits and deletions of definitions, critical evidence

ASSUME CatalogueAssumption ==
    /\ BuiltIn \subseteq Codes /\ Catalogued \subseteq Codes /\ MaxEdits \in Nat
    /\ PendingSeeds \subseteq BuiltIn /\ PendingRows \subseteq Catalogued

VARIABLES
    definition,  \* definition[c]: what is committed under the code
    observed,    \* the codes of storage_alerts
    fault,       \* fault[i]: status and whether critical evidence is attached
    discovery,   \* what each request is doing
    script,      \* initialize_vendor_event_definitions and the codes it found missing
    removed,     \* history: codes whose definition an administrator deleted
    edits        \* counts towards MaxEdits

catalogueVars == <<definition, observed, fault, discovery, script, removed, edits>>

\* A placeholder as it is generated; one with a description, solution or severity of its own; a
\* reviewed definition of the program; one whose type, title or review an administrator wrote.
\* The switch is_active is left out: no discovery writes it.
Definitions == {"absent", "placeholder", "described", "builtin", "edited"}
Untouched == [c \in Codes |-> "absent"]
NoDiscovery == [pc |-> "idle", map |-> Untouched, todo |-> {}, made |-> Untouched, close |-> {}]
NoScript == [pc |-> "idle", missing |-> {}]

CatalogueInit ==
    /\ definition \in [Codes -> {"absent", "placeholder"}]
    /\ observed \in SUBSET Codes
    /\ fault = [i \in Faults |-> [open |-> TRUE, critical |-> FALSE]]
    /\ discovery = [d \in Discoveries |-> NoDiscovery]
    /\ script = NoScript /\ removed = {} /\ edits = 0

\* A row that an open transaction inserted or updated: others wait for its end
Held(d, c) == \E o \in Discoveries \ {d} : discovery[o].made[c] # "absent"

-----------------------------------------------------------------------------
(* discover: seed_common_definitions, then the observed codes.             *)

StartDiscovery(d) ==
    /\ discovery[d].pc = "idle"
    /\ discovery' = [discovery EXCEPT ![d] = [NoDiscovery EXCEPT
           !.pc = "seeding", !.map = definition, !.todo = BuiltIn]]
    /\ UNCHANGED <<definition, observed, fault, script, removed, edits>>

\* Mutant: only the review is looked at.
IsPlaceholder_Pending(value) == value \in {"placeholder", "described", "edited"}

\* _is_generated_placeholder looks at type, title and review
IsPlaceholder(value) == value \in {"placeholder", "described"}

\* _seed_values
Seed(c) == IF c \in PendingSeeds THEN "placeholder" ELSE "builtin"

\* Only columns that differ from the loaded ones are written: of a pending seed the description
Seeded(c) == IF c \in PendingSeeds /\ definition[c] \in {"builtin", "edited"} THEN definition[c] ELSE Seed(c)

Done(d, c) == [discovery[d] EXCEPT !.todo = @ \ {c}]
Wrote(d, c, value) == [Done(d, c) EXCEPT !.made[c] = value]

\* The loaded definition is no placeholder, or one with the values of the seed
KeepDefinition(d, c) ==
    LET loaded == discovery[d].map[c]
    IN  /\ discovery[d].pc = "seeding" /\ c \in discovery[d].todo
        /\ loaded # "absent" /\ (~IsPlaceholder(loaded) \/ loaded = Seed(c))
        /\ discovery' = [discovery EXCEPT ![d] = Done(d, c)]
        /\ UNCHANGED <<definition, observed, fault, script, removed, edits>>

\* The insertion, or the update of the placeholder by its identifier, as the
\* row is now; otherwise the database or the session reports an error
SeedDefinition(d, c) ==
    LET loaded == discovery[d].map[c]
    IN  /\ discovery[d].pc = "seeding" /\ c \in discovery[d].todo /\ ~Held(d, c)
        /\ loaded = "absent" \/ (IsPlaceholder(loaded) /\ loaded # Seed(c))
        /\ discovery' = [discovery EXCEPT ![d] =
               CASE loaded = "absent" /\ definition[c] = "absent" -> Wrote(d, c, Seed(c))
                 [] loaded # "absent" /\ definition[c] # "absent" -> Wrote(d, c, Seeded(c))
                 [] OTHER -> NoDiscovery]
        /\ UNCHANGED <<definition, observed, fault, script, removed, edits>>

\* A second look, which sees the request's own rows
LoadObserved(d) ==
    /\ discovery[d].pc = "seeding" /\ discovery[d].todo = {}
    /\ discovery' = [discovery EXCEPT ![d] = [@ EXCEPT !.pc = "observed",
           !.todo = {c \in observed : definition[c] = "absent" /\ discovery[d].made[c] = "absent"}]]
    /\ UNCHANGED <<definition, observed, fault, script, removed, edits>>

\* Mutant: the conflict undoes the insertions before it.
AfterConflict_NoSavepoint(d, c) == [Done(d, c) EXCEPT !.made = Untouched]

\* The savepoint around the insertion: another request was faster, the rest stands
AfterConflict(d, c) == Done(d, c)

\* Also under a built-in code, when its definition was deleted after the seeding
AddPlaceholder(d, c) ==
    /\ discovery[d].pc = "observed" /\ c \in discovery[d].todo /\ ~Held(d, c)
    /\ discovery' = [discovery EXCEPT ![d] =
           IF definition[c] = "absent" THEN Wrote(d, c, "placeholder") ELSE AfterConflict(d, c)]
    /\ UNCHANGED <<definition, observed, fault, script, removed, edits>>

\* reconcile_legacy_vendor_incidents reads incidents and their evidence without
\* locking them
ReadFaults(d) ==
    /\ discovery[d].pc = "observed" /\ discovery[d].todo = {}
    /\ discovery' = [discovery EXCEPT ![d] = [@ EXCEPT !.pc = "closing",
           !.close = {i \in Faults : fault[i].open /\ ~fault[i].critical}]]
    /\ UNCHANGED <<definition, observed, fault, script, removed, edits>>

CommitDiscovery(d) ==
    /\ discovery[d].pc = "closing"
    /\ definition' = [c \in Codes |->
           IF discovery[d].made[c] # "absent" THEN discovery[d].made[c] ELSE definition[c]]
    /\ fault' = [i \in Faults |->
           IF i \in discovery[d].close THEN [fault[i] EXCEPT !.open = FALSE] ELSE fault[i]]
    /\ discovery' = [discovery EXCEPT ![d] = NoDiscovery]
    /\ UNCHANGED <<observed, script, removed, edits>>

\* Any other error: everything is rolled back, the audit tells of the failure
FailDiscovery(d) ==
    /\ discovery[d].pc # "idle"
    /\ discovery' = [discovery EXCEPT ![d] = NoDiscovery]
    /\ UNCHANGED <<definition, observed, fault, script, removed, edits>>

-----------------------------------------------------------------------------
(* run_database_initialization.                                            *)

LoadKeys ==
    /\ script.pc = "idle"
    /\ script' = [pc |-> "insert", missing |-> {c \in Catalogued : definition[c] = "absent"}]
    /\ UNCHANGED <<definition, observed, fault, discovery, removed, edits>>

\* A pending row has a description of its own
Catalogue(c) == IF c \in PendingRows THEN "described" ELSE "builtin"

WithMissing == [c \in Codes |-> IF c \in script.missing THEN Catalogue(c) ELSE definition[c]]

\* Mutant: the script overwrites what appeared meanwhile.
InsertMissing_Upsert ==
    /\ script.pc = "insert"
    /\ \A d \in Discoveries, c \in script.missing : discovery[d].made[c] = "absent"
    /\ definition' = WithMissing
    /\ script' = NoScript
    /\ UNCHANGED <<observed, fault, discovery, removed, edits>>

\* One insertion: a code that appeared meanwhile undoes all of it
InsertMissing ==
    /\ script.pc = "insert"
    /\ \A d \in Discoveries, c \in script.missing : discovery[d].made[c] = "absent"
    /\ definition' = IF \A c \in script.missing : definition[c] = "absent" THEN WithMissing ELSE definition
    /\ script' = NoScript
    /\ UNCHANGED <<observed, fault, discovery, removed, edits>>

-----------------------------------------------------------------------------
(* Everyone else.                                                          *)

Edit == edits < MaxEdits /\ edits' = edits + 1

\* create_definition, update_definition, delete_definition: an edit may leave a placeholder one
EditDefinition(c, value) ==
    /\ Edit /\ \A d \in Discoveries : discovery[d].made[c] = "absent"
    /\ value = "absent" => definition[c] # "absent"
    /\ definition' = [definition EXCEPT ![c] = value]
    /\ removed' = IF value = "absent" THEN removed \cup {c} ELSE removed
    /\ UNCHANGED <<observed, fault, discovery, script>>

ObserveCode(c) ==
    /\ c \notin observed
    /\ observed' = observed \cup {c}
    /\ UNCHANGED <<definition, fault, discovery, script, removed, edits>>

\* correlate_incident attaches a critical event
AttachCritical(i) ==
    /\ Edit /\ fault[i].open /\ ~fault[i].critical
    /\ fault' = [fault EXCEPT ![i].critical = TRUE]
    /\ UNCHANGED <<definition, observed, discovery, script, removed>>

CatalogueNext ==
    \/ \E d \in Discoveries :
         \/ StartDiscovery(d) \/ LoadObserved(d) \/ ReadFaults(d) \/ CommitDiscovery(d)
         \/ FailDiscovery(d)
         \/ \E c \in Codes : KeepDefinition(d, c) \/ SeedDefinition(d, c) \/ AddPlaceholder(d, c)
    \/ \E c \in Codes, value \in {"described", "edited", "absent"} : EditDefinition(c, value)
    \/ \E c \in Codes : ObserveCode(c)
    \/ LoadKeys \/ InsertMissing
    \/ \E i \in Faults : AttachCritical(i)

CatalogueSpec == CatalogueInit /\ [][CatalogueNext]_catalogueVars

-----------------------------------------------------------------------------
(* Properties.                                                             *)

\* Type invariant: requests and definitions stay within their domains, and no
\* two open transactions hold the same row.
CatalogueTypeOK ==
    /\ definition \in [Codes -> Definitions] /\ observed \subseteq Codes /\ removed \subseteq Codes
    /\ fault \in [Faults -> [open : BOOLEAN, critical : BOOLEAN]]
    /\ discovery \in [Discoveries -> [pc : {"idle", "seeding", "observed", "closing"},
                        map : [Codes -> Definitions], todo : SUBSET Codes,
                        made : [Codes -> Definitions], close : SUBSET Faults]]
    /\ script.pc \in {"idle", "insert"} /\ script.missing \subseteq Catalogued
    /\ \A d, o \in Discoveries : d # o =>
         \A c \in Codes : discovery[d].made[c] = "absent" \/ discovery[o].made[c] = "absent"

\* A request that commits leaves the built-in definitions in place, also when
\* others insert the same codes meanwhile and only an edit may have removed one
\* (the savepoint of discover; docs/features/storage/event-association/overview.md:112).
DiscoveryIsComplete ==
    [][\A d \in Discoveries : (discovery[d].pc = "closing" /\ CommitDiscovery(d)) =>
         \A c \in BuiltIn : definition'[c] = "absent" => c \in removed]_catalogueVars

\* What stands in the catalogue changes without an administrator only by a discovery that loaded
\* it as a placeholder, never by the script, and only under a built-in code.  One that has been
\* given another type, title or review since then is replaced only where the seed has them too
\* (seed_common_definitions; docs/features/storage/event-association/overview.md:116).  A
\* description alone is not kept, which the same document suggests (l.112).
EditsAreKept ==
    [][\A c \in Codes : edits' = edits /\ definition[c] # "absent" /\ definition'[c] # definition[c] =>
         \E d \in Discoveries :
            /\ discovery[d].pc = "closing" /\ discovery[d].map[c] \in {"placeholder", "described"}
            /\ c \in BuiltIn /\ (c \in PendingSeeds => definition[c] = "described")
     ]_catalogueVars
=============================================================================
