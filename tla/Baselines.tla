------------------------------ MODULE Baselines ------------------------------
(***************************************************************************)
(* The baselines of evaluation: files that operators' commands write side  *)
(* by side without a lock.  An evaluation leaves a run in the store; a run *)
(* is promoted to a baseline, in three files: a copy of the run, a         *)
(* manifest with the hash of its metrics, and the registry of all          *)
(* baselines, which is written under a temporary name and then renamed.    *)
(* The service lists baselines and makes manifests for those of older      *)
(* versions, which have none; a command cleans the store, but for what the *)
(* registry names.                                                         *)
(***************************************************************************)
EXTENDS Naturals, FiniteSets

CONSTANTS
  Baseline,                   \* identifiers of baselines
  Promoter, Lister, Cleaner,  \* processes
  MaxEvaluations, MaxPromotions, MaxCleanings

ASSUME BaselineBounds ==
  /\ IsFiniteSet(Promoter)
  /\ MaxEvaluations \in Nat /\ MaxPromotions \in Nat /\ MaxCleanings \in Nat

VARIABLES
  evaluated,  \* evaluations so far: runs are numbered in their order
  evalStore,  \* the runs in the store
  file,       \* the baselines that have a file, with the run in it
  manifest,   \* those that have a manifest, with the run hashed and the run named
  disk,       \* registries as files, whatever their name
  tmp,        \* the one under the temporary name, 0 for none
  registry,   \* the one under its proper name, 0 for none
  promotion, listing, cleaning,  \* what the processes are doing
  promotions, cleanings,
  kept,       \* history: the run each baseline was last promoted from
  broken,     \* history: baselines a killed process was writing
  met         \* history: the kinds of process that have overlapped with a promotion

baselineVars == <<evaluated, evalStore, file, manifest, disk, tmp, registry, promotion,
                  listing, cleaning, promotions, cleanings, kept, broken, met>>
actors == <<promotion, listing, cleaning, promotions, cleanings, kept, broken, met>>

\* A file that was left half written, as it is read.
Torn == 0

Updated(f, x, y) == [z \in DOMAIN f \cup {x} |-> IF z = x THEN y ELSE f[z]]
Nothing == [b \in {} |-> Torn]

File == 1..Cardinality(Promoter) + 1
Written(names) == [state |-> "whole", names |-> names]
Unwritten == [state |-> "empty", names |-> Nothing]
Mixed == [state |-> "torn", names |-> Nothing]

\* _load_registry: without a file there are no baselines; one that cannot be
\* parsed raises.
RegistryReadable == registry # 0 => disk[registry].state = "whole"
Names == IF registry = 0 \/ ~ RegistryReadable THEN Nothing ELSE disk[registry].names

NoPromotion == [pc |-> "idle", run |-> 0, base |-> 0, copy |-> Nothing, handle |-> 0]
NoListing == [pc |-> "idle", base |-> 0, source |-> 0, hash |-> Torn]
NoCleaning == [pc |-> "idle", doomed |-> {}]

\* `old' is the baseline of an older version, if there is one.
BaselinesInit ==
  /\ \E old \in {Nothing} \cup {[x \in {b} |-> 1] : b \in Baseline} :
       /\ file = old /\ kept = old
       /\ evaluated = Cardinality(DOMAIN old) /\ evalStore = 1..evaluated
       /\ disk = [n \in File |-> IF n = 1 THEN Written(old) ELSE Unwritten]
       /\ registry = evaluated
  /\ manifest = Nothing /\ tmp = 0
  /\ promotion = [p \in Promoter |-> NoPromotion] /\ promotions = 0
  /\ listing = [l \in Lister |-> NoListing]
  /\ cleaning = [c \in Cleaner |-> NoCleaning] /\ cleanings = 0
  /\ broken = {} /\ met = {}

-----------------------------------------------------------------------------
(* Plausible slips in the definitions below, used to see that the          *)
(* properties notice them.                                                 *)

\* The registry is written where it is.
OpenedInPlace(p) ==
  /\ disk' = [disk EXCEPT ![1] = Unwritten]
  /\ tmp' = 1 /\ registry' = 1
  /\ promotion' = [promotion EXCEPT ![p].pc = "fill", ![p].handle = 1]

-----------------------------------------------------------------------------
(* Evaluation and promotion.                                               *)

Evaluate ==
  /\ evaluated < MaxEvaluations
  /\ evaluated' = evaluated + 1 /\ evalStore' = evalStore \cup {evaluated'}
  /\ UNCHANGED <<file, manifest, disk, tmp, registry, actors>>

Promoting == \E p \in Promoter : promotion[p].pc # "idle"
Meets(kind, there) == met' = IF there THEN met \cup {kind} ELSE met

PromoteRun(p, r, b) ==
  /\ promotion[p].pc = "idle" /\ promotions < MaxPromotions
  /\ promotions' = promotions + 1
  /\ promotion' = [promotion EXCEPT ![p] = [@ EXCEPT !.pc = "file", !.run = r, !.base = b]]
  /\ met' = met \cup (IF Promoting THEN {"promotion"} ELSE {})
                \cup {k \in {"listing"} : \E l \in Lister : listing[l].pc # "idle"}
                \cup {k \in {"cleaning"} : \E c \in Cleaner : cleaning[c].pc # "idle"}
  /\ UNCHANGED <<evaluated, evalStore, file, manifest, disk, tmp, registry, listing, cleaning,
                 cleanings, kept, broken>>

Step(p, from, to) ==
  /\ promotion[p].pc = from
  /\ promotion' = [promotion EXCEPT ![p].pc = to]
  /\ UNCHANGED <<evaluated, evalStore, listing, cleaning, promotions, cleanings, kept, broken, met>>

CopyRun(p) ==
  /\ Step(p, "file", "manifest")
  /\ file' = Updated(file, promotion[p].base, promotion[p].run)
  /\ UNCHANGED <<manifest, disk, tmp, registry>>

Manifest(hash, source) == [hash |-> hash, source |-> source]

WriteManifest(p) ==
  /\ Step(p, "manifest", "load")
  /\ manifest' = Updated(manifest, promotion[p].base, Manifest(promotion[p].run, promotion[p].run))
  /\ UNCHANGED <<file, disk, tmp, registry>>

LoadRegistry(p) ==
  /\ promotion[p].pc = "load"
  /\ promotion' = [promotion EXCEPT ![p] =
       IF RegistryReadable
       THEN [@ EXCEPT !.pc = "open", !.copy = Updated(Names, promotion[p].base, promotion[p].run)]
       ELSE NoPromotion]
  /\ UNCHANGED <<evaluated, evalStore, file, manifest, disk, tmp, registry, listing, cleaning,
                 promotions, cleanings, kept, broken, met>>

\* The temporary name is the same for all: who opens it empties what another is
\* writing, or made anew there.
Unused == File \ ({tmp, registry} \cup {promotion[p].handle : p \in Promoter})
Opened(p) ==
  \E n \in (IF tmp # 0 THEN {tmp} ELSE {CHOOSE f \in Unused : TRUE}) :
    /\ disk' = [disk EXCEPT ![n] = Unwritten]
    /\ tmp' = n /\ UNCHANGED registry
    /\ promotion' = [promotion EXCEPT ![p].pc = "fill", ![p].handle = n]

OpenRegistry(p) ==
  /\ promotion[p].pc = "open"
  /\ Opened(p)
  /\ UNCHANGED <<evaluated, evalStore, file, manifest, listing, cleaning, promotions, cleanings,
                 kept, broken, met>>

\* Over what another has written meanwhile, the longer text leaves its end.
FillRegistry(p) ==
  /\ Step(p, "fill", "rename")
  /\ \E text \in {Written(promotion[p].copy)}
                 \cup (IF disk[promotion[p].handle].state = "empty" THEN {} ELSE {Mixed}) :
       disk' = [disk EXCEPT ![promotion[p].handle] = text]
  /\ UNCHANGED <<file, manifest, tmp, registry>>

\* Renaming fails if another has renamed the file; its promoter reports an error.
RenameRegistry(p) ==
  /\ promotion[p].pc = "rename"
  /\ promotion' = [promotion EXCEPT ![p] = NoPromotion]
  /\ tmp' = 0 /\ registry' = IF tmp = 0 THEN registry ELSE tmp
  /\ kept' = IF tmp = 0 THEN kept ELSE Updated(kept, promotion[p].base, promotion[p].run)
  /\ broken' = IF tmp = 0 THEN broken ELSE broken \ {promotion[p].base}
  /\ UNCHANGED <<evaluated, evalStore, file, manifest, disk, listing, cleaning, promotions,
                 cleanings, met>>

\* The process ends, possibly in the middle of writing a file.
KillPromoter(p) ==
  /\ promotion[p].pc # "idle"
  /\ \/ UNCHANGED <<file, manifest>>
     \/ promotion[p].pc = "file" /\ UNCHANGED manifest
        /\ file' = Updated(file, promotion[p].base, Torn)
     \/ promotion[p].pc = "manifest" /\ UNCHANGED file
        /\ manifest' = Updated(manifest, promotion[p].base, Manifest(Torn, Torn))
  /\ promotion' = [promotion EXCEPT ![p] = NoPromotion]
  /\ broken' = broken \cup {promotion[p].base}
  /\ UNCHANGED <<evaluated, evalStore, disk, tmp, registry, listing, cleaning, promotions,
                 cleanings, kept, met>>

-----------------------------------------------------------------------------
(* The list, a comparison, and the clean-up.                               *)

\* list_baselines knows the source of a baseline from the registry; a comparison,
\* which finds the file by its name too, takes it from the file.
ListBaselines(l, b) ==
  /\ listing[l].pc = "idle" /\ b \in DOMAIN Names \cap DOMAIN file
  /\ listing' = [listing EXCEPT ![l] = [@ EXCEPT !.pc = "listed", !.base = b, !.source = Names[b]]]
  /\ Meets("listing", Promoting)
  /\ UNCHANGED <<evaluated, evalStore, file, manifest, disk, tmp, registry, promotion, cleaning,
                 promotions, cleanings, kept, broken>>

CompareWith(l, b) ==
  /\ listing[l].pc = "idle" /\ b \in DOMAIN file /\ RegistryReadable
  /\ listing' = [listing EXCEPT ![l] = [@ EXCEPT !.pc = "listed", !.base = b]]
  /\ Meets("listing", Promoting)
  /\ UNCHANGED <<evaluated, evalStore, file, manifest, disk, tmp, registry, promotion, cleaning,
                 promotions, cleanings, kept, broken>>

\* validate_baseline_manifest, where there is no manifest.  A file that cannot be
\* read gives a manifest of no metrics if its source is known, and else an error.
Validate(l) ==
  LET b == listing[l].base IN
  /\ listing[l].pc = "listed"
  /\ listing' = [listing EXCEPT ![l] =
       IF b \in DOMAIN manifest \/ (file[b] = Torn /\ listing[l].source = 0) THEN NoListing
       ELSE [listing[l] EXCEPT !.pc = "backfill", !.hash = file[b],
                               !.source = IF @ = 0 THEN file[b] ELSE @]]
  /\ UNCHANGED <<evaluated, evalStore, file, manifest, disk, tmp, registry, promotion, cleaning,
                 promotions, cleanings, kept, broken, met>>

Backfill(l, killed) ==
  /\ listing[l].pc = "backfill"
  /\ manifest' = Updated(manifest, listing[l].base,
       IF killed THEN Manifest(Torn, Torn) ELSE Manifest(listing[l].hash, listing[l].source))
  /\ broken' = IF killed THEN broken \cup {listing[l].base} ELSE broken
  /\ listing' = [listing EXCEPT ![l] = NoListing]
  /\ UNCHANGED <<evaluated, evalStore, file, disk, tmp, registry, promotion, cleaning, promotions,
                 cleanings, kept, met>>

\* Of the runs in the store all go but the newest, whose number or age is chosen,
\* and those the registry names.
Doomed(keep) ==
  {r \in evalStore : /\ \A b \in DOMAIN Names : Names[b] # r
                     /\ Cardinality({s \in evalStore : s > r}) >= keep}

StartCleaning(c, keep) ==
  /\ cleaning[c].pc = "idle" /\ cleanings < MaxCleanings /\ RegistryReadable
  /\ cleanings' = cleanings + 1
  /\ cleaning' = [cleaning EXCEPT ![c] = [pc |-> "delete", doomed |-> Doomed(keep)]]
  /\ Meets("cleaning", Promoting)
  /\ UNCHANGED <<evaluated, evalStore, file, manifest, disk, tmp, registry, promotion, listing,
                 promotions, kept, broken>>

DeleteRuns(c) ==
  /\ cleaning[c].pc = "delete"
  /\ evalStore' = evalStore \ cleaning[c].doomed
  /\ cleaning' = [cleaning EXCEPT ![c] = NoCleaning]
  /\ UNCHANGED <<evaluated, file, manifest, disk, tmp, registry, promotion, listing, promotions,
                 cleanings, kept, broken, met>>

BaselinesNext ==
  \/ Evaluate
  \/ \E p \in Promoter :
       \/ \E r \in evalStore, b \in Baseline : PromoteRun(p, r, b)
       \/ CopyRun(p) \/ WriteManifest(p) \/ LoadRegistry(p)
       \/ OpenRegistry(p) \/ FillRegistry(p) \/ RenameRegistry(p)
       \/ KillPromoter(p)
  \/ \E l \in Lister :
       \/ \E b \in Baseline : ListBaselines(l, b) \/ CompareWith(l, b)
       \/ Validate(l) \/ \E killed \in BOOLEAN : Backfill(l, killed)
  \/ \E c \in Cleaner : DeleteRuns(c) \/ \E keep \in 0..1 : StartCleaning(c, keep)

BaselinesSpec == BaselinesInit /\ [][BaselinesNext]_baselineVars

-----------------------------------------------------------------------------
(* Properties.                                                             *)

BaselinesTypeOK ==
  /\ evalStore \subseteq 1..evaluated /\ DOMAIN file \subseteq Baseline
  /\ tmp \in File \cup {0} /\ registry \in File \cup {0}
  /\ DOMAIN manifest \subseteq DOMAIN file /\ DOMAIN kept \subseteq DOMAIN file

\* "Save the baseline registry atomically" (baseline.py:64): whoever is killed
\* where, as long as promotions come one at a time the registry can be read and
\* names every promotion that was reported, and the latest of each baseline.
RegistryWhole == "promotion" \notin met => RegistryReadable /\ Names = kept

\* "while protecting baselines" (scripts/eval_cleanup.py): the run of a baseline
\* stays in the store, unless cleaning overlaps with its promotion.
SourcesStay ==
  met \cap {"promotion", "cleaning"} = {} => \A b \in DOMAIN Names : Names[b] \in evalStore

\* A baseline that validates is the run it is said to be, by its manifest and by
\* the registry, unless its last promotion was killed.
Valid(b) == b \in DOMAIN manifest /\ manifest[b].hash = file[b] /\ file[b] # Torn
ValidIsPromoted ==
  met = {} =>
    \A b \in DOMAIN Names \ broken :
      (\A p \in Promoter : promotion[p].base # b) =>
        /\ file[b] = Names[b]
        /\ b \in DOMAIN manifest => Valid(b) /\ manifest[b].source = Names[b]

PromotionsKept == RegistryWhole /\ SourcesStay /\ ValidIsPromoted
=============================================================================
