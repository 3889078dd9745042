------------------------------- MODULE Publishing ------------------------------
(***************************************************************************)
(* `zigo-gen publish` and `zigo check`: publish of src/src/gen/publish.zig *)
(* copies the generated tree into the package's source directory and       *)
(* prunes what earlier runs left, compare of src/src/gen/sync_check.zig    *)
(* says whether the two agree.  A run may stop anywhere, killed or by an   *)
(* error of the file system; each file is replaced or deleted at once.     *)
(***************************************************************************)
EXTENDS Naturals, FiniteSets

CONSTANTS
  GoFiles,       \* paths of generated Go files, which begin with the marker
  Artifacts,     \* paths of exact artifacts, which carry no marker
  MaxBindings    \* bound on the generated trees

ASSUME PublishingAssumption == MaxBindings \in Nat \ {0}

Outputs == GoFiles \union Artifacts
Absent == 0
Own == MaxBindings + 1  \* a file somebody else wrote, without the marker; any
                        \* other number is the tree whose file it is

VARIABLES
  generated, binding,  \* the generated tree: its paths, and which tree it is
  source,              \* what each path of the source directory holds
  manifest,            \* the paths the source directory's manifest names
  stage, todo,         \* the run: its stage, and the paths left in it
  previous,            \* the manifest it read when it began
  published,           \* the run ended, and nothing has changed since
  strays,              \* history: artifacts of stopped runs that no manifest names
  foreign              \* history: own files on paths nothing has named since

publishVars ==
  <<generated, binding, source, manifest, stage, todo, previous, published,
    strays, foreign>>

Present(paths) == {p \in paths : source[p] # Absent}
Marked == {p \in GoFiles : source[p] \notin {Absent, Own}}

\* The directory may hold Go files of a version that wrote no manifest.
PublishInit ==
  /\ generated = {} /\ binding = 1
  /\ source \in [Outputs -> {Absent, 1}]
  /\ \A p \in Artifacts : source[p] = Absent
  /\ manifest = {} /\ stage = "idle" /\ todo = {} /\ previous = {}
  /\ published = FALSE /\ strays = {} /\ foreign = {}

\* The generator writes another tree, with its manifest.
GenerateTree ==
  /\ stage = "idle" /\ binding < MaxBindings
  /\ generated' \in SUBSET Outputs
  /\ binding' = binding + 1
  /\ published' = FALSE
  /\ foreign' = foreign \ generated'
  /\ UNCHANGED <<source, manifest, stage, todo, previous, strays>>

\* Somebody deletes a file from the source directory, or writes one.
Discard(p) ==
  /\ stage = "idle" /\ source[p] # Absent
  /\ source' = [source EXCEPT ![p] = Absent]
  /\ foreign' = foreign \ {p}
  /\ published' = FALSE /\ strays' = strays \ {p}
  /\ UNCHANGED <<generated, binding, manifest, stage, todo, previous>>

Author(p) ==
  /\ stage = "idle" /\ source[p] # Own
  /\ source' = [source EXCEPT ![p] = Own]
  /\ foreign' = foreign \union ({p} \ (generated \union manifest))
  /\ published' = FALSE /\ strays' = strays \ {p}
  /\ UNCHANGED <<generated, binding, manifest, stage, todo, previous>>

BeginPublish ==
  /\ stage = "idle"
  /\ stage' = "copy" /\ todo' = generated /\ previous' = manifest
  /\ published' = FALSE
  /\ UNCHANGED <<generated, binding, source, manifest, strays, foreign>>

\* Dir.updateFile: the file is there as a whole, or as it was.  It goes by size and
\* modification time, which an edit and another tree change.
Copy(p) ==
  /\ stage = "copy" /\ p \in todo
  /\ source' = [source EXCEPT ![p] = binding]
  /\ todo' = todo \ {p}
  /\ UNCHANGED <<generated, binding, manifest, stage, previous, published, strays,
                 foreign>>

\* A file of the previous manifest, whoever wrote it since, or one with the
\* marker, that the tree no longer has; it may be gone already.
Prune(p) ==
  /\ stage \in {"prune", "sweep"} /\ p \in todo
  /\ source' = [source EXCEPT ![p] = Absent]
  /\ todo' = todo \ {p}
  /\ UNCHANGED <<generated, binding, manifest, stage, previous, published, strays,
                 foreign>>

\* Mutant: the manifest is written as soon as the files it names are there.
StageAfterManifestFirst ==
  [copy |-> "manifest", manifest |-> "prune", prune |-> "sweep",
   sweep |-> "idle"]

StageAfter ==
  [copy |-> "prune", prune |-> "sweep", sweep |-> "manifest",
   manifest |-> "idle"]

\* What a stage goes through.  The sweep passes over a Go file without the marker,
\* and over zigo_link_inputs_gen.go, which another command writes.
Work(s) ==
  CASE s = "prune" -> previous \ generated
    [] s = "sweep" -> Marked \ generated
    [] OTHER       -> {}

NextStage ==
  /\ stage # "idle" /\ todo = {}
  /\ stage' = StageAfter[stage]
  /\ todo' = Work(stage')
  /\ manifest' = IF stage = "manifest" THEN generated ELSE manifest
  /\ published' = (stage' = "idle")
  /\ strays' = IF stage = "manifest" THEN strays \ generated ELSE strays
  /\ UNCHANGED <<generated, binding, source, previous, foreign>>

\* The run is killed, or a call fails and ends it.
Stop ==
  /\ stage # "idle"
  /\ stage' = "idle" /\ todo' = {}
  /\ strays' = strays \union (Present(generated \intersect Artifacts) \ manifest)
  /\ UNCHANGED <<generated, binding, source, manifest, previous, published, foreign>>

PublishNext ==
  \/ GenerateTree \/ BeginPublish \/ NextStage \/ Stop
  \/ \E p \in Outputs : Discard(p) \/ Author(p) \/ Copy(p) \/ Prune(p)

PublishSpec == PublishInit /\ [][PublishNext]_publishVars

-----------------------------------------------------------------------------
\* compare: what differs, and what is there that no tree has any more.
compare ==
  {p \in generated : source[p] # binding}
    \union Present(manifest \ generated)
    \union (Marked \ generated)

\* "a publish that did not prune would leave the tree failing its own check":
\* after a run that ended the check finds nothing, whatever earlier runs stopped
\* at and whatever was deleted or written meanwhile; and an artifact that is left
\* over is one a stopped run copied, or somebody's own.  At no time does a run
\* remove a file that no tree and no manifest has named.
PublishedPassesCheck ==
  /\ published =>
       /\ compare = {}
       /\ {p \in Present(Artifacts \ generated) : source[p] # Own} \subseteq strays
  /\ \A p \in foreign : source[p] = Own
=============================================================================
